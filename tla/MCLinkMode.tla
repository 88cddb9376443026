----------------------------- MODULE MCLinkMode -----------------------------
(* Link modes for small files and rates at which each link is the cheaper   *)
(* one for some goodput.                                                    *)
EXTENDS LinkMode

ASSUME InstanceAssumption ==
  \E g, h \in [Conn -> Rate] : /\ LteCost(g) < WifiCost(g)
                                /\ LteCost(h) > WifiCost(h)
=============================================================================
