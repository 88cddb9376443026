------------------------------ MODULE MCOpening ------------------------------
(* Small files and the options that differ in what the code does with them: *)
(* one, two or too many links; a number of segments, a segment size, both,  *)
(* a size of zero, more segments than bytes; rates that leave a link empty. *)
EXTENDS Opening

MCOption(n, i, S, lte, wifi) ==
  [n |-> n, i |-> i, S |-> S, rate |-> [c \in Conn |-> IF c = 0 THEN lte ELSE wifi]]

MCOptions ==
  {MCOption(n, i, S, 1, 1) : n \in {1, 2, 3}, i \in {NotSet, 3},
                             S \in {NotSet, 0, 1, 3}}
  \cup {MCOption(2, i, NotSet, 1, 1) : i \in {0, 2, 7}}
  \cup {MCOption(2, NotSet, NotSet, r[1], r[2]) :
          r \in {<<0, 0>>, <<0, 1>>, <<1, 0>>, <<1, 3>>, <<3, 1>>}}
=============================================================================
