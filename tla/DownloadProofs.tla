--------------------------- MODULE DownloadProofs ---------------------------
(***************************************************************************)
(* The ledger keeps its promises for a file of any size and any set of     *)
(* links.  TypeOK and Partition together are inductive.                    *)
(***************************************************************************)
EXTENDS Download, TLAPS

IInv == TypeOK /\ Partition

\* What it means to be one of the bytes added by add_new_segment.
LEMMA FreshMembers ==
  ASSUME NEW f \in Int, NEW g \in Int, NEW b \in Int
  PROVE  b \in Fresh(f, g) <=> f <= b /\ b < g
  BY DEF Fresh

\* The state in which gb_start leaves the engine is a partition.
LEMMA InitIInv ==
  ASSUME Size \in Nat \ {0}, Init
  PROVE  IInv
<1> USE DEF Init, Ledger, Fresh, Byte
<1>1. TypeOK
  BY DEF TypeOK
<1>2. Partition
  BY DEF Partition, Divides
<1> QED
  BY <1>1, <1>2 DEF IInv

\* Receiving bytes (write_received_data) moves them from owed to stored.
LEMMA DeliverIInv ==
  ASSUME Size \in Nat \ {0}, IInv, NEW c \in Conn, Deliver(c)
  PROVE  IInv'
<1> USE DEF IInv, Deliver, Ledger, Byte
<1>1. TypeOK'
  BY DEF TypeOK
<1>2. \A d \in Conn : owed'[d] \subseteq owed[d]
  OBVIOUS
<1>3. \A b \in Byte : b < frontier' <=>
        b \in stored' \/ \E d \in Conn : b \in owed'[d]
  <2> SUFFICES ASSUME NEW b \in Byte
               PROVE  b < frontier <=>
                        b \in stored' \/ \E d \in Conn : b \in owed'[d]
    OBVIOUS
  <2>1. (b \in stored' \/ \E d \in Conn : b \in owed'[d]) <=>
          b \in stored \/ \E d \in Conn : b \in owed[d]
    BY <1>2
  <2> QED
    BY <2>1 DEF Partition
<1>4. \A d \in Conn : owed'[d] \cap stored' = {}
  BY <1>2 DEF Partition
<1>5. \A d, e \in Conn : d # e => owed'[d] \cap owed'[e] = {}
  BY <1>2 DEF Partition
<1> QED
  BY <1>1, <1>3, <1>4, <1>5 DEF Partition

\* A new segment (add_new_segment) is made of bytes above the frontier.
LEMMA ExtendIInv ==
  ASSUME Size \in Nat \ {0}, IInv, Extend
  PROVE  IInv'
<1> DEFINE new(c) == owed'[c] \ owed[c]
<1> USE DEF IInv, Byte
<1>0. TypeOK /\ frontier' \in frontier + 1 .. Size /\ owed' \in Ledger
      /\ stored' = stored
  BY DEF Extend
<1>1. TypeOK'
  BY <1>0 DEF TypeOK
<1>2. /\ \A b \in Fresh(frontier, frontier') : \E c \in Conn : b \in new(c)
      /\ \A c \in Conn : new(c) \subseteq Fresh(frontier, frontier')
      /\ \A c, d \in Conn : c # d => new(c) \cap new(d) = {}
  BY DEF Extend, Divides
<1>3. \A c \in Conn : owed'[c] = owed[c] \cup new(c)
  BY DEF Extend
<1>4. \A b \in Byte : b \in Fresh(frontier, frontier') <=>
        frontier <= b /\ b < frontier'
  <2>1. Size \in Nat /\ frontier \in Int /\ frontier' \in Int
    BY <1>0 DEF TypeOK
  <2> QED
    BY <2>1, FreshMembers
<1>5. \A c \in Conn : new(c) \subseteq Byte
  BY <1>0 DEF Ledger
<1> HIDE DEF new
<1>6. \A b \in Byte : b < frontier' <=>
        b \in stored' \/ \E c \in Conn : b \in owed'[c]
  <2> SUFFICES ASSUME NEW b \in Byte
               PROVE  b < frontier' <=>
                        b \in stored \/ \E c \in Conn : b \in owed'[c]
    BY <1>0
  <2>1. b < frontier' <=> b < frontier \/ b \in Fresh(frontier, frontier')
    BY <1>0, <1>4 DEF TypeOK
  <2>2. b \in Fresh(frontier, frontier') <=> \E c \in Conn : b \in new(c)
    BY <1>2
  <2> QED
    BY <2>1, <2>2, <1>3 DEF Partition
<1>7. \A b \in Fresh(frontier, frontier') :
        b \notin stored /\ \A c \in Conn : b \notin owed[c]
  BY <1>0, <1>4 DEF TypeOK, Partition, Ledger, Fresh
<1>8. \A c \in Conn : owed'[c] \cap stored' = {}
  BY <1>0, <1>2, <1>3, <1>7 DEF Partition
<1>9. \A c, d \in Conn : c # d => owed'[c] \cap owed'[d] = {}
  BY <1>2, <1>3, <1>7 DEF Partition
<1> QED
  BY <1>1, <1>6, <1>8, <1>9 DEF Partition

\* Recovery (recover_outorder_portion_and_next_segment) divides again what
\* one link owes, and nothing that is stored or owed by another link.
LEMMA ReassignIInv ==
  ASSUME Size \in Nat \ {0}, IInv, NEW d \in Conn, Reassign(d)
  PROVE  IInv'
<1> DEFINE new(c) == IF c = d THEN owed'[c] ELSE owed'[c] \ owed[c]
           again == owed[d] \cup Fresh(frontier, frontier')
<1> USE DEF IInv, Byte
<1>0. TypeOK /\ frontier' \in frontier .. Size /\ owed' \in Ledger
      /\ stored' = stored
  BY DEF Reassign
<1>1. TypeOK'
  BY <1>0 DEF TypeOK
<1>2. /\ \A b \in again : \E c \in Conn : b \in new(c)
      /\ \A c \in Conn : new(c) \subseteq again
      /\ \A b, c \in Conn : b # c => new(b) \cap new(c) = {}
  BY DEF Reassign, Divides
<1>3. /\ owed'[d] = new(d)
      /\ \A c \in Conn \ {d} : owed'[c] = owed[c] \cup new(c)
  BY DEF Reassign
<1>4. \A b \in Byte : b \in again <=>
        b \in owed[d] \/ (frontier <= b /\ b < frontier')
  <2>1. Size \in Nat /\ frontier \in Int /\ frontier' \in Int
    BY <1>0 DEF TypeOK
  <2> QED
    BY <2>1, FreshMembers
<1>5. /\ again \subseteq Byte
      /\ \A c \in Conn : owed'[c] \subseteq Byte /\ owed[c] \subseteq Byte
  BY <1>0 DEF TypeOK, Ledger, Fresh
<1> HIDE DEF new, again
<1>6. \A b \in again :
        b \notin stored /\ \A c \in Conn \ {d} : b \notin owed[c]
  BY <1>0, <1>4, <1>5 DEF TypeOK, Partition
<1>7. \A b \in Byte : b < frontier' <=>
        b \in stored' \/ \E c \in Conn : b \in owed'[c]
  <2> SUFFICES ASSUME NEW b \in Byte
               PROVE  b < frontier' <=>
                        b \in stored \/ \E c \in Conn : b \in owed'[c]
    BY <1>0
  <2>1. b < frontier' <=> b < frontier \/ (frontier <= b /\ b < frontier')
    BY <1>0 DEF TypeOK
  <2>2. b < frontier <=> \/ b \in stored \/ b \in owed[d]
                         \/ \E c \in Conn \ {d} : b \in owed[c]
    BY DEF Partition
  <2>3. b < frontier' <=> \/ b \in stored \/ b \in again
                          \/ \E c \in Conn \ {d} : b \in owed[c]
    BY <2>1, <2>2, <1>4
  <2>4. b \in again <=> \E c \in Conn : b \in new(c)
    BY <1>2
  <2>5. (\E c \in Conn : b \in owed'[c]) <=>
          \/ \E c \in Conn : b \in new(c)
          \/ \E c \in Conn \ {d} : b \in owed[c]
    BY <1>3
  <2> QED
    BY <2>3, <2>4, <2>5
<1>8. \A c \in Conn : owed'[c] \cap stored' = {}
  BY <1>0, <1>2, <1>3, <1>6 DEF Partition
<1>9. \A b, c \in Conn : b # c => owed'[b] \cap owed'[c] = {}
  BY <1>2, <1>3, <1>6 DEF Partition
<1> QED
  BY <1>1, <1>7, <1>8, <1>9 DEF Partition

\* Every step of the ledger keeps the inductive invariant.
LEMMA NextIInv ==
  ASSUME Size \in Nat \ {0}, IInv, [Next]_vars
  PROVE  IInv'
<1>1. CASE Extend
  BY <1>1, ExtendIInv
<1>2. ASSUME NEW c \in Conn, Deliver(c) PROVE IInv'
  BY <1>2, DeliverIInv
<1>3. ASSUME NEW c \in Conn, Reassign(c) PROVE IInv'
  BY <1>3, ReassignIInv
<1>4. CASE UNCHANGED vars
  BY <1>4 DEF vars, IInv, TypeOK, Partition
<1> QED
  BY <1>1, <1>2, <1>3, <1>4 DEF Next

\* Every byte below the frontier is stored or owed by exactly one link, in
\* every execution and for every file: chunk bookkeeping is sound.
THEOREM PartitionHolds ==
  ASSUME Size \in Nat \ {0}
  PROVE  Spec => [](TypeOK /\ Partition)
<1>1. Init => IInv
  BY InitIInv
<1>2. IInv /\ [Next]_vars => IInv'
  BY NextIInv
<1>3. IInv => TypeOK /\ Partition
  BY DEF IInv
<1> QED
  BY <1>1, <1>2, <1>3, PTL DEF Spec

\* A stored byte is never lost and never asked for again, recovery included.
THEOREM NeverAskedAgainHolds ==
  ASSUME Size \in Nat \ {0}
  PROVE  Spec => NeverAskedAgain
<1>1. IInv /\ [Next]_vars =>
        [stored \subseteq stored' /\ \A c \in Conn : owed'[c] \cap stored = {}]_vars
  <2> SUFFICES ASSUME IInv, Next
               PROVE  /\ stored \subseteq stored'
                      /\ \A c \in Conn : owed'[c] \cap stored = {}
    OBVIOUS
  <2>1. stored \subseteq stored'
    BY DEF Next, Extend, Deliver, Reassign
  <2>2. IInv'
    BY NextIInv
  <2> QED
    BY <2>1, <2>2 DEF IInv, Partition
<1>2. Init => IInv
  BY InitIInv
<1>3. IInv /\ [Next]_vars => IInv'
  BY NextIInv
<1> QED
  BY <1>1, <1>2, <1>3, PTL DEF Spec, NeverAskedAgain
=============================================================================
