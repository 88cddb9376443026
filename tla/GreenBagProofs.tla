--------------------------- MODULE GreenBagProofs ---------------------------
(***************************************************************************)
(* The types and the byte bookkeeping of the download engine, for a file   *)
(* of any size, any segment size and read size, all modes, and any number  *)
(* of failures.  Bookkeeping is the inductive invariant.                   *)
(***************************************************************************)
EXTENDS GreenBag, FiniteSetTheorems, SequenceTheorems, WellFoundedInduction,
        TLAPS

USE DEF threadVars

\* Every non-empty set of naturals has a least element: the intervals 0 .. n
\* are well-founded under inclusion.
LEMMA LeastNat ==
  ASSUME NEW S, S \subseteq Nat, S # {}
  PROVE  \E m \in S : \A b \in S : m <= b
<1> DEFINE T == {0 .. n : n \in S}
           R == StrictSubsetOrdering(Nat)
<1>1. T \subseteq FiniteSubsetsOf(Nat)
  <2>1. \A n \in S : IsFiniteSet(0 .. n)
    BY FS_Interval
  <2>2. \A n \in S : 0 .. n \subseteq Nat
    OBVIOUS
  <2> QED
    BY <2>1, <2>2 DEF FiniteSubsetsOf
<1>2. T # {}
  OBVIOUS
<1>3. IsWellFoundedOn(R, FiniteSubsetsOf(Nat))
  BY FS_StrictSubsetOrderingWellFounded
<1>4. \E x \in T : \A y \in T : <<y, x>> \notin R
  <2> HIDE DEF T, R
  <2> QED
    BY <1>1, <1>2, <1>3, WFMin
<1>5. PICK m \in S : \A b \in S : <<0 .. b, 0 .. m>> \notin R
  BY <1>4
<1>6. ASSUME NEW b \in S, b < m PROVE FALSE
  <2>1. 0 .. b \subseteq 0 .. m /\ 0 .. b # 0 .. m
    BY <1>6
  <2>2. 0 .. b \in FiniteSubsetsOf(Nat) /\ 0 .. m \in FiniteSubsetsOf(Nat)
    BY <1>1
  <2> QED
    BY <2>1, <2>2, <1>5 DEF StrictSubsetOrdering, FiniteSubsetsOf
<1> QED
  BY <1>6

\* Every non-empty set of bytes of the file has a greatest element.
LEMMA GreatestByte ==
  ASSUME NEW S, S \subseteq Byte, S # {}
  PROVE  \E m \in S : \A b \in S : b <= m
<1> DEFINE T == {Size - 1 - b : b \in S}
<1>0. Size \in Nat /\ \A b \in S : b \in Int /\ 0 <= b /\ b <= Size - 1
  BY SizeAssumption DEF Byte
<1>1. T \subseteq Nat /\ T # {}
  <2>1. \A b \in S : Size - 1 - b \in Nat
    BY <1>0
  <2> QED
    BY <2>1
<1>2. PICK t \in T : \A u \in T : t <= u
  <2> HIDE DEF T
  <2> QED
    BY <1>1, LeastNat
<1>3. PICK m \in S : t = Size - 1 - m
  BY <1>2
<1>4. \A b \in S : Size - 1 - m <= Size - 1 - b
  BY <1>2, <1>3
<1>5. \A b \in S : b <= m
  BY <1>0, <1>4
<1> QED
  BY <1>5

\* The head of a chunk list is one of its chunks, and no other starts before.
LEMMA FirstChunkIsFirst ==
  ASSUME NEW C, C \subseteq Chunk, C # {}
  PROVE  /\ FirstChunk(C) \in C
         /\ \A m \in C : FirstChunk(C).first <= m.first
<1> DEFINE S == {k.first : k \in C}
<1>1. S \subseteq Nat /\ S # {}
  BY DEF Chunk, Byte
<1>2. PICK f \in S : \A b \in S : f <= b
  <2> HIDE DEF S
  <2> QED
    BY <1>1, LeastNat
<1>3. \E k \in C : \A m \in C : k.first <= m.first
  BY <1>2
<1> QED
  BY <1>3 DEF FirstChunk

\* get_first_next_segment_assigned_to_conn finds the nearest later segment.
LEMMA NextSegmentIsNext ==
  ASSUME NEW sub, NEW s \in Int, NEW c \in Conn
  PROVE  /\ NextSegment(sub, s, c) = NULL <=> NextSegments(sub, s, c) = {}
         /\ NextSegments(sub, s, c) # {} =>
              LET n == NextSegment(sub, s, c)
              IN  /\ n \in SegId
                  /\ n > s
                  /\ sub[n][c] # {}
                  /\ \A u \in SegId : u > s /\ u < n => sub[u][c] = {}
<1> DEFINE N == NextSegments(sub, s, c)
<1>1. N \subseteq SegId
  BY DEF NextSegments
<1>2. CASE N = {}
  BY <1>2 DEF NextSegment
<1>3. CASE N # {}
  <2>1. N \subseteq Nat
    BY <1>1, BoundAssumption DEF SegId
  <2>2. \E t \in N : \A u \in N : t <= u
    <3> HIDE DEF N
    <3> QED
      BY <2>1, <1>3, LeastNat
  <2>3. NextSegment(sub, s, c) \in N
        /\ \A u \in N : NextSegment(sub, s, c) <= u
    <3>1. NextSegment(sub, s, c) = CHOOSE t \in N : \A u \in N : t <= u
      BY <1>3 DEF NextSegment
    <3> HIDE DEF N
    <3> QED
      BY <3>1, <2>2
  <2>4. \A u \in SegId : u > s /\ sub[u][c] # {} => u \in N
    BY DEF NextSegments
  <2>5. NextSegment(sub, s, c) # NULL
    BY <2>3, <1>1, BoundAssumption DEF SegId, NULL
  <2> QED
    BY <1>1, <1>3, <2>1, <2>3, <2>4, <2>5 DEF NextSegments, SegId
<1> QED
  BY <1>2, <1>3
-----------------------------------------------------------------------------
(* Chunks                                                                  *)

\* The bounds of a chunk, in the form arithmetic needs.
LEMMA ChunkBounds ==
  /\ \A k \in Chunk : /\ k.first \in Int /\ k.last \in Int
                      /\ 0 <= k.first /\ k.first <= k.last
                      /\ k.last <= Size - 1
  /\ \A f, l \in Int : 0 <= f /\ f <= l /\ l <= Size - 1 =>
                       [first |-> f, last |-> l] \in Chunk
<1>1. Size \in Int
  BY SizeAssumption
<1> QED
  BY <1>1 DEF Chunk, Byte

\* Byte b lies in one of the chunks C.
In(b, C) == \E k \in C : k.first <= b /\ b <= k.last
AllApart(C) == \A k, m \in C : k = m \/ Apart(k, m)

\* The bytes of a chunk list are bytes of the file.
LEMMA BytesIn ==
  ASSUME NEW C \in SUBSET Chunk
  PROVE  /\ Bytes(C) \subseteq Byte
         /\ \A b \in Int : b \in Bytes(C) <=> In(b, C)
         /\ C # {} => Bytes(C) # {}
<1>1. \A b : b \in Bytes(C) <=> \E k \in C : b \in k.first .. k.last
  BY DEF Bytes
<1>2. \A k \in C : /\ k.first \in Int /\ k.last \in Int
                   /\ 0 <= k.first /\ k.first <= k.last /\ k.last <= Size - 1
  BY ChunkBounds
<1>3. Size \in Int
  BY SizeAssumption
<1> HIDE DEF Bytes
<1>4. Bytes(C) \subseteq Byte
  BY <1>1, <1>2, <1>3 DEF Byte
<1>5. \A b \in Int : b \in Bytes(C) <=> In(b, C)
  BY <1>1, <1>2 DEF In
<1>6. C # {} => Bytes(C) # {}
  <2> SUFFICES ASSUME NEW k \in C PROVE Bytes(C) # {}
    OBVIOUS
  <2>1. k.first \in k.first .. k.last
    BY <1>2
  <2> QED
    BY <2>1, <1>1
<1> QED
  BY <1>4, <1>5, <1>6

\* The size of a subsegment is a number.
LEMMA BytesCounted ==
  ASSUME NEW C \in SUBSET Chunk
  PROVE  Cardinality(Bytes(C)) \in Nat
<1>1. IsFiniteSet(Byte)
  BY FS_Interval, SizeAssumption DEF Byte
<1>2. IsFiniteSet(Bytes(C))
  BY <1>1, BytesIn, FS_Subset
<1> QED
  BY <1>2, FS_CardinalityType

\* add_new_subsegment: cutting a list of separate chunks in two keeps every
\* byte on exactly one side, and makes no chunk that reaches further.
LEMMA CutKeepsBytes ==
  ASSUME NEW C \in SUBSET Chunk, NEW cut \in Int, AllApart(C)
  PROVE  /\ Below(C, cut) \subseteq Chunk /\ Above(C, cut) \subseteq Chunk
         /\ AllApart(Below(C, cut)) /\ AllApart(Above(C, cut))
         /\ \A k \in Below(C, cut), m \in Above(C, cut) : Apart(k, m)
         /\ \A b \in Int : In(b, C) <=> In(b, Below(C, cut)) \/ In(b, Above(C, cut))
         /\ \A k \in Below(C, cut) \cup Above(C, cut) :
              \E m \in C : m.first <= k.first /\ k.last <= m.last
<1> DEFINE B == Below(C, cut)
           A == Above(C, cut)
<1>1. \A k \in C : /\ k.first \in Int /\ k.last \in Int
                   /\ 0 <= k.first /\ k.first <= k.last /\ k.last <= Size - 1
  BY ChunkBounds
<1>2. \A k \in B : \E m \in C : /\ m.first < cut
                               /\ k = [first |-> m.first,
                                       last |-> IF m.last < cut THEN m.last
                                                ELSE cut - 1]
  BY DEF Below
<1>3. \A k \in A : \E m \in C : /\ m.last >= cut
                               /\ k = [first |-> IF m.first < cut THEN cut
                                                 ELSE m.first,
                                       last |-> m.last]
  BY DEF Above
<1>4. \A m \in C : m.first < cut =>
        [first |-> m.first, last |-> IF m.last < cut THEN m.last ELSE cut - 1]
          \in B
  BY DEF Below
<1>5. \A m \in C : m.last >= cut =>
        [first |-> IF m.first < cut THEN cut ELSE m.first, last |-> m.last] \in A
  BY DEF Above
<1> HIDE DEF A, B
<1>6. Size \in Int
  BY SizeAssumption
<1>7. \A k \in B : \E m \in C : /\ m.first < cut /\ k.first = m.first
                               /\ k.last <= m.last /\ k.last < cut
                               /\ (k.last = m.last \/ k.last = cut - 1)
                               /\ k.first \in Int /\ k.last \in Int
                               /\ k.first <= k.last
                               /\ k = [first |-> k.first, last |-> k.last]
  BY <1>1, <1>2
<1>8. \A k \in A : \E m \in C : /\ m.last >= cut /\ k.last = m.last
                               /\ m.first <= k.first /\ cut <= k.first
                               /\ (k.first = m.first \/ k.first = cut)
                               /\ k.first \in Int /\ k.last \in Int
                               /\ k.first <= k.last
                               /\ k = [first |-> k.first, last |-> k.last]
  BY <1>1, <1>3
<1>9. B \subseteq Chunk
  BY <1>1, <1>6, <1>7, ChunkBounds
<1>10. A \subseteq Chunk
  BY <1>1, <1>6, <1>8, ChunkBounds
<1>11. AllApart(B)
  <2> SUFFICES ASSUME NEW k \in B, NEW m \in B PROVE k = m \/ Apart(k, m)
    BY DEF AllApart
  <2>1. PICK p \in C : /\ k.first = p.first /\ k.last <= p.last
                       /\ p.first < cut
                       /\ k = [first |-> p.first,
                               last |-> IF p.last < cut THEN p.last ELSE cut - 1]
    BY <1>1, <1>2
  <2>2. PICK q \in C : /\ m.first = q.first /\ m.last <= q.last
                       /\ q.first < cut
                       /\ m = [first |-> q.first,
                               last |-> IF q.last < cut THEN q.last ELSE cut - 1]
    BY <1>1, <1>2
  <2>3. CASE p = q
    BY <2>1, <2>2, <2>3
  <2>4. CASE Apart(p, q)
    <3>1. /\ k.first \in Int /\ k.last \in Int /\ k.first <= k.last
          /\ m.first \in Int /\ m.last \in Int /\ m.first <= m.last
      BY <1>7
    <3>2. p.last \in Int /\ q.last \in Int /\ p.first \in Int /\ q.first \in Int
      BY <1>1
    <3> QED
      BY <2>1, <2>2, <2>4, <3>1, <3>2 DEF Apart
  <2> QED
    BY <2>3, <2>4 DEF AllApart
<1>12. AllApart(A)
  <2> SUFFICES ASSUME NEW k \in A, NEW m \in A PROVE k = m \/ Apart(k, m)
    BY DEF AllApart
  <2>1. PICK p \in C : /\ k.last = p.last /\ p.first <= k.first
                       /\ k = [first |-> IF p.first < cut THEN cut ELSE p.first,
                               last |-> p.last]
    BY <1>1, <1>3
  <2>2. PICK q \in C : /\ m.last = q.last /\ q.first <= m.first
                       /\ m = [first |-> IF q.first < cut THEN cut ELSE q.first,
                               last |-> q.last]
    BY <1>1, <1>3
  <2>3. CASE p = q
    BY <2>1, <2>2, <2>3
  <2>4. CASE Apart(p, q)
    <3>1. /\ k.first \in Int /\ k.last \in Int /\ k.first <= k.last
          /\ m.first \in Int /\ m.last \in Int /\ m.first <= m.last
      BY <1>8
    <3>2. p.last \in Int /\ q.last \in Int /\ p.first \in Int /\ q.first \in Int
      BY <1>1
    <3> QED
      BY <2>1, <2>2, <2>4, <3>1, <3>2 DEF Apart
  <2> QED
    BY <2>3, <2>4 DEF AllApart
<1>13. \A k \in B, m \in A : Apart(k, m)
  BY <1>7, <1>8 DEF Apart
<1>14. \A b \in Int : In(b, C) <=> In(b, B) \/ In(b, A)
  <2> SUFFICES ASSUME NEW b \in Int PROVE In(b, C) <=> In(b, B) \/ In(b, A)
    OBVIOUS
  <2>1. In(b, B) => In(b, C)
    BY <1>1, <1>7 DEF In
  <2>2. In(b, A) => In(b, C)
    BY <1>1, <1>8 DEF In
  <2>3. ASSUME NEW m \in C, m.first <= b, b <= m.last, b < cut PROVE In(b, B)
    <3> DEFINE k == [first |-> m.first,
                     last |-> IF m.last < cut THEN m.last ELSE cut - 1]
    <3>1. m.first \in Int /\ m.last \in Int
      BY <1>1
    <3>2. k \in B
      BY <1>4, <2>3, <3>1
    <3>3. k.first <= b /\ b <= k.last
      BY <2>3, <3>1
    <3> QED
      BY <3>2, <3>3 DEF In
  <2>4. ASSUME NEW m \in C, m.first <= b, b <= m.last, cut <= b PROVE In(b, A)
    <3> DEFINE k == [first |-> IF m.first < cut THEN cut ELSE m.first,
                     last |-> m.last]
    <3>1. m.first \in Int /\ m.last \in Int
      BY <1>1
    <3>2. k \in A
      BY <1>5, <2>4, <3>1
    <3>3. k.first <= b /\ b <= k.last
      BY <2>4, <3>1
    <3> QED
      BY <3>2, <3>3 DEF In
  <2> QED
    BY <2>1, <2>2, <2>3, <2>4 DEF In
<1>15. \A k \in B \cup A : \E m \in C : m.first <= k.first /\ k.last <= m.last
  BY <1>1, <1>7, <1>8
<1> QED
  BY <1>9, <1>10, <1>11, <1>12, <1>13, <1>14, <1>15 DEF A, B
-----------------------------------------------------------------------------
(* Sockets                                                                 *)

Requests == (SUBSET Chunk) \ {{}}

\* A descriptor that nothing was asked on is well-typed.
LEMMA FreshSockets ==
  {Closed, Unset, Open, Gone} \subseteq Socketed
<1>1. <<>> \in Seq(Requests)
  OBVIOUS
<1>2. NoResponse \in [first : 0 .. Size, last : -1 .. Size - 1]
  BY SizeAssumption DEF NoResponse
<1> QED
  BY <1>1, <1>2 DEF Closed, Unset, Open, Gone, Socket, Socketed, Requests

\* A chunk can be the rest of a response.
LEMMA ChunkIsResponse ==
  Chunk \subseteq [first : 0 .. Size, last : -1 .. Size - 1]
<1>1. Size \in Int
  BY SizeAssumption
<1> QED
  BY <1>1 DEF Chunk, Byte

\* Writing requests keeps the socket well-typed.
LEMMA RequestedType ==
  ASSUME NEW w \in Socketed, NEW C \in SUBSET Chunk
  PROVE  Requested(w, C) \in Socketed
<1>1. CASE w.fd = "open" /\ C # {}
  <2>1. w.requests \in Seq(Requests) /\ C \in Requests
    BY <1>1 DEF Socketed, Requests
  <2>2. Append(w.requests, C) \in Seq(Requests)
    BY <2>1, AppendProperties
  <2>3. Requested(w, C) = [w EXCEPT !.requests = Append(w.requests, C)]
    BY <1>1 DEF Requested
  <2> QED
    BY <2>2, <2>3 DEF Socketed, Requests
<1>2. CASE ~(w.fd = "open" /\ C # {})
  BY <1>2 DEF Requested
<1> QED
  BY <1>1, <1>2

\* send_http_request_for_subsegment leaves a well-typed socket.
LEMMA SentType ==
  ASSUME NEW w \in Socketed, NEW C \in SUBSET Chunk
  PROVE  Sent(w, C) \in Socketed
<1>1. Open \in Socketed
  BY FreshSockets
<1> QED
  BY <1>1, RequestedType DEF Sent

\* So does reading a header: the response is a chunk that was asked for.
LEMMA HeaderReadType ==
  ASSUME NEW w \in Socketed
  PROVE  HeaderRead(w) \in Socketed
<1>1. CASE HasHeader(w)
  <2> DEFINE C == Head(w.requests)
             k == FirstChunk(C)
             rest == Tail(w.requests)
  <2>1. w.requests \in Seq(Requests) /\ w.requests # <<>>
    BY <1>1 DEF HasHeader, Socketed, Requests
  <2>2. C \in Requests /\ rest \in Seq(Requests)
    BY <2>1, HeadTailProperties
  <2>3. k \in C /\ k \in Chunk
    BY <2>2, FirstChunkIsFirst DEF Requests
  <2>4. k \in [first : 0 .. Size, last : -1 .. Size - 1]
    BY <2>3, ChunkIsResponse
  <2> DEFINE left == IF C = {k} THEN rest ELSE <<C \ {k}>> \o rest
  <2>5. left \in Seq(Requests)
    <3>1. CASE C = {k}
      BY <3>1, <2>2
    <3>2. CASE C # {k}
      <4>1. C \ {k} \in Requests
        BY <3>2, <2>2, <2>3 DEF Requests
      <4>2. <<C \ {k}>> \in Seq(Requests)
        BY <4>1
      <4> QED
        BY <3>2, <4>2, <2>2, ConcatProperties
    <3> QED
      BY <3>1, <3>2
  <2>6. HeaderRead(w) = [w EXCEPT !.response = k, !.requests = left]
    BY <1>1 DEF HeaderRead
  <2> HIDE DEF C, k, rest, left
  <2> QED
    BY <2>4, <2>5, <2>6 DEF Socketed, Requests
<1>2. CASE ~HasHeader(w)
  BY <1>2, FreshSockets DEF HeaderRead
<1> QED
  BY <1>1, <1>2
-----------------------------------------------------------------------------
(* Steps that move no byte and change no chunk list                        *)

Placing == EachByteOnce /\ Placed /\ Positioned /\ Flagged

\* A step that moves no byte and changes no chunk list keeps the placing of
\* the chunks and the flags.
LEMMA Frame ==
  ASSUME Bookkeeping,
         UNCHANGED <<segVars, disk, currentbyte, lastbyte,
                     pipeline_requests_sent>>
  PROVE  Placing'
<1>1. \A c : Owed(c)' = Owed(c)
  BY DEF Owed, segVars
<1>2. Stored' = Stored
  BY DEF Stored
<1>3. EachByteOnce'
  BY <1>1, <1>2 DEF Bookkeeping, EachByteOnce, Covered, Disjoint, segVars
<1>4. Placed'
  BY DEF Bookkeeping, Placed, segVars
<1>5. Positioned'
  BY DEF Bookkeeping, Positioned, AtItsChunk, segVars
<1>6. Flagged'
  BY DEF Bookkeeping, Flagged, segVars, NextSegments
<1> QED
  BY <1>3, <1>4, <1>5, <1>6 DEF Placing

\* update_inorder_offset yields an offset within the file.
LEMMA FoundInorderType ==
  ASSUME TypeOK, NEW sub \in [SegId -> [Conn -> SUBSET Chunk]]
  PROVE  FoundInorder(sub) \in 0 .. Size
<1> DEFINE S == UNION {{currentbyte[c]} \cup Starts(sub, c) : c \in Conn}
<1>0. /\ Size \in Nat \ {0}
      /\ \A c \in Conn : currentbyte[c] \in 0 .. Size
      /\ 0 \in Conn /\ 1 \in Conn
  BY SizeAssumption DEF TypeOK, Conn
<1>1. \A c \in Conn : Starts(sub, c) \subseteq 0 .. Size
  <2> SUFFICES ASSUME NEW c \in Conn, NEW s \in SegId, sub[s][c] # {}
               PROVE  FirstChunk(sub[s][c]).first \in 0 .. Size
    BY DEF Starts
  <2>1. sub[s][c] \subseteq Chunk
    OBVIOUS
  <2>2. FirstChunk(sub[s][c]) \in Chunk
    BY <2>1, FirstChunkIsFirst
  <2> QED
    BY <2>2, <1>0, ChunkBounds
<1>2. S \subseteq 0 .. Size
  BY <1>0, <1>1
<1>3. currentbyte[0] \in S
  BY <1>0
<1> HIDE DEF S
<1>4. \E m \in S : \A b \in S : m <= b
  <2>1. S \subseteq Nat
    BY <1>0, <1>2
  <2> QED
    BY <2>1, <1>3, LeastNat
<1>5. Earliest(S) \in 0 .. Size
  BY <1>2, <1>4 DEF Earliest
<1>6. FoundInorder(sub) \in {Size - 1, currentbyte[0], currentbyte[1], Earliest(S)}
  BY DEF FoundInorder, S
<1> QED
  BY <1>0, <1>5, <1>6

\* update_inorder_offset gives each link an idle flag.
LEMMA IdleType == ASSUME TypeOK PROVE Idle \in [Conn -> BOOLEAN]
  BY DEF Idle

\* The engine's re-estimate before a policy segment is well-typed.
LEMMA ReestimatedType ==
  ASSUME TypeOK, NEW sub \in [SegId -> [Conn -> SUBSET Chunk]], Reestimated(sub)
  PROVE  /\ inorder_offset' \in 0 .. Size
         /\ ReestimatedIdle \in [Conn -> BOOLEAN]
  BY FoundInorderType, IdleType DEF Reestimated, ReestimatedIdle, TypeOK

\* The handler of link i goes on to finish exactly when its chunk is read.
LEMMA AfterScheduleCases ==
  ASSUME NEW i \in Conn
  PROVE  \/ AfterSchedule(i) = "finish" /\ Done(i)
         \/ AfterSchedule(i) = "account" /\ ~Done(i)
  BY DEF AfterSchedule

\* Leaving gb_setup_next_segment without a new segment keeps Handled.
LEMMA LeavesSchedule ==
  ASSUME Bookkeeping, NEW i \in Conn, Scheduling(i), at' = at,
         pc' \in {"exited", "crashed", AfterSchedule(i)},
         UNCHANGED <<connection, currentbyte, lastbyte>>
  PROVE  Handled'
<1>1. \A c : Done(c)' <=> Done(c)
  BY DEF Done
<1>2. /\ connection[i] # NULL /\ at = i
      /\ \A c \in Conn : c # i /\ connection[c] # NULL => ~Done(c)
  BY DEF Bookkeeping, Handled, Scheduling, Stopped
<1>3. CASE pc' = AfterSchedule(i)
  BY <1>1, <1>2, <1>3, AfterScheduleCases DEF Handled, Stopped
<1>4. CASE pc' \in {"exited", "crashed"}
  BY <1>4 DEF Handled, Stopped
<1> QED
  BY <1>3, <1>4

\* What a step of the engine has to preserve, from its three groups.
LEMMA KeepsBookkeeping ==
  ASSUME TypeOK', Placing', Handled'
  PROVE  Bookkeeping'
  BY DEF Bookkeeping, Placing

\* A link whose connection is gone only loses its socket.
LEMMA ReadFailsStep ==
  ASSUME Bookkeeping, NEW i \in Conn, ReadFails(i)
  PROVE  Bookkeeping'
<1> USE DEF ReadFails, fileVars
<1>1. TypeOK'
  <2>1. Disconnected(net[i]) \in Socketed
    BY FreshSockets DEF Disconnected
  <2> QED
    BY <2>1 DEF Bookkeeping, TypeOK, segVars
<1>2. Placing'
  BY Frame
<1>3. Handled'
  BY DEF Bookkeeping, Handled, Done, Stopped, segVars
<1> QED
  BY <1>1, <1>2, <1>3, KeepsBookkeeping

\* gb_setup_next_segment returning 0, or the process ending inside it.
LEMMA NoSegmentStep ==
  ASSUME Bookkeeping, NEW i \in Conn,
         \/ LastSegmentRequested(i) \/ StaysBehind(i) \/ NothingLeft(i)
         \/ Crash(i) \/ SendFails(i)
  PROVE  Bookkeeping'
<1>0. TypeOK /\ Scheduling(i)
  BY DEF Bookkeeping, LastSegmentRequested, StaysBehind, NothingLeft, Crash,
         SendFails, Proceeds, ConsidersRecovery, MayExtend
<1>1. /\ UNCHANGED <<segVars, connVars, fileVars, link_mode, net, threadVars, at>>
      /\ failures' \in 0 .. MaxFailures
      /\ conn_idle' \in [Conn -> BOOLEAN]
      /\ inorder_offset' \in 0 .. Size
      /\ pc' \in {"exited", "crashed", AfterSchedule(i)}
  <2>1. CASE LastSegmentRequested(i)
    BY <2>1, <1>0 DEF LastSegmentRequested, TypeOK
  <2>2. CASE StaysBehind(i)
    BY <2>2, <1>0 DEF StaysBehind, TypeOK
  <2>3. CASE NothingLeft(i)
    <3>1. subsegment \in [SegId -> [Conn -> SUBSET Chunk]]
      BY <1>0 DEF TypeOK
    <3>2. Reestimated(subsegment) =>
            inorder_offset' \in 0 .. Size /\ ReestimatedIdle \in [Conn -> BOOLEAN]
      BY <1>0, <3>1, ReestimatedType
    <3> QED
      BY <2>3, <1>0, <3>2 DEF NothingLeft, TypeOK
  <2>4. CASE Crash(i)
    BY <2>4, <1>0 DEF Crash, TypeOK
  <2>5. CASE SendFails(i)
    BY <2>5, <1>0, BoundAssumption DEF SendFails, TypeOK
  <2> QED
    BY <2>1, <2>2, <2>3, <2>4, <2>5
<1>2. TypeOK'
  BY <1>0, <1>1 DEF TypeOK, segVars, connVars, fileVars, AfterSchedule
<1>3. Placing'
  BY <1>1, Frame DEF connVars, fileVars
<1>4. Handled'
  BY <1>0, <1>1, LeavesSchedule DEF segVars, connVars
<1> QED
  BY <1>2, <1>3, <1>4, KeepsBookkeeping

\* update_inorder_offset at the end of a handler.
LEMMA AccountStep ==
  ASSUME Bookkeeping, Account
  PROVE  Bookkeeping'
<1> USE DEF Account, connVars, fileVars
<1>0. TypeOK /\ Handled
  BY DEF Bookkeeping
<1>1. TypeOK'
  <2>1. subsegment \in [SegId -> [Conn -> SUBSET Chunk]]
    BY <1>0 DEF TypeOK
  <2>2. FoundInorder(subsegment) \in 0 .. Size /\ Idle \in [Conn -> BOOLEAN]
    BY <1>0, <2>1, FoundInorderType, IdleType
  <2> QED
    BY <1>0, <2>2 DEF TypeOK, segVars
<1>2. Placing'
  BY Frame
<1>3. Handled'
  BY <1>0 DEF Handled, Done, Stopped, segVars
<1> QED
  BY <1>1, <1>2, <1>3, KeepsBookkeeping

\* check_conn restarts links without touching the chunk lists.
LEMMA CheckConnStep ==
  ASSUME Bookkeeping, NEW c \in Conn, CheckConn(c)
  PROVE  Bookkeeping'
<1> USE DEF CheckConn, fileVars
<1>1. TypeOK'
  <2>1. 1 - state[c] \in {0, 1}
    BY DEF Bookkeeping, TypeOK
  <2> QED
    BY <2>1 DEF Bookkeeping, TypeOK, segVars
<1>2. Placing'
  BY Frame
<1>3. Handled'
  BY DEF Bookkeeping, Handled, Done, Stopped, segVars
<1> QED
  BY <1>1, <1>2, <1>3, KeepsBookkeeping

\* The end of the download.
LEMMA ReadyStep ==
  ASSUME Bookkeeping, Ready
  PROVE  Bookkeeping'
<1> USE DEF Ready, connVars, fileVars
<1>1. TypeOK'
  BY DEF Bookkeeping, TypeOK, segVars
<1>2. Placing'
  BY Frame
<1>3. Handled'
  BY DEF Bookkeeping, Handled, Done, Stopped, segVars
<1> QED
  BY <1>1, <1>2, <1>3, KeepsBookkeeping

\* The loop ends with an error.
LEMMA EngineFailsStep ==
  ASSUME Bookkeeping, EngineFails
  PROVE  Bookkeeping'
<1> USE DEF EngineFails, connVars, fileVars
<1>1. TypeOK'
  BY BoundAssumption DEF Bookkeeping, TypeOK, segVars
<1>2. Placing'
  BY Frame
<1>3. Handled'
  BY DEF Bookkeeping, Handled, Done, Stopped, segVars
<1> QED
  BY <1>1, <1>2, <1>3, KeepsBookkeeping

\* A set-up thread, at any point of the main loop, asks for what is left of
\* the chunk its link is in.
LEMMA SetupThreadStep ==
  ASSUME Bookkeeping, NEW c \in Conn, SetupThread(c)
  PROVE  Bookkeeping'
<1> USE DEF SetupThread, fileVars
<1>0. TypeOK /\ Handled
  BY DEF Bookkeeping
<1>1. RequestRange(c) \in Chunk
  <2>1. /\ currentbyte[c] \in Int /\ 0 <= currentbyte[c]
        /\ lastbyte[c] \in Int /\ 0 <= lastbyte[c] /\ lastbyte[c] <= Size - 1
        /\ Size \in Int /\ Size >= 1
    BY <1>0, SizeAssumption DEF TypeOK
  <2> QED
    BY <2>1, ChunkBounds DEF RequestRange, Done
<1>2. /\ net' \in [Conn -> Socketed]
      /\ enabled' \in [Conn -> BOOLEAN]
      /\ state' \in [Conn -> {0, 1}]
      /\ thread' \in [Conn -> {"none", "setup", "send", "header"}]
      /\ range' \in [Conn -> Chunk]
      /\ failures' \in 0 .. MaxFailures
      /\ pc' \in {pc, "exited"}
  <2>0. /\ net \in [Conn -> Socketed] /\ enabled \in [Conn -> BOOLEAN]
        /\ state \in [Conn -> {0, 1}]
        /\ thread \in [Conn -> {"none", "setup", "send", "header"}]
        /\ range \in [Conn -> Chunk] /\ NoRange \in Chunk
        /\ failures \in 0 .. MaxFailures /\ MaxFailures \in Nat
    <3>1. NoRange \in Chunk
      BY SizeAssumption, ChunkBounds DEF NoRange
    <3> QED
      BY <1>0, <3>1, BoundAssumption DEF TypeOK
  <2>1. CASE ConnSetup(c)
    <3>1. (IF net[c].fd \in {"closed", "unset"} THEN Open ELSE net[c]) \in Socketed
      BY <2>0, FreshSockets
    <3> QED
      BY <1>1, <2>0, <2>1, <3>1 DEF ConnSetup
  <2>2. CASE SendsRequest(c)
    <3>1. ASSUME NEW k \in RequestText(c)
          PROVE  Requested(net[c], {k}) \in Socketed
      <4>1. net[c] \in Socketed /\ range[c] \in Chunk
        BY <2>0
      <4>2. k \in Chunk
        <5>1. CASE net[c].requests = <<>>
          BY <4>1, <3>1, <5>1 DEF RequestText
        <5>2. CASE net[c].requests # <<>>
          <6>1. net[c].requests \in Seq((SUBSET Chunk) \ {{}})
            BY <4>1 DEF Socketed
          <6>2. Len(net[c].requests) \in DOMAIN net[c].requests
            BY <5>2, <6>1, SeqDef
          <6>3. net[c].requests[Len(net[c].requests)] \in SUBSET Chunk
            BY <6>1, <6>2
          <6> QED
            BY <4>1, <3>1, <5>2, <6>3 DEF RequestText
        <5> QED
          BY <5>1, <5>2
      <4> QED
        BY <4>1, <4>2, RequestedType
    <3>2. net' \in [Conn -> Socketed]
      <4>1. CASE net[c].fd = "gone"
        BY <2>0, <2>2, <4>1 DEF SendsRequest
      <4>2. CASE net[c].fd # "gone"
        <5>1. PICK k \in RequestText(c) :
                net' = [net EXCEPT ![c] = Requested(net[c], {k})]
          BY <2>2, <4>2 DEF SendsRequest
        <5> QED
          BY <2>0, <3>1, <5>1
      <4> QED
        BY <4>1, <4>2
    <3> QED
      BY <2>0, <2>2, <3>2 DEF SendsRequest
  <2>3. CASE ReadsHeader(c)
    <3>1. HeaderRead(net[c]) \in Socketed /\ Disconnected(net[c]) \in Socketed
      BY <2>0, HeaderReadType, FreshSockets DEF Disconnected
    <3>2. HasHeader(net[c]) \in BOOLEAN
      BY DEF HasHeader
    <3> QED
      BY <2>0, <2>3, <3>1, <3>2 DEF ReadsHeader
  <2>4. CASE SetupFails(c)
    <3>1. Disconnected(net[c]) \in Socketed
      BY FreshSockets DEF Disconnected
    <3> QED
      BY <2>0, <2>4, <3>1 DEF SetupFails
  <2> QED
    BY <2>1, <2>2, <2>3, <2>4
<1>3. TypeOK'
  BY <1>0, <1>2 DEF TypeOK, segVars
<1>4. Placing'
  BY Frame
<1>5. Handled'
  BY <1>0, <1>2 DEF Handled, Done, Stopped, segVars
<1> QED
  BY <1>3, <1>4, <1>5, KeepsBookkeeping

\* The server may end a connection between any two steps.
LEMMA ServerClosesStep ==
  ASSUME Bookkeeping, NEW c \in Conn, ServerCloses(c)
  PROVE  Bookkeeping'
<1> USE DEF ServerCloses, connVars, fileVars
<1>1. TypeOK'
  BY FreshSockets, BoundAssumption DEF Bookkeeping, TypeOK, segVars
<1>2. Placing'
  BY Frame
<1>3. Handled'
  BY DEF Bookkeeping, Handled, Done, Stopped, segVars
<1> QED
  BY <1>1, <1>2, <1>3, KeepsBookkeeping
-----------------------------------------------------------------------------
(* Data arrives                                                            *)

\* The positions of the links and sockets, in the form arithmetic needs.
LEMMA LinkBounds ==
  ASSUME TypeOK
  PROVE  /\ Size \in Int /\ Size >= 1
         /\ last_seg_offset \in Int
         /\ 0 <= last_seg_offset /\ last_seg_offset <= Size - 1
         /\ segment_count \in Int /\ segment_count >= 1
         /\ \A s \in SegId : s \in Int /\ s >= 1 /\ s # NULL
         /\ \A c \in Conn :
              /\ currentbyte[c] \in Int /\ 0 <= currentbyte[c]
              /\ currentbyte[c] <= Size
              /\ lastbyte[c] \in Int /\ 0 <= lastbyte[c]
              /\ lastbyte[c] <= Size - 1
              /\ connection[c] # NULL => connection[c] \in SegId
              /\ connection[c] \in Int
              /\ net[c] \in Socketed
              /\ net[c].response.first \in Int /\ 0 <= net[c].response.first
              /\ net[c].response.last \in Int
              /\ net[c].response.last <= Size - 1
<1>1. Size \in Int /\ Size >= 1
  BY SizeAssumption
<1>2. last_seg_offset \in Int /\ 0 <= last_seg_offset
      /\ last_seg_offset <= Size - 1
  BY <1>1 DEF TypeOK, Byte
<1>3. \A s \in SegId : s \in Int /\ s >= 1 /\ s # NULL
  BY BoundAssumption DEF SegId, NULL
<1>4. segment_count \in Int /\ segment_count >= 1
  BY <1>3 DEF TypeOK
<1>5. ASSUME NEW c \in Conn
      PROVE  /\ currentbyte[c] \in Int /\ 0 <= currentbyte[c]
             /\ currentbyte[c] <= Size
             /\ lastbyte[c] \in Int /\ 0 <= lastbyte[c]
             /\ lastbyte[c] <= Size - 1
             /\ connection[c] # NULL => connection[c] \in SegId
             /\ connection[c] \in Int
  <2>1. /\ currentbyte[c] \in 0 .. Size
        /\ lastbyte[c] \in 0 .. Size - 1
        /\ connection[c] \in SegId \cup {NULL}
    BY DEF TypeOK
  <2>2. connection[c] \in SegId \/ connection[c] = 0
    BY <2>1 DEF NULL
  <2>3. connection[c] \in Int
    BY <1>3, <2>2
  <2> QED
    BY <1>1, <2>1, <2>2, <2>3 DEF NULL
<1>6. ASSUME NEW c \in Conn
      PROVE  /\ net[c] \in Socketed
             /\ net[c].response.first \in Int /\ 0 <= net[c].response.first
             /\ net[c].response.last \in Int
             /\ net[c].response.last <= Size - 1
  <2>1. net[c] \in Socketed
    BY DEF TypeOK
  <2>2. net[c].response \in [first : 0 .. Size, last : -1 .. Size - 1]
    BY <2>1 DEF Socketed
  <2>3. /\ net[c].response.first \in 0 .. Size
        /\ net[c].response.last \in -1 .. Size - 1
    BY <2>2
  <2> QED
    BY <1>1, <2>1, <2>3
<1> QED
  BY <1>1, <1>2, <1>3, <1>4, <1>5, <1>6

\* What the guard of a read says of its link.
LEMMA ReceiveFacts ==
  ASSUME Bookkeeping, NEW i \in Conn, NEW n \in 1 .. BufferSize, Receive(i, n)
  PROVE  /\ TypeOK /\ Covered /\ Disjoint /\ Placed /\ Positioned /\ Flagged
         /\ Handled
         /\ n \in Int /\ 1 <= n
         /\ n <= lastbyte[i] - currentbyte[i] + 1
         /\ connection[i] # NULL
<1>1. /\ TypeOK /\ Covered /\ Disjoint /\ Placed /\ Positioned /\ Flagged
      /\ Handled
  BY DEF Bookkeeping, EachByteOnce
<1>2. n \in Int /\ 1 <= n
  BY BufferAssumption
<1>3. n <= lastbyte[i] - currentbyte[i] + 1
  BY DEF Receive
<1>4. connection[i] # NULL
  <2>1. connection[i] = NULL => currentbyte[i] = lastbyte[i] + 1
    BY <1>1 DEF Positioned, AtItsChunk
  <2>2. currentbyte[i] \in Int /\ lastbyte[i] \in Int
    BY <1>1, LinkBounds
  <2> QED
    BY <1>2, <1>3, <2>1, <2>2
<1> QED
  BY <1>1, <1>2, <1>3, <1>4

\* The link that receives has a segment, and writes inside its first chunk.
LEMMA ReceivesInChunk ==
  ASSUME Bookkeeping, NEW i \in Conn, NEW n \in 1 .. BufferSize, Receive(i, n)
  PROVE  /\ connection[i] \in SegId
         /\ LET h == FirstChunk(subsegment[connection[i]][i])
            IN  /\ h \in subsegment[connection[i]][i]
                /\ h.first <= currentbyte[i]
                /\ currentbyte[i] + n <= h.last + 1
                /\ h.last = lastbyte[i]
<1>0. /\ TypeOK /\ Positioned
      /\ n \in Int /\ 1 <= n
      /\ n <= lastbyte[i] - currentbyte[i] + 1
      /\ connection[i] # NULL
  BY ReceiveFacts
<1>1. currentbyte[i] \in Int /\ lastbyte[i] \in Int
  BY <1>0, LinkBounds
<1>2. connection[i] \in SegId
  BY <1>0, LinkBounds
<1> DEFINE C == subsegment[connection[i]][i]
<1>3. /\ C # {}
      /\ lastbyte[i] = FirstChunk(C).last
      /\ currentbyte[i] \in FirstChunk(C).first .. FirstChunk(C).last + 1
  BY <1>0 DEF Positioned, AtItsChunk
<1>4. C \subseteq Chunk
  BY <1>0, <1>2 DEF TypeOK
<1>5. FirstChunk(C) \in C
  BY <1>3, <1>4, FirstChunkIsFirst
<1>6. FirstChunk(C).first \in Int /\ FirstChunk(C).last \in Int
  BY <1>4, <1>5, ChunkBounds
<1> QED
  BY <1>0, <1>1, <1>2, <1>3, <1>5, <1>6

\* A read of n bytes by algo_general keeps every variable in its type.
LEMMA ReceiveTypes ==
  ASSUME Bookkeeping, NEW i \in Conn, NEW n \in 1 .. BufferSize, Receive(i, n)
  PROVE  TypeOK'
<1>0. /\ TypeOK
      /\ n \in Int /\ 1 <= n
      /\ currentbyte[i] \in Int /\ 0 <= currentbyte[i]
      /\ lastbyte[i] \in Int /\ lastbyte[i] <= Size - 1
      /\ n <= lastbyte[i] - currentbyte[i] + 1
      /\ Size \in Int
  BY ReceiveFacts, LinkBounds
<1>1. /\ net[i] \in Socketed /\ net[i].response.first \in Int
      /\ net[i].response.last \in Int /\ 0 <= net[i].response.first
      /\ net[i].response.last <= Size - 1
  BY <1>0, LinkBounds
<1>2. Left(net[i]) = net[i].response.last - net[i].response.first + 1
  BY DEF Left
<1>3. Left(net[i]) > 0 => n <= Left(net[i])
  BY <1>0, <1>1, <1>2 DEF Receive
<1>4. disk' \in [Byte -> Byte \cup {NoByte, Junk}]
  <2>0. disk' = [b \in Byte |->
                   IF b \in currentbyte[i] .. currentbyte[i] + n - 1
                   THEN IF Left(net[i]) <= 0 THEN Junk
                        ELSE net[i].response.first + (b - currentbyte[i])
                   ELSE disk[b]]
    BY DEF Receive
  <2>1. ASSUME NEW b \in Byte, b \in currentbyte[i] .. currentbyte[i] + n - 1,
               ~(Left(net[i]) <= 0)
        PROVE  net[i].response.first + (b - currentbyte[i]) \in Byte
    <3>1. b \in Int /\ currentbyte[i] <= b /\ b <= currentbyte[i] + n - 1
      BY <1>0, <2>1 DEF Byte
    <3>2. n <= net[i].response.last - net[i].response.first + 1
      BY <1>1, <1>2, <1>3, <2>1
    <3> QED
      BY <1>0, <1>1, <3>1, <3>2 DEF Byte
  <2>2. \A b \in Byte : disk[b] \in Byte \cup {NoByte, Junk}
    BY <1>0 DEF TypeOK
  <2> QED
    BY <2>0, <2>1, <2>2
<1>5. net' \in [Conn -> Socketed]
  <2>0. net \in [Conn -> Socketed]
    BY <1>0 DEF TypeOK
  <2>1. CASE Left(net[i]) <= 0
    BY <2>0, <2>1 DEF Receive
  <2>2. CASE ~(Left(net[i]) <= 0)
    <3> DEFINE w == [net[i] EXCEPT !.response.first = net[i].response.first + n]
    <3>1. net[i].response.first + n \in 0 .. Size
      BY <1>0, <1>1, <1>2, <1>3, <2>2
    <3>2. w \in Socketed
      BY <1>1, <3>1 DEF Socketed
    <3>3. net' = [net EXCEPT ![i] = w]
      BY <2>2 DEF Receive
    <3> QED
      BY <2>0, <3>2, <3>3
  <2> QED
    BY <2>1, <2>2
<1>6. currentbyte' \in [Conn -> 0 .. Size]
  <2>1. currentbyte[i] + n \in 0 .. Size
    BY <1>0
  <2>2. currentbyte' = [currentbyte EXCEPT ![i] = currentbyte[i] + n]
    BY DEF Receive
  <2> QED
    BY <1>0, <2>1, <2>2 DEF TypeOK
<1>7. bytes_done' \in Nat
  <2>1. bytes_done' = bytes_done + n
    BY DEF Receive
  <2>2. bytes_done \in Nat /\ n \in Nat
    BY <1>0 DEF TypeOK
  <2> QED
    BY <2>1, <2>2
<1>8. pc' \in {"schedule", "finish", "account"} /\ at' = i
  BY DEF Receive
<1> QED
  BY <1>0, <1>4, <1>5, <1>6, <1>7, <1>8 DEF TypeOK, Receive, segVars

\* Exactly the bytes written move from owed to stored.
LEMMA ReceivePlacing ==
  ASSUME Bookkeeping, NEW i \in Conn, NEW n \in 1 .. BufferSize, Receive(i, n)
  PROVE  Placing'
<1> DEFINE x == connection[i]
           h == FirstChunk(subsegment[x][i])
           cb == currentbyte[i]
           R == cb .. cb + n - 1
<1>0. /\ TypeOK /\ Covered /\ Disjoint /\ Placed /\ Positioned /\ Flagged
      /\ n \in Int /\ 1 <= n /\ cb \in Int /\ 0 <= cb /\ x # NULL
      /\ Size \in Int
  BY ReceiveFacts, LinkBounds
<1>1. /\ x \in SegId /\ h \in subsegment[x][i]
      /\ h.first <= cb /\ cb + n <= h.last + 1 /\ h.last = lastbyte[i]
  BY ReceivesInChunk
<1>2. /\ h \in Chunk /\ h.first \in Int /\ h.last \in Int /\ 0 <= h.first
      /\ h.last <= Size - 1
  <2>1. subsegment[x][i] \subseteq Chunk
    BY <1>0, <1>1 DEF TypeOK
  <2> QED
    BY <1>1, <2>1, ChunkBounds
<1>3. /\ UNCHANGED <<segVars, lastbyte, pipeline_requests_sent>>
      /\ currentbyte' = [currentbyte EXCEPT ![i] = cb + n]
      /\ subsegment' = subsegment /\ connection' = connection
      /\ last_seg_offset' = last_seg_offset /\ segment_count' = segment_count
  BY DEF Receive, segVars
<1>4. currentbyte'[i] = cb + n
      /\ \A c \in Conn : c # i => currentbyte'[c] = currentbyte[c]
  BY <1>0, <1>3 DEF TypeOK
<1>5. \A b \in Byte : b \in Stored' <=> b \in Stored \/ b \in R
  <2>1. \A b \in Byte : b \in R => disk'[b] # NoByte
    <3> SUFFICES ASSUME NEW b \in Byte, b \in R PROVE disk'[b] # NoByte
      OBVIOUS
    <3>1. disk'[b] = IF Left(net[i]) <= 0 THEN Junk
                     ELSE net[i].response.first + (b - cb)
      BY DEF Receive
    <3>2. net[i].response.first \in Int /\ 0 <= net[i].response.first
      BY <1>0, LinkBounds
    <3>3. b - cb \in Int /\ 0 <= b - cb
      BY <1>0
    <3> QED
      BY <3>1, <3>2, <3>3 DEF Junk, NoByte
  <2>2. \A b \in Byte : b \notin R => disk'[b] = disk[b]
    BY DEF Receive
  <2> QED
    BY <2>1, <2>2 DEF Stored
<1>6. \A b \in R : b \in Byte /\ b <= last_seg_offset
  <2>1. h.last <= last_seg_offset
    BY <1>0, <1>1 DEF Placed
  <2>2. last_seg_offset \in Int
    BY <1>0 DEF TypeOK, Byte
  <2> QED
    BY <1>0, <1>1, <1>2, <2>1, <2>2 DEF Byte
<1>7. ASSUME NEW b \in R, NEW c \in Conn PROVE b \notin Owed(c)'
  <2> SUFFICES ASSUME NEW s \in SegId, NEW k \in subsegment[s][c],
                      b \in k.first .. k.last
               PROVE  s = connection[c] /\ b < currentbyte'[c]
    BY <1>3 DEF Owed
  <2>1. subsegment[s][c] \subseteq Chunk
    BY <1>0 DEF TypeOK
  <2>2. k.first \in Int /\ k.last \in Int
    BY <2>1, ChunkBounds
  <2>3. ~Apart(k, h)
    BY <1>0, <1>1, <1>2, <2>2 DEF Apart
  <2>4. <<s, c, k>> = <<x, i, h>>
    BY <1>0, <1>1, <2>3 DEF Disjoint
  <2> QED
    BY <1>0, <1>4, <2>4
<1>8. ASSUME NEW b \in Byte, b \notin R, NEW c \in Conn
      PROVE  b \in Owed(c)' <=> b \in Owed(c)
  <2>1. ~(b < currentbyte'[c]) => ~(b < currentbyte[c])
    BY <1>0, <1>4 DEF Byte
  <2>2. b < currentbyte'[c] => b < currentbyte[c]
    BY <1>0, <1>4, <1>8 DEF Byte
  <2> QED
    BY <1>3, <2>1, <2>2 DEF Owed
<1>9. Covered'
  <2> SUFFICES ASSUME NEW b \in Byte
               PROVE  b \in Stored' <=> /\ b <= last_seg_offset
                                        /\ \A c \in Conn : b \notin Owed(c)'
    BY <1>3 DEF Covered
  <2> HIDE DEF R
  <2> QED
    BY <1>0, <1>5, <1>6, <1>7, <1>8 DEF Covered
<1>10. Disjoint'
  BY <1>0, <1>3 DEF Disjoint
<1>11. Placed'
  BY <1>0, <1>3 DEF Placed
<1>12. Positioned'
  <2> SUFFICES ASSUME NEW c \in Conn
               PROVE  AtItsChunk(c)'
    BY DEF Positioned
  <2>1. CASE c = i
    BY <1>0, <1>1, <1>2, <1>3, <1>4, <2>1 DEF Positioned, AtItsChunk
  <2>2. CASE c # i
    BY <1>0, <1>3, <1>4, <2>2 DEF Positioned, AtItsChunk
  <2> QED
    BY <2>1, <2>2
<1>13. Flagged'
  BY <1>0, <1>3 DEF Flagged, NextSegments
<1> QED
  BY <1>9, <1>10, <1>11, <1>12, <1>13 DEF Placing, EachByteOnce

\* The link of the handler is the only one that may have read its last byte.
LEMMA ReceiveHandled ==
  ASSUME Bookkeeping, NEW i \in Conn, NEW n \in 1 .. BufferSize, Receive(i, n)
  PROVE  Handled'
<1>0. /\ TypeOK /\ Handled /\ connection[i] # NULL
      /\ n \in Int /\ 1 <= n
      /\ currentbyte[i] \in Int /\ lastbyte[i] \in Int
      /\ n <= lastbyte[i] - currentbyte[i] + 1
  BY ReceiveFacts, LinkBounds
<1>1. /\ pc = "select" /\ at' = i /\ connection' = connection
      /\ lastbyte' = lastbyte
      /\ currentbyte'[i] = currentbyte[i] + n
      /\ \A c \in Conn : c # i => currentbyte'[c] = currentbyte[c]
      /\ pc' \in {"schedule", "finish", "account"}
      /\ pc' = "finish" => n = lastbyte[i] - currentbyte[i] + 1
      /\ n = lastbyte[i] - currentbyte[i] + 1 => pc' # "account"
  BY <1>0 DEF Receive, TypeOK, segVars, PipelineDue
<1>2. \A c \in Conn : c # i /\ connection[c] # NULL => ~Done(c)
  BY <1>0, <1>1 DEF Handled, Stopped
<1>3. \A c \in Conn : c # i /\ connection'[c] # NULL => ~Done(c)'
  BY <1>1, <1>2 DEF Done
<1>4. Done(i)' <=> n = lastbyte[i] - currentbyte[i] + 1
  BY <1>0, <1>1 DEF Done
<1> QED
  BY <1>0, <1>1, <1>3, <1>4 DEF Handled

\* A read by algo_general, pipelining threshold included, preserves the
\* bookkeeping.
LEMMA ReceiveStep ==
  ASSUME Bookkeeping, NEW i \in Conn, NEW n \in 1 .. BufferSize, Receive(i, n)
  PROVE  Bookkeeping'
  BY ReceiveTypes, ReceivePlacing, ReceiveHandled, KeepsBookkeeping
-----------------------------------------------------------------------------
(* What a link owes, after its chunk lists or its position changed         *)

\* A link at the start of a list, or with no list, owes all its chunks.
LEMMA OwedAtStart ==
  ASSUME NEW c \in Conn,
         subsegment' \in [SegId -> [Conn -> SUBSET Chunk]],
         connection'[c] \in SegId =>
           /\ subsegment'[connection'[c]][c] # {}
           /\ currentbyte'[c] = FirstChunk(subsegment'[connection'[c]][c]).first,
         NEW b \in Byte
  PROVE  b \in Owed(c)' <=> \E s \in SegId : In(b, subsegment'[s][c])
<1>1. b \in Int
  BY SizeAssumption DEF Byte
<1>2. \A s \in SegId : \A k \in subsegment'[s][c] :
        k.first \in Int /\ k.last \in Int
  BY ChunkBounds
<1>3. ASSUME NEW s \in SegId, NEW k \in subsegment'[s][c], b \in k.first .. k.last
      PROVE  ~(s = connection'[c] /\ b < currentbyte'[c])
  <2> SUFFICES ASSUME s = connection'[c], b < currentbyte'[c] PROVE FALSE
    OBVIOUS
  <2> DEFINE f == FirstChunk(subsegment'[s][c])
  <2>1. subsegment'[s][c] \subseteq Chunk
    OBVIOUS
  <2>2. currentbyte'[c] = f.first /\ f \in subsegment'[s][c]
        /\ f.first <= k.first
    BY <2>1, FirstChunkIsFirst
  <2>3. f.first \in Int /\ k.first \in Int /\ k.first <= b
    BY <1>2, <1>3, <2>2
  <2> QED
    BY <1>1, <2>2, <2>3
<1> QED
  BY <1>1, <1>2, <1>3 DEF Owed, In

\* A link that keeps its place owes, on top, what segment t gives it.
LEMMA OwedGrows ==
  ASSUME TypeOK, NEW c \in Conn, NEW t \in SegId, NEW share \in SUBSET Chunk,
         \A s \in SegId : subsegment'[s][c] =
                            IF s = t THEN share ELSE subsegment[s][c],
         subsegment[t][c] = {}, connection[c] # t,
         connection'[c] = connection[c], currentbyte'[c] = currentbyte[c],
         NEW b \in Byte
  PROVE  b \in Owed(c)' <=> b \in Owed(c) \/ In(b, share)
<1>1. b \in Int
  BY SizeAssumption DEF Byte
<1>2. \A k \in share : k.first \in Int /\ k.last \in Int
  BY ChunkBounds
<1>3. In(b, share) <=> \E k \in share : b \in k.first .. k.last
  BY <1>1, <1>2 DEF In
<1>4. b \in Owed(c)' <=> \E s \in SegId : \E k \in subsegment'[s][c] :
         b \in k.first .. k.last /\ ~(s = connection[c] /\ b < currentbyte[c])
  BY DEF Owed
<1>5. b \in Owed(c) <=> \E s \in SegId : \E k \in subsegment[s][c] :
         b \in k.first .. k.last /\ ~(s = connection[c] /\ b < currentbyte[c])
  BY DEF Owed
<1> QED
  BY <1>3, <1>4, <1>5

\* A link that has read its chunk owes exactly the chunks behind it.
LEMMA FinishedOwes ==
  ASSUME TypeOK, Disjoint, Positioned, NEW i \in Conn, connection[i] # NULL,
         Done(i), NEW b \in Byte
  PROVE  b \in Owed(i) <=>
           \E s \in SegId : In(b, IF s = connection[i] THEN Remaining(i)
                                  ELSE subsegment[s][i])
<1> DEFINE x == connection[i]
           C == subsegment[x][i]
           h == FirstChunk(C)
<1>0. /\ b \in Int /\ x \in SegId
      /\ currentbyte[i] \in Int /\ lastbyte[i] \in Int
  BY LinkBounds DEF Byte
<1>1. \A s \in SegId : subsegment[s][i] \subseteq Chunk
  BY DEF TypeOK
<1>2. \A s \in SegId : \A k \in subsegment[s][i] :
        k.first \in Int /\ k.last \in Int /\ k.first <= k.last
  BY <1>1, ChunkBounds
<1>3. /\ C # {} /\ lastbyte[i] = h.last
      /\ currentbyte[i] \in h.first .. h.last + 1
  BY DEF Positioned, AtItsChunk
<1>4. h \in C /\ \A k \in C : h.first <= k.first
  BY <1>0, <1>1, <1>3, FirstChunkIsFirst
<1>5. currentbyte[i] = h.last + 1
  BY <1>0, <1>2, <1>3, <1>4 DEF Done
<1>6. ASSUME NEW k \in C, k # h PROVE k.first >= currentbyte[i]
  <2>1. Apart(h, k)
    BY <1>0, <1>4, <1>6 DEF Disjoint
  <2> QED
    BY <1>0, <1>2, <1>4, <1>5, <1>6, <2>1 DEF Apart
<1>7. \A k \in C : b \in k.first .. k.last /\ ~(b < currentbyte[i])
                   <=> k # h /\ k.first <= b /\ b <= k.last
  BY <1>0, <1>2, <1>4, <1>5, <1>6
<1>8. Remaining(i) = C \ {h}
  BY DEF Remaining
<1>9. (\E k \in C : b \in k.first .. k.last /\ ~(b < currentbyte[i]))
      <=> In(b, Remaining(i))
  BY <1>7, <1>8 DEF In
<1>10. \A s \in SegId : (\E k \in subsegment[s][i] : b \in k.first .. k.last)
                        <=> In(b, subsegment[s][i])
  BY <1>0, <1>2 DEF In
<1> HIDE DEF C, h, x
<1> QED
  BY <1>0, <1>9, <1>10 DEF Owed, C, x
-----------------------------------------------------------------------------
(* The end of a chunk                                                      *)

\* The handler finishes with a link that has read all of its first chunk.
LEMMA FinishFacts ==
  ASSUME Bookkeeping, NEW i \in Conn, Finishing(i)
  PROVE  /\ TypeOK /\ Covered /\ Disjoint /\ Placed /\ Positioned /\ Flagged
         /\ Handled
         /\ connection[i] \in SegId /\ connection[i] # NULL /\ Done(i)
         /\ Remaining(i) \subseteq subsegment[connection[i]][i]
         /\ Remaining(i) \subseteq Chunk
<1>1. /\ TypeOK /\ Covered /\ Disjoint /\ Placed /\ Positioned /\ Flagged
      /\ Handled
  BY DEF Bookkeeping, EachByteOnce
<1>2. connection[i] # NULL /\ Done(i)
  BY <1>1 DEF Handled, Finishing
<1>3. connection[i] \in SegId
  BY <1>1, <1>2, LinkBounds
<1>4. Remaining(i) \subseteq subsegment[connection[i]][i]
  BY DEF Remaining
<1>5. subsegment[connection[i]][i] \subseteq Chunk
  BY <1>1, <1>3 DEF TypeOK
<1> QED
  BY <1>1, <1>2, <1>3, <1>4, <1>5

\* Dropping the chunk that was read, and starting on the next one, if any,
\* keeps the bookkeeping of both links.
LEMMA FinishPlacing ==
  ASSUME Bookkeeping, NEW i \in Conn, Finishing(i),
         subsegment' = [subsegment EXCEPT ![connection[i]][i] = Remaining(i)],
         UNCHANGED <<disk, last_seg_offset, segment_count>>,
         \A c \in Conn : c # i =>
           /\ connection'[c] = connection[c]
           /\ currentbyte'[c] = currentbyte[c]
           /\ lastbyte'[c] = lastbyte[c]
           /\ pipeline_requests_sent'[c] = pipeline_requests_sent[c],
         AtItsChunk(i)',
         connection'[i] # NULL =>
           /\ connection'[i] \in SegId
           /\ currentbyte'[i] = FirstChunk(subsegment'[connection'[i]][i]).first
           /\ ~pipeline_requests_sent'[i] =>
                NextSegments(subsegment', connection'[i], i) = {}
  PROVE  Placing'
<1> DEFINE x == connection[i]
<1>0. /\ TypeOK /\ Covered /\ Disjoint /\ Placed /\ Positioned /\ Flagged
      /\ x \in SegId /\ x # NULL /\ Done(i)
      /\ Remaining(i) \subseteq subsegment[x][i] /\ Remaining(i) \subseteq Chunk
  BY FinishFacts
<1>1. /\ subsegment' \in [SegId -> [Conn -> SUBSET Chunk]]
      /\ \A s \in SegId, c \in Conn :
           subsegment'[s][c] = IF s = x /\ c = i THEN Remaining(i)
                               ELSE subsegment[s][c]
  <2>1. subsegment \in [SegId -> [Conn -> SUBSET Chunk]]
    BY <1>0 DEF TypeOK
  <2> QED
    BY <1>0, <2>1
<1>2. \A s \in SegId, c \in Conn : subsegment'[s][c] \subseteq subsegment[s][c]
  BY <1>0, <1>1
<1>3. Stored' = Stored
  BY DEF Stored
<1>4. ASSUME NEW b \in Byte, NEW c \in Conn PROVE b \in Owed(c)' <=> b \in Owed(c)
  <2>1. CASE c = i
    <3>1. connection'[i] \in SegId =>
            /\ subsegment'[connection'[i]][i] # {}
            /\ currentbyte'[i] = FirstChunk(subsegment'[connection'[i]][i]).first
      BY <1>0, LinkBounds DEF AtItsChunk
    <3>2. b \in Owed(i)' <=> \E s \in SegId : In(b, subsegment'[s][i])
      BY <1>1, <3>1, OwedAtStart
    <3>3. b \in Owed(i) <=>
            \E s \in SegId : In(b, IF s = x THEN Remaining(i)
                                   ELSE subsegment[s][i])
      BY <1>0, FinishedOwes
    <3>4. \A s \in SegId :
            subsegment'[s][i] = IF s = x THEN Remaining(i) ELSE subsegment[s][i]
      BY <1>1
    <3> QED
      BY <2>1, <3>2, <3>3, <3>4
  <2>2. CASE c # i
    BY <1>1, <2>2 DEF Owed
  <2> QED
    BY <2>1, <2>2
<1>5. Covered'
  BY <1>0, <1>3, <1>4 DEF Covered
<1>6. Disjoint'
  BY <1>0, <1>2 DEF Disjoint
<1>7. Placed'
  BY <1>0, <1>2 DEF Placed
<1>8. Positioned'
  <2> SUFFICES ASSUME NEW c \in Conn, c # i PROVE AtItsChunk(c)'
    BY DEF Positioned
  <2>1. AtItsChunk(c)
    BY <1>0 DEF Positioned
  <2>2. \A s \in SegId : subsegment'[s][c] = subsegment[s][c]
    BY <1>1
  <2>3. connection[c] = NULL \/ connection[c] \in SegId
    BY <1>0, LinkBounds
  <2> QED
    BY <2>1, <2>2, <2>3 DEF AtItsChunk
<1>9. Flagged'
  <2> SUFFICES ASSUME NEW c \in Conn, connection'[c] # NULL,
                      ~pipeline_requests_sent'[c]
               PROVE  NextSegments(subsegment', connection'[c], c) = {}
    BY DEF Flagged
  <2>1. CASE c # i
    <3>1. NextSegments(subsegment, connection[c], c) = {}
      BY <1>0, <2>1 DEF Flagged
    <3>2. \A s \in SegId : subsegment'[s][c] = subsegment[s][c]
      BY <1>1, <2>1
    <3> QED
      BY <2>1, <3>1, <3>2 DEF NextSegments
  <2> QED
    BY <2>1
<1> QED
  BY <1>5, <1>6, <1>7, <1>8, <1>9 DEF Placing, EachByteOnce

\* After a handler has finished, no link is behind its chunk's last byte.
LEMMA FinishHandled ==
  ASSUME Bookkeeping, NEW i \in Conn, Finishing(i),
         pc' \in {"select", "account"},
         \A c \in Conn : c # i =>
           /\ connection'[c] = connection[c]
           /\ currentbyte'[c] = currentbyte[c]
           /\ lastbyte'[c] = lastbyte[c],
         connection'[i] # NULL => ~Done(i)'
  PROVE  Handled'
<1>1. \A c \in Conn : c # i /\ connection[c] # NULL => ~Done(c)
  BY DEF Bookkeeping, Handled, Finishing, Stopped
<1> QED
  BY <1>1 DEF Handled, Done

\* finish_last_chunk_of_subseg: the next chunk of the same subsegment.
LEMMA NextChunkStep ==
  ASSUME Bookkeeping, NEW i \in Conn, NextChunk(i)
  PROVE  Bookkeeping'
<1> DEFINE x == connection[i]
           h == FirstChunk(Remaining(i))
<1>0. /\ Finishing(i) /\ TypeOK /\ Positioned /\ Flagged
      /\ x \in SegId /\ x # NULL
      /\ Remaining(i) \subseteq subsegment[x][i] /\ Remaining(i) \subseteq Chunk
      /\ Remaining(i) # {}
  BY FinishFacts DEF NextChunk
<1>1. h \in Remaining(i) /\ h \in Chunk
  BY <1>0, FirstChunkIsFirst
<1>2. /\ h.first \in Int /\ h.last \in Int /\ 0 <= h.first
      /\ h.first <= h.last /\ h.last <= Size - 1 /\ Size \in Int
  BY <1>0, <1>1, ChunkBounds, LinkBounds
<1>3. /\ subsegment' = [subsegment EXCEPT ![x][i] = Remaining(i)]
      /\ currentbyte' = [currentbyte EXCEPT ![i] = h.first]
      /\ lastbyte' = [lastbyte EXCEPT ![i] = h.last]
      /\ connection' = connection /\ pc' = "select"
      /\ pipeline_requests_sent' = pipeline_requests_sent
      /\ UNCHANGED <<disk, last_seg_offset, segment_count>>
  BY DEF NextChunk, fileVars
<1>4. /\ currentbyte'[i] = h.first /\ lastbyte'[i] = h.last
      /\ \A c \in Conn : c # i => /\ currentbyte'[c] = currentbyte[c]
                                  /\ lastbyte'[c] = lastbyte[c]
      /\ currentbyte' \in [Conn -> 0 .. Size]
      /\ lastbyte' \in [Conn -> 0 .. Size - 1]
  BY <1>0, <1>2, <1>3 DEF TypeOK
<1>5. /\ subsegment' \in [SegId -> [Conn -> SUBSET Chunk]]
      /\ subsegment'[x][i] = Remaining(i)
      /\ \A s \in SegId : s # x => subsegment'[s][i] = subsegment[s][i]
  BY <1>0, <1>3 DEF TypeOK
<1>6. TypeOK'
  <2>1. HeaderRead(net[i]) \in Socketed
    BY <1>0, LinkBounds, HeaderReadType
  <2>2. HasHeader(net[i]) \in BOOLEAN
    BY DEF HasHeader
  <2> QED
    BY <1>0, <1>4, <1>5, <2>1, <2>2 DEF TypeOK, NextChunk, fileVars
<1>7. AtItsChunk(i)'
  <2>1. \A s \in SegId : s < x => subsegment[s][i] = {}
    BY <1>0 DEF Positioned, AtItsChunk
  <2>2. x \in Int /\ \A s \in SegId : s \in Int
    BY <1>0, LinkBounds
  <2>3. \A s \in SegId : s < x => subsegment'[s][i] = {}
    BY <1>5, <2>1, <2>2
  <2> QED
    BY <1>0, <1>2, <1>3, <1>4, <1>5, <2>3 DEF AtItsChunk
<1>8. ~pipeline_requests_sent'[i] => NextSegments(subsegment', connection'[i], i) = {}
  <2> SUFFICES ASSUME ~pipeline_requests_sent[i]
               PROVE  NextSegments(subsegment', x, i) = {}
    BY <1>3
  <2>1. NextSegments(subsegment, x, i) = {}
    BY <1>0 DEF Flagged
  <2>2. x \in Int /\ \A s \in SegId : s \in Int
    BY <1>0, LinkBounds
  <2>3. \A s \in SegId : s > x => subsegment'[s][i] = subsegment[s][i]
    BY <1>5, <2>2
  <2> QED
    BY <2>1, <2>3 DEF NextSegments
<1>9. Placing'
  BY <1>0, <1>3, <1>4, <1>5, <1>7, <1>8, FinishPlacing
<1>10. Handled'
  <2>1. ~Done(i)'
    BY <1>2, <1>4 DEF Done
  <2> QED
    BY <1>0, <1>3, <1>4, <2>1, FinishHandled
<1> QED
  BY <1>6, <1>9, <1>10, KeepsBookkeeping

\* delete_subsegment and delete_finished_head_segment keep the types.
LEMMA DropsTypes ==
  ASSUME TypeOK, NEW i \in Conn, connection[i] \in SegId,
         NEW sub \in [SegId -> [Conn -> SUBSET Chunk]], DropsSubsegment(i, sub)
  PROVE  /\ completed_segment_count' \in 0 .. segment_count
         /\ segment' \in [SegId -> [recovery_segment : BOOLEAN,
                                    last : -1 .. Size - 1]]
         /\ subseg_size' \in [SegId -> [Conn -> Nat]]
         /\ subsegment' = sub
         /\ UNCHANGED <<segment_count, last_seg_offset>>
<1>1. completed_segment_count' \in 0 .. segment_count
  <2>1. completed_segment_count' \in completed_segment_count .. segment_count
    BY DEF DropsSubsegment, DeletesHeads
  <2>2. completed_segment_count \in 0 .. segment_count
    BY DEF TypeOK
  <2> QED
    BY <2>1, <2>2, LinkBounds
<1>2. segment' \in [SegId -> [recovery_segment : BOOLEAN, last : -1 .. Size - 1]]
  <2>1. NoSegment \in [recovery_segment : BOOLEAN, last : -1 .. Size - 1]
    BY LinkBounds DEF NoSegment, NoByte
  <2> QED
    BY <2>1 DEF TypeOK, DropsSubsegment
<1>3. subseg_size' \in [SegId -> [Conn -> Nat]]
  BY DEF TypeOK, DropsSubsegment
<1> QED
  BY <1>1, <1>2, <1>3 DEF DropsSubsegment

\* finish_downloading_subseg: the next subsegment of the link, or a NULL one.
LEMMA NextSubsegmentStep ==
  ASSUME Bookkeeping, NEW i \in Conn, NextSubsegment(i)
  PROVE  Bookkeeping'
<1> DEFINE x == connection[i]
           sub == [subsegment EXCEPT ![x][i] = {}]
           s == NextSegment(sub, x, i)
           h == FirstChunk(sub[s][i])
<1>0. /\ Finishing(i) /\ TypeOK /\ Positioned /\ Flagged
      /\ x \in SegId /\ x # NULL /\ x \in Int
      /\ Remaining(i) = {}
  BY FinishFacts, LinkBounds DEF NextSubsegment
<1>1. HeaderRead(net[i]) \in Socketed /\ HasHeader(net[i]) \in BOOLEAN
  BY <1>0, LinkBounds, HeaderReadType DEF HasHeader
<1>2. net' = [net EXCEPT ![i] = HeaderRead(net[i])]
      /\ UNCHANGED <<fileVars, conn_idle, link_mode, inorder_offset, threadVars,
                     at, failures>>
  BY DEF NextSubsegment
<1>3. CASE s = NULL
  <2>1. pc' = "crashed" /\ UNCHANGED <<segVars, connVars>>
    BY <1>3 DEF NextSubsegment
  <2>2. TypeOK'
    BY <1>0, <1>1, <1>2, <2>1 DEF TypeOK, segVars, connVars, fileVars
  <2>3. Placing'
    BY <1>2, <2>1, Frame DEF connVars, fileVars
  <2>4. Handled'
    BY <2>1 DEF Handled, Stopped
  <2> QED
    BY <2>2, <2>3, <2>4, KeepsBookkeeping
<1>4. CASE s # NULL
  <2>1. sub \in [SegId -> [Conn -> SUBSET Chunk]]
    BY <1>0 DEF TypeOK
  <2>2. /\ s \in SegId /\ s > x /\ sub[s][i] # {} /\ s \in Int
        /\ \A u \in SegId : u > x /\ u < s => sub[u][i] = {}
    <3> HIDE DEF sub
    <3> QED
      BY <1>0, <1>4, NextSegmentIsNext, LinkBounds
  <2>3. sub[s][i] \subseteq Chunk
    BY <2>1, <2>2
  <2>4. h \in Chunk
    BY <2>2, <2>3, FirstChunkIsFirst
  <2>5. /\ h.first \in Int /\ h.last \in Int /\ 0 <= h.first
        /\ h.first <= h.last /\ h.last <= Size - 1 /\ Size \in Int
    BY <1>0, <2>4, ChunkBounds, LinkBounds
  <2>6. /\ DropsSubsegment(i, sub)
        /\ connection' = [connection EXCEPT ![i] = s]
        /\ currentbyte' = [currentbyte EXCEPT ![i] = h.first]
        /\ lastbyte' = [lastbyte EXCEPT ![i] = h.last]
        /\ enabled' = [enabled EXCEPT ![i] = HasHeader(net[i])]
        /\ state' = [state EXCEPT ![i] = IF HasHeader(net[i]) THEN 0 ELSE state[i]]
        /\ last_segment_flag' = [last_segment_flag EXCEPT
             ![i] = last_segment_flag[i] \/ EndsFile(sub[s][i])]
        /\ pipeline_requests_sent' = [pipeline_requests_sent EXCEPT
             ![i] = StillQueued(sub, s, i)]
        /\ pc' = "account"
    BY <1>4 DEF NextSubsegment
  <2>7. /\ subsegment' = sub
        /\ completed_segment_count' \in 0 .. segment_count
        /\ segment' \in [SegId -> [recovery_segment : BOOLEAN,
                                   last : -1 .. Size - 1]]
        /\ subseg_size' \in [SegId -> [Conn -> Nat]]
        /\ UNCHANGED <<segment_count, last_seg_offset>>
    <3> HIDE DEF sub, s
    <3> QED
      BY <1>0, <2>1, <2>6, DropsTypes
  <2>8. /\ currentbyte'[i] = h.first /\ lastbyte'[i] = h.last
        /\ connection'[i] = s
        /\ pipeline_requests_sent'[i] = StillQueued(sub, s, i)
        /\ \A c \in Conn : c # i =>
             /\ currentbyte'[c] = currentbyte[c]
             /\ lastbyte'[c] = lastbyte[c]
             /\ connection'[c] = connection[c]
             /\ pipeline_requests_sent'[c] = pipeline_requests_sent[c]
    <3> HIDE DEF s, h, sub
    <3> QED
      BY <1>0, <2>6 DEF TypeOK
  <2>9. TypeOK'
    <3>1. /\ StillQueued(sub, s, i) \in BOOLEAN
          /\ EndsFile(sub[s][i]) \in BOOLEAN
      BY DEF StillQueued, EndsFile
    <3>2. h.first \in 0 .. Size /\ h.last \in 0 .. Size - 1
      BY <2>5
    <3> HIDE DEF s, h, sub
    <3> QED
      BY <1>0, <1>1, <1>2, <2>1, <2>2, <2>6, <2>7, <3>1, <3>2
         DEF TypeOK, fileVars
  <2>10. AtItsChunk(i)'
    <3>1. \A u \in SegId : u < x => subsegment[u][i] = {}
      BY <1>0 DEF Positioned, AtItsChunk
    <3>2. subsegment \in [SegId -> [Conn -> SUBSET Chunk]]
      BY <1>0 DEF TypeOK
    <3>3. /\ sub[x][i] = {}
          /\ \A u \in SegId : u # x => sub[u][i] = subsegment[u][i]
      BY <1>0, <3>2
    <3>4. \A u \in SegId : u < s => sub[u][i] = {}
      <4> HIDE DEF sub, s
      <4> QED
        BY <1>0, <2>2, <3>1, <3>3, LinkBounds
    <3>5. s # NULL
      BY <1>4
    <3> HIDE DEF s, sub
    <3> QED
      BY <2>2, <2>5, <2>7, <2>8, <3>4, <3>5 DEF AtItsChunk
  <2>11. ~pipeline_requests_sent'[i] =>
           NextSegments(subsegment', connection'[i], i) = {}
    <3> HIDE DEF s, sub
    <3> QED
      BY <2>7, <2>8 DEF StillQueued
  <2>12. Placing'
    <3>1. subsegment' = [subsegment EXCEPT ![connection[i]][i] = Remaining(i)]
      BY <1>0, <2>7
    <3> HIDE DEF s
    <3> QED
      BY <1>0, <1>2, <2>2, <2>7, <2>8, <2>10, <2>11, <3>1, FinishPlacing
         DEF fileVars
  <2>13. Handled'
    <3>1. ~Done(i)'
      BY <2>5, <2>8 DEF Done
    <3> QED
      BY <1>0, <2>6, <2>8, <3>1, FinishHandled
  <2> QED
    BY <2>9, <2>12, <2>13, KeepsBookkeeping
<1> QED
  BY <1>3, <1>4

\* finish_downloading_subseg: a link with nothing queued has no chunks left.
LEMMA GoesIdleStep ==
  ASSUME Bookkeeping, NEW i \in Conn, GoesIdle(i)
  PROVE  Bookkeeping'
<1> DEFINE x == connection[i]
           sub == [subsegment EXCEPT ![x][i] = {}]
<1>0. /\ Finishing(i) /\ TypeOK /\ Positioned /\ Flagged
      /\ x \in SegId /\ x # NULL /\ x \in Int /\ Done(i)
      /\ Remaining(i) = {} /\ ~pipeline_requests_sent[i]
  BY FinishFacts, LinkBounds DEF GoesIdle
<1>1. sub \in [SegId -> [Conn -> SUBSET Chunk]]
      /\ \A s \in SegId : s # x => sub[s][i] = subsegment[s][i]
      /\ sub[x][i] = {}
  BY <1>0 DEF TypeOK
<1>2. /\ DropsSubsegment(i, sub)
      /\ connection' = [connection EXCEPT ![i] = NULL]
      /\ enabled' = [enabled EXCEPT ![i] = FALSE]
      /\ \E w \in {net[i], Disconnected(net[i])} : net' = [net EXCEPT ![i] = w]
      /\ pc' = "account"
      /\ UNCHANGED <<currentbyte, lastbyte, state, pipeline_requests_sent,
                     last_segment_flag, fileVars, conn_idle, link_mode,
                     inorder_offset, threadVars, at, failures>>
  BY DEF GoesIdle
<1>3. /\ subsegment' = sub
      /\ completed_segment_count' \in 0 .. segment_count
      /\ segment' \in [SegId -> [recovery_segment : BOOLEAN,
                                 last : -1 .. Size - 1]]
      /\ subseg_size' \in [SegId -> [Conn -> Nat]]
      /\ UNCHANGED <<segment_count, last_seg_offset>>
  <2> HIDE DEF sub
  <2> QED
    BY <1>0, <1>1, <1>2, DropsTypes
<1>4. connection'[i] = NULL
      /\ \A c \in Conn : c # i => connection'[c] = connection[c]
  BY <1>0, <1>2 DEF TypeOK
<1>5. TypeOK'
  <2>1. \A w \in {net[i], Disconnected(net[i])} : w \in Socketed
    BY <1>0, LinkBounds, FreshSockets DEF Disconnected
  <2> HIDE DEF sub
  <2> QED
    BY <1>0, <1>1, <1>2, <1>3, <2>1 DEF TypeOK, fileVars
<1>6. AtItsChunk(i)'
  <2>1. \A u \in SegId : u < x => subsegment[u][i] = {}
    BY <1>0 DEF Positioned, AtItsChunk
  <2>2. \A u \in SegId : u > x => subsegment[u][i] = {}
    BY <1>0 DEF Flagged, NextSegments
  <2>3. \A u \in SegId : subsegment'[u][i] = {}
    <3> SUFFICES ASSUME NEW u \in SegId PROVE sub[u][i] = {}
      BY <1>3
    <3>1. u < x \/ u = x \/ u > x
      BY <1>0, LinkBounds
    <3>2. u # x => sub[u][i] = subsegment[u][i]
      BY <1>1
    <3>3. u = x => sub[u][i] = {}
      BY <1>1
    <3>4. u # x => subsegment[u][i] = {}
      BY <2>1, <2>2, <3>1
    <3> QED
      BY <3>2, <3>3, <3>4
  <2>4. currentbyte[i] = lastbyte[i] + 1
    <3> DEFINE h == FirstChunk(subsegment[x][i])
    <3>1. /\ subsegment[x][i] # {} /\ lastbyte[i] = h.last
          /\ currentbyte[i] \in h.first .. h.last + 1
      BY <1>0 DEF Positioned, AtItsChunk
    <3>2. subsegment[x][i] \subseteq Chunk
      BY <1>0 DEF TypeOK
    <3>3. h \in Chunk
      BY <3>1, <3>2, FirstChunkIsFirst
    <3>4. h.first \in Int /\ h.last \in Int
      BY <3>3, ChunkBounds
    <3> QED
      BY <1>0, <3>1, <3>4, LinkBounds DEF Done
  <2> QED
    BY <1>2, <1>4, <2>3, <2>4 DEF AtItsChunk
<1>7. Placing'
  <2>1. subsegment' = [subsegment EXCEPT ![connection[i]][i] = Remaining(i)]
    BY <1>0, <1>3
  <2> QED
    BY <1>0, <1>2, <1>3, <1>4, <1>6, <2>1, FinishPlacing DEF fileVars
<1>8. Handled'
  BY <1>0, <1>2, <1>4, FinishHandled
<1> QED
  BY <1>5, <1>7, <1>8, KeepsBookkeeping
-----------------------------------------------------------------------------
(* A new segment                                                           *)

\* gb_determine_next_segment_size never reaches past the end of the file.
LEMMA SizesBounded ==
  ASSUME TypeOK
  PROVE  \A n \in NextSizes \cup RecoverySizes :
           n \in Int /\ 0 <= n /\ last_seg_offset + n <= Size - 1
<1>1. /\ Size \in Int /\ last_seg_offset \in Int
      /\ 0 <= last_seg_offset /\ last_seg_offset <= Size - 1
      /\ InitSegSize \in Int /\ InitSegSize >= 2
  BY LinkBounds, InitSegAssumption
<1>2. \A m \in Int : 0 <= m => /\ Clipped(m) \in Int /\ 0 <= Clipped(m)
                              /\ last_seg_offset + Clipped(m) <= Size - 1
  BY <1>1 DEF Clipped
<1>3. InitSegSize \div 2 \in Int /\ 0 <= InitSegSize \div 2
  BY <1>1
<1>4. \A n \in NextSizes : \E m \in Int : 0 <= m /\ n = Clipped(m)
  BY <1>1, <1>3 DEF NextSizes
<1>5. \A n \in RecoverySizes : \E m \in Int : 0 <= m /\ n = Clipped(m)
  BY <1>1, <1>4 DEF RecoverySizes
<1> QED
  BY <1>2, <1>4, <1>5

\* gb_determine_next_subsegment: each byte goes to exactly one link.
LEMMA DivisionOnce ==
  ASSUME NEW all \in SUBSET Chunk, AllApart(all), NEW g \in Conn, NEW cut \in Int,
         NEW share, share = Division(all, g, cut)
  PROVE  /\ share \in [Conn -> SUBSET Chunk]
         /\ \A c \in Conn : AllApart(share[c])
         /\ \A c, d \in Conn : c # d =>
              \A k \in share[c], m \in share[d] : Apart(k, m)
         /\ \A b \in Int : In(b, all) <=> \E c \in Conn : In(b, share[c])
         /\ \A c \in Conn : \A k \in share[c] : \E m \in all :
              m.first <= k.first /\ k.last <= m.last
<1> DEFINE B == Below(all, cut)
           A == Above(all, cut)
<1>1. /\ B \subseteq Chunk /\ A \subseteq Chunk
      /\ AllApart(B) /\ AllApart(A)
      /\ \A k \in B, m \in A : Apart(k, m)
      /\ \A b \in Int : In(b, all) <=> In(b, B) \/ In(b, A)
      /\ \A k \in B \cup A : \E m \in all : m.first <= k.first /\ k.last <= m.last
  BY CutKeepsBytes
<1>2. share = [c \in Conn |-> IF c = g THEN B ELSE A]
  BY DEF Division
<1> HIDE DEF A, B
<1>3. \A k \in B, m \in A : Apart(m, k)
  BY <1>1 DEF Apart
<1>4. /\ share[g] = B /\ share[Other(g)] = A
      /\ Other(g) \in Conn /\ Other(g) # g
      /\ \A c \in Conn : c = g \/ c = Other(g)
  BY <1>2 DEF Other, Conn
<1>5. share \in [Conn -> SUBSET Chunk]
  BY <1>1, <1>2
<1>6. \A c \in Conn : AllApart(share[c])
  BY <1>1, <1>4
<1>7. \A c, d \in Conn : c # d => \A k \in share[c], m \in share[d] : Apart(k, m)
  BY <1>1, <1>3, <1>4
<1>8. \A b \in Int : In(b, all) <=> \E c \in Conn : In(b, share[c])
  BY <1>1, <1>4
<1>9. \A c \in Conn : \A k \in share[c] : \E m \in all :
        m.first <= k.first /\ k.last <= m.last
  BY <1>1, <1>4
<1> QED
  BY <1>5, <1>6, <1>7, <1>8, <1>9

\* The chunk lists after a segment t was added to lists that only shrank.
LEMMA DisjointAfter ==
  ASSUME TypeOK, Disjoint, NEW t \in SegId, NEW share \in [Conn -> SUBSET Chunk],
         \A s \in SegId, c \in Conn :
           IF s = t THEN subsegment'[s][c] = share[c]
           ELSE subsegment'[s][c] \subseteq subsegment[s][c],
         \A c \in Conn : AllApart(share[c]),
         \A c, d \in Conn : c # d =>
           \A k \in share[c], m \in share[d] : Apart(k, m),
         \A s \in SegId, c, d \in Conn : s # t =>
           \A k \in subsegment'[s][c], m \in share[d] : Apart(k, m)
  PROVE  Disjoint'
<1> SUFFICES ASSUME NEW s \in SegId, NEW u \in SegId, NEW c \in Conn,
                    NEW d \in Conn, NEW k \in subsegment'[s][c],
                    NEW m \in subsegment'[u][d], <<s, c, k>> # <<u, d, m>>
             PROVE  Apart(k, m)
  BY DEF Disjoint
<1>1. CASE s # t /\ u # t
  <2>1. k \in subsegment[s][c] /\ m \in subsegment[u][d]
    BY <1>1
  <2> QED
    BY <2>1 DEF Disjoint
<1>2. CASE s = t /\ u = t
  <2>1. k \in share[c] /\ m \in share[d]
    BY <1>2
  <2>2. CASE c = d
    BY <1>2, <2>1, <2>2 DEF AllApart
  <2>3. CASE c # d
    BY <2>1, <2>3
  <2> QED
    BY <2>2, <2>3
<1>3. CASE s # t /\ u = t
  BY <1>3
<1>4. CASE s = t /\ u # t
  <2>1. Apart(m, k)
    BY <1>4
  <2> QED
    BY <2>1 DEF Apart
<1> QED
  BY <1>1, <1>2, <1>3, <1>4

\* The links owe what they did and the next n bytes of the file.
LEMMA CoveredAfter ==
  ASSUME TypeOK, Covered, disk' = disk, NEW n \in Int, 0 <= n,
         last_seg_offset' = last_seg_offset + n,
         \A b \in Byte :
           (\E c \in Conn : b \in Owed(c)') <=>
             \/ \E c \in Conn : b \in Owed(c)
             \/ last_seg_offset < b /\ b <= last_seg_offset + n
  PROVE  Covered'
<1>1. Stored' = Stored
  BY DEF Stored
<1>2. last_seg_offset \in Int /\ \A b \in Byte : b \in Int
  BY LinkBounds DEF Byte
<1> SUFFICES ASSUME NEW b \in Byte
             PROVE  b \in Stored <=> /\ b <= last_seg_offset + n
                                     /\ \A c \in Conn : b \notin Owed(c)'
  BY <1>1 DEF Covered
<1>3. b \in Stored <=> b <= last_seg_offset /\ \A c \in Conn : b \notin Owed(c)
  BY DEF Covered
<1> QED
  BY <1>2, <1>3

\* add_new_segment and add_new_subsegment keep the types.
LEMMA AddsTypes ==
  ASSUME TypeOK, NEW t \in SegId,
         NEW sub \in [SegId -> [Conn -> SUBSET Chunk]],
         NEW share \in [Conn -> SUBSET Chunk], NEW recovery \in BOOLEAN,
         NEW reach \in Byte, AddsSegment(t, sub, share, recovery, reach)
  PROVE  /\ segment_count' = t
         /\ subsegment' \in [SegId -> [Conn -> SUBSET Chunk]]
         /\ \A s \in SegId : subsegment'[s] = IF s = t THEN share ELSE sub[s]
         /\ subseg_size' \in [SegId -> [Conn -> Nat]]
         /\ segment' \in [SegId -> [recovery_segment : BOOLEAN,
                                    last : -1 .. Size - 1]]
         /\ last_seg_offset' \in Byte
         /\ last_seg_offset' = IF reach > last_seg_offset THEN reach
                               ELSE last_seg_offset
<1>1. /\ subsegment' = [sub EXCEPT ![t] = share]
      /\ segment_count' = t
      /\ last_seg_offset' = IF reach > last_seg_offset THEN reach
                            ELSE last_seg_offset
  BY DEF AddsSegment
<1>2. subseg_size' \in [SegId -> [Conn -> Nat]]
  <2>1. \A c \in Conn : Cardinality(Bytes(share[c])) \in Nat
    BY BytesCounted
  <2>2. \A s \in SegId, c \in Conn : subseg_size[s][c] \in Nat
    BY DEF TypeOK
  <2> QED
    BY <2>1, <2>2 DEF AddsSegment
<1>3. segment' \in [SegId -> [recovery_segment : BOOLEAN, last : -1 .. Size - 1]]
  <2>1. NoSegment \in [recovery_segment : BOOLEAN, last : -1 .. Size - 1]
    BY LinkBounds DEF NoSegment, NoByte
  <2>2. [recovery_segment |-> recovery, last |-> reach] \in
          [recovery_segment : BOOLEAN, last : -1 .. Size - 1]
    BY LinkBounds DEF Byte
  <2>3. \A s \in SegId : segment[s] \in [recovery_segment : BOOLEAN,
                                        last : -1 .. Size - 1]
    BY DEF TypeOK
  <2>4. segment' = [s \in SegId |->
                      IF s = t THEN [recovery_segment |-> recovery,
                                     last |-> reach]
                      ELSE IF s <= completed_segment_count' THEN NoSegment
                      ELSE segment[s]]
    BY DEF AddsSegment
  <2> QED
    BY <2>1, <2>2, <2>3, <2>4
<1>4. last_seg_offset' \in Byte
  BY <1>1 DEF TypeOK
<1>5. subsegment' \in [SegId -> [Conn -> SUBSET Chunk]]
  BY <1>1
<1>6. \A s \in SegId : subsegment'[s] = IF s = t THEN share ELSE sub[s]
  BY <1>1
<1> QED
  BY <1>1, <1>2, <1>3, <1>4, <1>5, <1>6

\* The handler of link i adds a segment: what matters for Handled is that a
\* link that is started anew is at the beginning of a chunk.
LEMMA AddsHandled ==
  ASSUME Bookkeeping, NEW i \in Conn, Scheduling(i), at' = at,
         pc' \in {"exited", AfterSchedule(i)},
         connection'[i] = connection[i], currentbyte'[i] = currentbyte[i],
         lastbyte'[i] = lastbyte[i],
         \A c \in Conn : c # i /\ connection'[c] # NULL => ~Done(c)'
  PROVE  Handled'
<1>1. connection[i] # NULL /\ at = i
  BY DEF Bookkeeping, Handled, Scheduling
<1>2. Done(i)' <=> Done(i)
  BY DEF Done
<1>3. CASE pc' = AfterSchedule(i)
  BY <1>1, <1>2, <1>3, AfterScheduleCases DEF Handled, Stopped
<1>4. CASE pc' = "exited"
  BY <1>4 DEF Handled, Stopped
<1> QED
  BY <1>3, <1>4

\* A link that keeps its place keeps it when a later segment is added.
LEMMA KeepsPlace ==
  ASSUME TypeOK, NEW c \in Conn, AtItsChunk(c), NEW t \in SegId,
         connection[c] # NULL, connection[c] < t,
         \A s \in SegId : s # t => subsegment'[s][c] = subsegment[s][c],
         connection'[c] = connection[c], currentbyte'[c] = currentbyte[c],
         lastbyte'[c] = lastbyte[c]
  PROVE  AtItsChunk(c)'
<1>1. connection[c] \in SegId /\ connection[c] \in Int /\ t \in Int
      /\ \A s \in SegId : s \in Int
  BY LinkBounds
<1>2. ASSUME NEW s \in SegId, s <= connection[c]
      PROVE  subsegment'[s][c] = subsegment[s][c]
  <2>1. s # t
    BY <1>1, <1>2
  <2> QED
    BY <2>1
<1>3. connection[c] <= connection[c] /\ \A s \in SegId : s < connection[c] => s <= connection[c]
  BY <1>1
<1> QED
  BY <1>1, <1>2, <1>3 DEF AtItsChunk

\* A link that starts on segment t, its only one, is at its beginning.
LEMMA StartsAtChunk ==
  ASSUME NEW c \in Conn, NEW t \in SegId, NEW share \in SUBSET Chunk, share # {},
         \A s \in SegId : subsegment'[s][c] = IF s = t THEN share ELSE {},
         connection'[c] = t, currentbyte'[c] = FirstChunk(share).first,
         lastbyte'[c] = FirstChunk(share).last
  PROVE  /\ AtItsChunk(c)'
         /\ ~Done(c)'
         /\ NextSegments(subsegment', connection'[c], c) = {}
<1>1. FirstChunk(share) \in Chunk
  BY FirstChunkIsFirst
<1>2. /\ FirstChunk(share).first \in Int /\ FirstChunk(share).last \in Int
      /\ FirstChunk(share).first <= FirstChunk(share).last
  BY <1>1, ChunkBounds
<1>3. t # NULL /\ t \in Int /\ \A s \in SegId : s \in Int
  BY BoundAssumption DEF SegId, NULL
<1>4. AtItsChunk(c)'
  BY <1>2, <1>3 DEF AtItsChunk
<1>5. ~Done(c)'
  BY <1>2 DEF Done
<1>6. NextSegments(subsegment', connection'[c], c) = {}
  <2>1. ASSUME NEW s \in SegId, s > t PROVE subsegment'[s][c] = {}
    <3>1. s # t
      BY <1>3, <2>1
    <3> QED
      BY <3>1
  <2> QED
    BY <2>1 DEF NextSegments
<1> QED
  BY <1>4, <1>5, <1>6

\* The links a segment can be placed behind, and its number.
LEMMA NewSegmentIsNew ==
  ASSUME TypeOK, Placed, Positioned, segment_count < MaxSegments
  PROVE  /\ segment_count + 1 \in SegId
         /\ \A c \in Conn : /\ subsegment[segment_count + 1][c] = {}
                            /\ connection[c] < segment_count + 1
                            /\ connection[c] # segment_count + 1
<1>1. /\ segment_count \in Int /\ segment_count >= 1
      /\ MaxSegments \in Int
  BY LinkBounds, BoundAssumption
<1>2. segment_count + 1 \in SegId
  BY <1>1 DEF SegId
<1>3. ASSUME NEW c \in Conn PROVE subsegment[segment_count + 1][c] = {}
  <2>1. \A k \in subsegment[segment_count + 1][c] :
          segment_count + 1 <= segment_count
    BY <1>2 DEF Placed
  <2> QED
    BY <1>1, <2>1
<1>4. ASSUME NEW c \in Conn PROVE connection[c] < segment_count + 1
  <2>1. CASE connection[c] = NULL
    BY <1>1, <2>1 DEF NULL
  <2>2. CASE connection[c] # NULL
    <3>1. connection[c] \in SegId /\ connection[c] \in Int
      BY <2>2, LinkBounds
    <3>2. subsegment[connection[c]][c] # {}
      BY <2>2 DEF Positioned, AtItsChunk
    <3>3. connection[c] <= segment_count
      BY <3>1, <3>2 DEF Placed
    <3> QED
      BY <1>1, <3>1, <3>3
  <2> QED
    BY <2>1, <2>2
<1>5. \A c \in Conn : connection[c] # segment_count + 1
  <2>1. \A c \in Conn : connection[c] \in Int
    BY LinkBounds
  <2> QED
    BY <1>1, <1>4, <2>1
<1> QED
  BY <1>2, <1>3, <1>4, <1>5

\* A new segment is made of the n bytes behind the last one, divided once.
LEMMA DivisionsOnce ==
  ASSUME TypeOK, NEW n \in NextSizes \ {0}, NEW f \in Conn,
         NEW mode \in LinkMode, NEW share \in Divisions(n, f, mode)
  PROVE  /\ share \in [Conn -> SUBSET Chunk]
         /\ \A c \in Conn : AllApart(share[c])
         /\ \A c, d \in Conn : c # d =>
              \A k \in share[c], m \in share[d] : Apart(k, m)
         /\ \A b \in Int : (\E c \in Conn : In(b, share[c])) <=>
              last_seg_offset < b /\ b <= last_seg_offset + n
         /\ \A c \in Conn : \A k \in share[c] :
              last_seg_offset < k.first /\ k.last <= last_seg_offset + n
<1> DEFINE first == last_seg_offset + 1
           m == [first |-> first, last |-> last_seg_offset + n]
           all == {m}
<1>1. /\ n \in Int /\ 1 <= n /\ last_seg_offset + n <= Size - 1
      /\ last_seg_offset \in Int /\ 0 <= last_seg_offset
  BY SizesBounded, LinkBounds
<1>2. all \in SUBSET Chunk /\ AllApart(all)
  BY <1>1, ChunkBounds DEF AllApart
<1>3. \E g \in Conn, cut \in Int : share = Division(all, g, cut)
  <2>1. CASE mode = DUAL_LINK_MODE
    <3>1. share \in {Division(all, f, cut) : cut \in first .. first + n}
      BY <2>1 DEF Divisions
    <3>2. first .. first + n \subseteq Int
      BY <1>1
    <3> QED
      BY <3>1, <3>2
  <2>2. CASE mode # DUAL_LINK_MODE
    <3>1. share = Division(all, mode - 1, first + n)
      BY <2>2 DEF Divisions
    <3>2. mode - 1 \in Conn
      BY <2>2 DEF LinkMode, Conn, DUAL_LINK_MODE
    <3>3. first + n \in Int
      BY <1>1
    <3> QED
      BY <3>1, <3>2, <3>3
  <2> QED
    BY <2>1, <2>2
<1>4. \A b \in Int : In(b, all) <=> last_seg_offset < b /\ b <= last_seg_offset + n
  BY <1>1 DEF In
<1> HIDE DEF all
<1>5. PICK g \in Conn, cut \in Int : share = Division(all, g, cut)
  BY <1>3
<1>6. /\ share \in [Conn -> SUBSET Chunk]
      /\ \A c \in Conn : AllApart(share[c])
      /\ \A c, d \in Conn : c # d =>
           \A k \in share[c], p \in share[d] : Apart(k, p)
      /\ \A b \in Int : In(b, all) <=> \E c \in Conn : In(b, share[c])
      /\ \A c \in Conn : \A k \in share[c] : \E p \in all :
           p.first <= k.first /\ k.last <= p.last
  BY <1>2, <1>5, DivisionOnce
<1>7. ASSUME NEW c \in Conn, NEW k \in share[c]
      PROVE  last_seg_offset < k.first /\ k.last <= last_seg_offset + n
  <2>1. m.first <= k.first /\ k.last <= m.last
    BY <1>6 DEF all
  <2>2. k.first \in Int /\ k.last \in Int
    BY <1>6, ChunkBounds
  <2> QED
    BY <1>1, <2>1, <2>2
<1> QED
  BY <1>4, <1>6, <1>7

\* add_new_segment and the requests for the segment keep every variable in
\* its type, and the new segment takes the next identifier.
LEMMA NewSegmentTypes ==
  ASSUME Bookkeeping, NEW i \in Conn, segment_count < MaxSegments, Scheduling(i),
         NEW n \in NextSizes \ {0}, NEW f \in Conn, NEW mode \in Modes(n),
         NEW share \in Divisions(n, f, mode), AddsAndRequests(i, n, share, mode)
  PROVE  /\ TypeOK'
         /\ mode \in LinkMode
         /\ segment_count' = segment_count + 1
         /\ last_seg_offset' = last_seg_offset + n
         /\ \A s \in SegId : subsegment'[s] =
              IF s = segment_count + 1 THEN share ELSE subsegment[s]
<1> DEFINE j == Other(i)
           t == segment_count + 1
           asked == Sent(net[j], share[j])
           joins == connection[j] = NULL /\ share[j] # {}
           starts == joins /\ HasHeader(asked)
<1>0. TypeOK /\ Placed /\ Positioned
  BY DEF Bookkeeping
<1>1. j \in Conn
  BY DEF Other, Conn
<1>2. mode \in LinkMode
  BY <1>0 DEF TypeOK, Modes
<1>3. t \in SegId
  BY <1>0, NewSegmentIsNew
<1>4. share \in [Conn -> SUBSET Chunk]
  BY <1>0, <1>2, DivisionsOnce
<1>5. last_seg_offset + n \in Byte /\ last_seg_offset + n > last_seg_offset
  BY <1>0, SizesBounded, LinkBounds DEF Byte
<1>6. AddsSegment(t, subsegment, share, FALSE, last_seg_offset + n)
      /\ subsegment \in [SegId -> [Conn -> SUBSET Chunk]]
  BY <1>0 DEF AddsAndRequests, TypeOK
<1>7. /\ segment_count' = t
      /\ subsegment' \in [SegId -> [Conn -> SUBSET Chunk]]
      /\ \A s \in SegId : subsegment'[s] = IF s = t THEN share ELSE subsegment[s]
      /\ subseg_size' \in [SegId -> [Conn -> Nat]]
      /\ segment' \in [SegId -> [recovery_segment : BOOLEAN,
                                 last : -1 .. Size - 1]]
      /\ last_seg_offset' \in Byte
      /\ last_seg_offset' = last_seg_offset + n
  <2> HIDE DEF t
  <2> QED
    BY <1>0, <1>3, <1>4, <1>5, <1>6, AddsTypes
<1>8. net' \in [Conn -> Socketed]
  <2>1. \A c \in Conn : net[c] \in Socketed /\ share[c] \in SUBSET Chunk
    BY <1>0, <1>4, LinkBounds
  <2>2. Sent(net[i], share[i]) \in Socketed /\ asked \in Socketed
    BY <1>1, <2>1, SentType
  <2>3. HeaderRead(asked) \in Socketed
    BY <2>2, HeaderReadType
  <2>4. net' = [c \in Conn |-> IF c = i THEN Sent(net[i], share[i])
                               ELSE IF joins THEN HeaderRead(asked)
                               ELSE asked]
    BY DEF AddsAndRequests
  <2> HIDE DEF asked, joins
  <2> QED
    BY <2>2, <2>3, <2>4
<1>9. joins => /\ FirstChunk(share[j]).first \in 0 .. Size
               /\ FirstChunk(share[j]).last \in 0 .. Size - 1
  <2>1. share[j] \subseteq Chunk
    BY <1>1, <1>4
  <2>2. joins => FirstChunk(share[j]) \in Chunk
    BY <2>1, FirstChunkIsFirst
  <2>3. Size \in Int
    BY <1>0, LinkBounds
  <2> QED
    BY <2>2, <2>3, ChunkBounds
<1>10. /\ connection' \in [Conn -> SegId \cup {NULL}]
       /\ currentbyte' \in [Conn -> 0 .. Size]
       /\ lastbyte' \in [Conn -> 0 .. Size - 1]
  <2>1. /\ connection' = [connection EXCEPT ![j] = IF joins THEN t ELSE connection[j]]
        /\ currentbyte' = [currentbyte EXCEPT
             ![j] = IF joins THEN FirstChunk(share[j]).first ELSE currentbyte[j]]
        /\ lastbyte' = [lastbyte EXCEPT
             ![j] = IF joins THEN FirstChunk(share[j]).last ELSE lastbyte[j]]
    BY DEF AddsAndRequests
  <2>2. /\ connection \in [Conn -> SegId \cup {NULL}]
        /\ currentbyte \in [Conn -> 0 .. Size]
        /\ lastbyte \in [Conn -> 0 .. Size - 1]
    BY <1>0 DEF TypeOK
  <2> HIDE DEF joins, j, t
  <2> QED
    BY <1>1, <1>3, <1>9, <2>1, <2>2
<1>11. /\ state' \in [Conn -> {0, 1}]
       /\ pipeline_requests_sent' \in [Conn -> BOOLEAN]
       /\ enabled' \in [Conn -> BOOLEAN]
       /\ last_segment_flag' \in [Conn -> BOOLEAN]
  <2>1. starts \in BOOLEAN
    BY DEF HasHeader
  <2>2. /\ state \in [Conn -> {0, 1}]
        /\ pipeline_requests_sent \in [Conn -> BOOLEAN]
        /\ enabled \in [Conn -> BOOLEAN]
        /\ last_segment_flag \in [Conn -> BOOLEAN]
    BY <1>0 DEF TypeOK
  <2>3. /\ state' = [c \in Conn |-> IF share[c] = {} THEN state[c]
                                    ELSE IF c = j /\ starts THEN 0 ELSE 1]
        /\ pipeline_requests_sent' =
             [c \in Conn |-> /\ pipeline_requests_sent[c] \/ share[c] # {}
                             /\ ~(c = j /\ starts)]
        /\ enabled' = [enabled EXCEPT ![j] = enabled[j] \/ starts]
    BY DEF AddsAndRequests
  <2>4. last_segment_flag' =
          [c \in Conn |-> \/ last_segment_flag[c]
                          \/ c = j /\ joins /\ EndsFile(share[j])
                          \/ NextEndsFile(c)]
    BY DEF AddsAndRequests
  <2>5. last_segment_flag' \in [Conn -> BOOLEAN]
    <3>1. \A c \in Conn : (\/ last_segment_flag[c]
                           \/ c = j /\ joins /\ EndsFile(share[j])
                           \/ NextEndsFile(c)) \in BOOLEAN
      OBVIOUS
    <3> HIDE DEF joins
    <3> QED
      BY <2>4, <3>1
  <2> HIDE DEF starts
  <2> QED
    BY <1>1, <2>1, <2>2, <2>3, <2>5
<1>12. /\ inorder_offset' \in 0 .. Size
       /\ conn_idle' \in [Conn -> BOOLEAN]
       /\ pc' \in {"exited", AfterSchedule(i)}
  <2>1. Reestimated(subsegment)
        /\ conn_idle' = [ReestimatedIdle EXCEPT ![j] = ReestimatedIdle[j] /\ ~starts]
        /\ pc' \in {"exited", AfterSchedule(i)}
    BY DEF AddsAndRequests
  <2>2. /\ inorder_offset' \in 0 .. Size
        /\ ReestimatedIdle \in [Conn -> BOOLEAN]
    BY <1>0, <1>6, <2>1, ReestimatedType
  <2> HIDE DEF starts
  <2> QED
    BY <1>1, <2>1, <2>2
<1>13. /\ UNCHANGED completed_segment_count /\ link_mode' = mode
       /\ UNCHANGED <<fileVars, threadVars, at, failures>>
  BY DEF AddsAndRequests
<1>14. completed_segment_count' \in 0 .. segment_count'
  <2>1. completed_segment_count \in 0 .. segment_count
    BY <1>0 DEF TypeOK
  <2> QED
    BY <1>0, <1>7, <1>13, <2>1, LinkBounds
<1>15. TypeOK'
  <2> HIDE DEF t
  <2> QED
    BY <1>0, <1>2, <1>3, <1>7, <1>8, <1>10, <1>11, <1>12, <1>13, <1>14
       DEF TypeOK, fileVars, AfterSchedule
<1> QED
  BY <1>2, <1>7, <1>15

\* A link that keeps its place and its flag keeps what the flag says.
LEMMA KeepsFlag ==
  ASSUME NEW c \in Conn, Flagged, connection[c] # NULL,
         ~pipeline_requests_sent[c], connection'[c] = connection[c],
         \A s \in SegId : subsegment'[s][c] = subsegment[s][c]
  PROVE  NextSegments(subsegment', connection'[c], c) = {}
<1>1. NextSegments(subsegment, connection[c], c) = {}
  BY DEF Flagged
<1> QED
  BY <1>1 DEF NextSegments

\* gb_setup_next_segment with the requests it sends: the new segment comes
\* behind all others, and an idle link starts at its beginning.
LEMMA NewSegmentStep ==
  ASSUME Bookkeeping, NEW i \in Conn, NewSegment(i)
  PROVE  Bookkeeping'
<1>0. /\ TypeOK /\ Covered /\ Disjoint /\ Placed /\ Positioned /\ Flagged
      /\ Handled /\ Scheduling(i) /\ segment_count < MaxSegments
  BY DEF Bookkeeping, EachByteOnce, NewSegment, Proceeds
<1>1. PICK n \in NextSizes \ {0}, f \in Conn :
        \E mode \in Modes(n) : \E share \in Divisions(n, f, mode) :
          AddsAndRequests(i, n, share, mode)
  BY DEF NewSegment
<1>1a. PICK mode \in Modes(n) :
         \E share \in Divisions(n, f, mode) : AddsAndRequests(i, n, share, mode)
  BY <1>1
<1>2. PICK share \in Divisions(n, f, mode) : AddsAndRequests(i, n, share, mode)
  BY <1>1a
<1> DEFINE j == Other(i)
           t == segment_count + 1
           joins == connection[j] = NULL /\ share[j] # {}
           starts == joins /\ HasHeader(Sent(net[j], share[j]))
<1>3. /\ TypeOK' /\ mode \in LinkMode
      /\ segment_count' = t
      /\ last_seg_offset' = last_seg_offset + n
      /\ \A s \in SegId : subsegment'[s] = IF s = t THEN share ELSE subsegment[s]
  BY <1>0, <1>2, NewSegmentTypes
<1>4. /\ share \in [Conn -> SUBSET Chunk]
      /\ \A c \in Conn : AllApart(share[c])
      /\ \A c, d \in Conn : c # d =>
           \A k \in share[c], m \in share[d] : Apart(k, m)
      /\ \A b \in Int : (\E c \in Conn : In(b, share[c])) <=>
           last_seg_offset < b /\ b <= last_seg_offset + n
      /\ \A c \in Conn : \A k \in share[c] :
           last_seg_offset < k.first /\ k.last <= last_seg_offset + n
  BY <1>0, <1>3, DivisionsOnce
<1>5. /\ t \in SegId
      /\ \A c \in Conn : /\ subsegment[t][c] = {}
                         /\ connection[c] < t /\ connection[c] # t
  BY <1>0, NewSegmentIsNew
<1>6. /\ n \in Int /\ 1 <= n /\ last_seg_offset + n <= Size - 1
      /\ last_seg_offset \in Int
      /\ segment_count \in Int /\ \A s \in SegId : s \in Int /\ s # NULL
  BY <1>0, SizesBounded, LinkBounds
<1>7. j \in Conn /\ j # i /\ \A c \in Conn : c = i \/ c = j
  BY DEF Other, Conn
<1>8. /\ \A c \in Conn : ~(c = j /\ joins) =>
           /\ connection'[c] = connection[c] /\ currentbyte'[c] = currentbyte[c]
           /\ lastbyte'[c] = lastbyte[c]
      /\ joins => /\ connection'[j] = t
                  /\ currentbyte'[j] = FirstChunk(share[j]).first
                  /\ lastbyte'[j] = FirstChunk(share[j]).last
  <2>1. /\ connection' = [connection EXCEPT ![j] = IF joins THEN t ELSE connection[j]]
        /\ currentbyte' = [currentbyte EXCEPT
             ![j] = IF joins THEN FirstChunk(share[j]).first ELSE currentbyte[j]]
        /\ lastbyte' = [lastbyte EXCEPT
             ![j] = IF joins THEN FirstChunk(share[j]).last ELSE lastbyte[j]]
    BY <1>2 DEF AddsAndRequests
  <2>2. /\ connection \in [Conn -> SegId \cup {NULL}]
        /\ currentbyte \in [Conn -> 0 .. Size]
        /\ lastbyte \in [Conn -> 0 .. Size - 1]
    BY <1>0 DEF TypeOK
  <2> HIDE DEF joins, j, t
  <2> QED
    BY <1>7, <2>1, <2>2
<1>9. \A c \in Conn : pipeline_requests_sent'[c] <=>
        /\ pipeline_requests_sent[c] \/ share[c] # {}
        /\ ~(c = j /\ starts)
  BY <1>2 DEF AddsAndRequests
<1>10. /\ disk' = disk /\ at' = at
       /\ pc' \in {"exited", AfterSchedule(i)}
  BY <1>2 DEF AddsAndRequests, fileVars
<1>11. joins => \A s \in SegId : subsegment[s][j] = {}
  BY <1>0, <1>7 DEF Positioned, AtItsChunk
<1>12. joins => \A s \in SegId : subsegment'[s][j] = IF s = t THEN share[j] ELSE {}
  BY <1>3, <1>11
<1>13. joins => /\ AtItsChunk(j)'
                /\ ~Done(j)'
                /\ NextSegments(subsegment', connection'[j], j) = {}
  <2> SUFFICES ASSUME joins
               PROVE  /\ AtItsChunk(j)'
                      /\ ~Done(j)'
                      /\ NextSegments(subsegment', connection'[j], j) = {}
    OBVIOUS
  <2>1. share[j] \in SUBSET Chunk /\ share[j] # {}
    BY <1>4, <1>7
  <2> HIDE DEF j, t
  <2> QED
    BY <1>5, <1>7, <1>8, <1>12, <2>1, StartsAtChunk
<1> HIDE DEF j, t, joins, starts
<1>14. \A s \in SegId, c \in Conn :
         subsegment'[s][c] = IF s = t THEN share[c] ELSE subsegment[s][c]
  BY <1>3
<1>15. ASSUME NEW c \in Conn, NEW b \in Byte
       PROVE  b \in Owed(c)' <=> b \in Owed(c) \/ In(b, share[c])
  <2>1. CASE c = j /\ joins
    <3>1. subsegment' \in [SegId -> [Conn -> SUBSET Chunk]]
      BY <1>3 DEF TypeOK
    <3>2. subsegment'[t][j] # {} /\ subsegment'[t][j] = share[j]
      BY <1>5, <1>12, <2>1 DEF joins
    <3>3. connection'[j] = t /\ currentbyte'[j] = FirstChunk(share[j]).first
      BY <1>8, <2>1
    <3>4. b \in Owed(j)' <=> \E s \in SegId : In(b, subsegment'[s][j])
      BY <1>7, <3>1, <3>2, <3>3, OwedAtStart
    <3>5. b \notin Owed(j)
      BY <1>11, <2>1 DEF Owed
    <3>6. ~In(b, {})
      BY DEF In
    <3> QED
      BY <1>5, <1>12, <2>1, <3>4, <3>5, <3>6
  <2>2. CASE ~(c = j /\ joins)
    <3>1. share[c] \in SUBSET Chunk
      BY <1>4
    <3> QED
      BY <1>0, <1>5, <1>8, <1>14, <2>2, <3>1, OwedGrows
  <2> QED
    BY <2>1, <2>2
<1>16. Covered'
  <2>1. ASSUME NEW b \in Byte
        PROVE  (\E c \in Conn : b \in Owed(c)') <=>
                 \/ \E c \in Conn : b \in Owed(c)
                 \/ last_seg_offset < b /\ b <= last_seg_offset + n
    <3>1. b \in Int
      BY DEF Byte
    <3> QED
      BY <1>4, <1>15, <3>1
  <2>2. 0 <= n
    BY <1>6
  <2> QED
    BY <1>0, <1>3, <1>6, <1>10, <2>1, <2>2, CoveredAfter
<1>17. Disjoint'
  <2>1. ASSUME NEW s \in SegId, NEW c \in Conn, NEW d \in Conn, s # t,
               NEW k \in subsegment'[s][c], NEW m \in share[d]
        PROVE  Apart(k, m)
    <3>1. k \in subsegment[s][c]
      BY <1>14, <2>1
    <3>2. k.last <= last_seg_offset /\ last_seg_offset < m.first
      BY <1>0, <1>4, <3>1 DEF Placed
    <3>3. k \in Chunk /\ m \in Chunk
      BY <1>0, <1>4, <3>1 DEF TypeOK
    <3> QED
      BY <1>6, <3>2, <3>3, ChunkBounds DEF Apart
  <2>2. \A s \in SegId, c \in Conn :
          IF s = t THEN subsegment'[s][c] = share[c]
          ELSE subsegment'[s][c] \subseteq subsegment[s][c]
    BY <1>14
  <2> QED
    BY <1>0, <1>4, <1>5, <2>1, <2>2, DisjointAfter
<1>18. Placed'
  <2> SUFFICES ASSUME NEW s \in SegId, NEW c \in Conn, NEW k \in subsegment'[s][c]
               PROVE  s <= segment_count + 1 /\ k.last <= last_seg_offset + n
    BY <1>3 DEF Placed, t
  <2>1. CASE s = t
    BY <1>4, <1>6, <1>14, <2>1 DEF t
  <2>2. CASE s # t
    <3>1. k \in subsegment[s][c]
      BY <1>14, <2>2
    <3>2. s <= segment_count /\ k.last <= last_seg_offset
      BY <1>0, <3>1 DEF Placed
    <3>3. k \in Chunk
      BY <1>0, <3>1 DEF TypeOK
    <3>4. s \in Int /\ k.last \in Int
      BY <1>6, <3>3, ChunkBounds
    <3> QED
      BY <1>6, <3>2, <3>4
  <2> QED
    BY <2>1, <2>2
<1>19. ASSUME NEW c \in Conn PROVE AtItsChunk(c)'
  <2>0. AtItsChunk(c)
    BY <1>0 DEF Positioned
  <2>1. CASE c = j /\ joins
    BY <1>13, <2>1
  <2>2. CASE ~(c = j /\ joins) /\ connection[c] # NULL
    BY <1>0, <1>5, <1>8, <1>14, <2>0, <2>2, KeepsPlace
  <2>3. CASE ~(c = j /\ joins) /\ connection[c] = NULL
    <3>1. share[c] = {}
      <4>1. c # i
        BY <1>0, <2>3 DEF Handled, Scheduling
      <4> QED
        BY <1>7, <2>3, <4>1 DEF joins
    <3>2. \A s \in SegId : subsegment'[s][c] = {}
      BY <1>14, <2>0, <2>3, <3>1 DEF AtItsChunk
    <3> QED
      BY <1>8, <2>0, <2>3, <3>2 DEF AtItsChunk
  <2> QED
    BY <2>1, <2>2, <2>3
<1>20. ASSUME NEW c \in Conn, connection'[c] # NULL, ~pipeline_requests_sent'[c]
       PROVE  NextSegments(subsegment', connection'[c], c) = {}
  <2>1. CASE c = j /\ joins
    BY <1>13, <2>1
  <2>2. CASE ~(c = j /\ joins)
    <3>1. ~pipeline_requests_sent[c] /\ share[c] = {}
      BY <1>9, <1>20, <2>2 DEF starts
    <3>2. \A s \in SegId : subsegment'[s][c] = subsegment[s][c]
      BY <1>5, <1>14, <3>1
    <3>3. connection'[c] = connection[c]
      BY <1>8, <2>2
    <3> QED
      BY <1>0, <1>20, <3>1, <3>2, <3>3, KeepsFlag
  <2> QED
    BY <2>1, <2>2
<1>21. Placing'
  BY <1>16, <1>17, <1>18, <1>19, <1>20
     DEF Placing, EachByteOnce, Positioned, Flagged
<1>22. Handled'
  <2>1. ASSUME NEW c \in Conn, c # i, connection'[c] # NULL PROVE ~Done(c)'
    <3>1. CASE c = j /\ joins
      BY <1>13, <3>1
    <3>2. CASE ~(c = j /\ joins)
      <4>1. ~Done(c)
        BY <1>0, <1>8, <2>1, <3>2 DEF Handled, Scheduling, Stopped
      <4> QED
        BY <1>8, <3>2, <4>1 DEF Done
    <3> QED
      BY <3>1, <3>2
  <2> QED
    BY <1>0, <1>7, <1>8, <1>10, <2>1, AddsHandled
<1> QED
  BY <1>3, <1>21, <1>22, KeepsBookkeeping
-----------------------------------------------------------------------------
(* Recovery                                                                *)

\* What recovery takes back from a link is what the link owes, once.
LEMMA OutstandingOwed ==
  ASSUME TypeOK, Disjoint, Positioned, NEW j \in Conn, connection[j] # NULL,
         ~Done(j)
  PROVE  /\ Outstanding(j) \in SUBSET Chunk /\ Outstanding(j) # {}
         /\ AllApart(Outstanding(j))
         /\ \A b \in Byte : In(b, Outstanding(j)) <=> b \in Owed(j)
         /\ \A k \in Outstanding(j) : \E s \in SegId : \E m \in subsegment[s][j] :
              m.first <= k.first /\ k.last <= m.last
<1> DEFINE x == connection[j]
           C == subsegment[x][j]
           h == FirstChunk(C)
           cb == currentbyte[j]
           r == [first |-> cb, last |-> h.last]
           later == {u \in SegId : u > x}
           O == Outstanding(j)
<1>0. /\ x \in SegId /\ x \in Int /\ \A s \in SegId : s \in Int
      /\ cb \in Int /\ lastbyte[j] \in Int /\ Size \in Int
  BY LinkBounds
<1>1. \A s \in SegId : subsegment[s][j] \subseteq Chunk
  BY DEF TypeOK
<1>2. \A s \in SegId : \A k \in subsegment[s][j] :
        /\ k.first \in Int /\ k.last \in Int /\ 0 <= k.first
        /\ k.first <= k.last /\ k.last <= Size - 1
  BY <1>1, ChunkBounds
<1>3. /\ C # {} /\ lastbyte[j] = h.last
      /\ cb \in h.first .. h.last + 1
      /\ \A s \in SegId : s < x => subsegment[s][j] = {}
  BY DEF Positioned, AtItsChunk
<1>4. h \in C /\ \A k \in C : h.first <= k.first
  BY <1>0, <1>1, <1>3, FirstChunkIsFirst
<1>5. /\ h.first <= cb /\ cb <= h.last
      /\ h.first \in Int /\ h.last \in Int /\ 0 <= h.first /\ h.last <= Size - 1
  BY <1>0, <1>2, <1>3, <1>4 DEF Done
<1>6. r \in Chunk /\ r.first = cb /\ r.last = h.last
  BY <1>0, <1>5, ChunkBounds
<1>7. \A k : k \in O <=> \/ k = r
                         \/ k \in C /\ k # h
                         \/ \E u \in SegId : u > x /\ k \in subsegment[u][j]
  BY DEF Outstanding
<1> DEFINE From(k, s, m) == /\ m \in subsegment[s][j]
                            /\ m.first <= k.first /\ k.last <= m.last
                            /\ \/ s = x /\ m = h /\ k = r
                               \/ ~(s = x /\ m = h) /\ k = m
<1>8. ASSUME NEW k \in O PROVE \E s \in SegId : \E m \in subsegment[s][j] : From(k, s, m)
  <2>1. CASE k = r
    <3>1. From(r, x, h)
      BY <1>4, <1>5, <1>6
    <3> QED
      BY <1>0, <1>4, <2>1, <3>1
  <2>2. CASE k \in C /\ k # h
    <3>1. k.first <= k.first /\ k.last <= k.last
      BY <1>0, <1>2, <2>2
    <3> QED
      BY <1>0, <2>2, <3>1
  <2>3. ASSUME NEW u \in SegId, u > x, k \in subsegment[u][j]
        PROVE  \E s \in SegId : \E m \in subsegment[s][j] : From(k, s, m)
    <3>1. k.first <= k.first /\ k.last <= k.last
      BY <1>2, <2>3
    <3>2. u # x
      BY <1>0, <2>3
    <3>3. From(k, u, k)
      BY <2>3, <3>1, <3>2
    <3> QED
      BY <2>3, <3>3
  <2> QED
    BY <1>7, <2>1, <2>2, <2>3
<1>9. O \in SUBSET Chunk /\ O # {}
  <2>1. O \subseteq Chunk
    BY <1>0, <1>1, <1>6, <1>7
  <2>2. r \in O
    BY <1>7
  <2> QED
    BY <2>1, <2>2
<1> HIDE DEF O, r, h
<1>10. \A k \in O : k.first \in Int /\ k.last \in Int /\ k.first <= k.last
  BY <1>9, ChunkBounds
<1>11. AllApart(O)
  <2> SUFFICES ASSUME NEW k \in O, NEW l \in O PROVE k = l \/ Apart(k, l)
    BY DEF AllApart
  <2>1. PICK s \in SegId : \E m \in subsegment[s][j] : From(k, s, m)
    BY <1>8
  <2>2. PICK m \in subsegment[s][j] : From(k, s, m)
    BY <2>1
  <2>3. PICK u \in SegId : \E p \in subsegment[u][j] : From(l, u, p)
    BY <1>8
  <2>4. PICK p \in subsegment[u][j] : From(l, u, p)
    BY <2>3
  <2>5. CASE s = u /\ m = p
    BY <2>2, <2>4, <2>5
  <2>6. CASE ~(s = u /\ m = p)
    <3>1. Apart(m, p)
      BY <2>6 DEF Disjoint
    <3>2. m.first <= k.first /\ k.last <= m.last /\ p.first <= l.first /\ l.last <= p.last
      BY <2>2, <2>4
    <3>3. /\ k.first \in Int /\ k.last \in Int /\ l.first \in Int /\ l.last \in Int
          /\ m.first \in Int /\ m.last \in Int /\ p.first \in Int /\ p.last \in Int
      BY <1>2, <1>10
    <3> QED
      BY <3>1, <3>2, <3>3 DEF Apart
  <2> QED
    BY <2>5, <2>6
<1>12. ASSUME NEW k \in C, k # h PROVE k.first > h.last
  <2>1. Apart(h, k)
    BY <1>0, <1>4, <1>12 DEF Disjoint
  <2> QED
    BY <1>0, <1>2, <1>4, <1>5, <1>12, <2>1 DEF Apart
<1>13. ASSUME NEW b \in Byte, In(b, O) PROVE b \in Owed(j)
  <2>0. b \in Int
    BY DEF Byte
  <2>1. PICK k \in O : k.first <= b /\ b <= k.last
    BY <1>13 DEF In
  <2>2. CASE k = r
    <3>1. b \in h.first .. h.last /\ ~(b < cb)
      BY <1>0, <1>5, <1>6, <2>0, <2>1, <2>2
    <3> QED
      BY <1>0, <1>4, <3>1 DEF Owed
  <2>3. CASE k \in C /\ k # h
    <3>1. k.first > h.last
      BY <1>12, <2>3
    <3>2. b \in k.first .. k.last /\ ~(b < cb)
      BY <1>0, <1>5, <1>10, <2>0, <2>1, <3>1
    <3> QED
      BY <1>0, <2>3, <3>2 DEF Owed
  <2>4. ASSUME NEW u \in SegId, u > x, k \in subsegment[u][j] PROVE b \in Owed(j)
    <3>1. b \in k.first .. k.last /\ u # x
      BY <1>0, <1>10, <2>0, <2>1, <2>4
    <3> QED
      BY <2>4, <3>1 DEF Owed
  <2> QED
    BY <1>7, <2>2, <2>3, <2>4
<1>14. ASSUME NEW b \in Byte, b \in Owed(j) PROVE In(b, O)
  <2>0. b \in Int
    BY DEF Byte
  <2>1. PICK s \in SegId : \E k \in subsegment[s][j] :
          b \in k.first .. k.last /\ ~(s = x /\ b < cb)
    BY <1>14 DEF Owed
  <2>2. PICK k \in subsegment[s][j] :
          b \in k.first .. k.last /\ ~(s = x /\ b < cb)
    BY <2>1
  <2>3. k.first <= b /\ b <= k.last
    BY <1>2, <2>0, <2>2
  <2>4. s = x \/ s > x
    BY <1>0, <1>3, <2>2
  <2>5. CASE s > x
    BY <1>7, <2>2, <2>3, <2>5 DEF In
  <2>6. CASE s = x /\ k # h
    BY <1>7, <2>2, <2>3, <2>6 DEF In
  <2>7. CASE s = x /\ k = h
    <3>1. r \in O
      BY <1>7
    <3>2. r.first <= b /\ b <= r.last
      BY <1>0, <1>6, <2>0, <2>2, <2>3, <2>7
    <3> QED
      BY <3>1, <3>2 DEF In
  <2> QED
    BY <2>4, <2>5, <2>6, <2>7
<1>15. \A k \in O : \E s \in SegId : \E m \in subsegment[s][j] :
         m.first <= k.first /\ k.last <= m.last
  BY <1>8
<1> QED
  BY <1>9, <1>11, <1>13, <1>14, <1>15 DEF O

Extra(n) == IF n = 0 THEN {}
            ELSE {[first |-> last_seg_offset + 1, last |-> last_seg_offset + n]}
Reach(all) == CHOOSE b \in Bytes(all) : \A k \in all : k.last <= b

\* The chunks that recovery divides: what the link owes and the next n bytes.
LEMMA RecoveredOnce ==
  ASSUME TypeOK, Disjoint, Placed, Positioned, NEW j \in Conn,
         connection[j] # NULL, ~Done(j), NEW n \in RecoverySizes,
         NEW all, all = Outstanding(j) \cup Extra(n)
  PROVE  /\ all \in SUBSET Chunk /\ AllApart(all)
         /\ \A b \in Byte : In(b, all) <=>
              \/ b \in Owed(j)
              \/ last_seg_offset < b /\ b <= last_seg_offset + n
         /\ \A k \in all :
              \/ \E s \in SegId : \E m \in subsegment[s][j] :
                   m.first <= k.first /\ k.last <= m.last
              \/ last_seg_offset < k.first /\ k.last <= last_seg_offset + n
         /\ Reach(all) \in Byte
         /\ (IF Reach(all) > last_seg_offset THEN Reach(all)
             ELSE last_seg_offset) = last_seg_offset + n
<1> DEFINE O == Outstanding(j)
           e == [first |-> last_seg_offset + 1, last |-> last_seg_offset + n]
<1>0. /\ n \in Int /\ 0 <= n /\ last_seg_offset + n <= Size - 1
      /\ last_seg_offset \in Int /\ 0 <= last_seg_offset /\ Size \in Int
  BY SizesBounded, LinkBounds
<1>1. /\ O \in SUBSET Chunk /\ O # {} /\ AllApart(O)
      /\ \A b \in Byte : In(b, O) <=> b \in Owed(j)
      /\ \A k \in O : \E s \in SegId : \E m \in subsegment[s][j] :
           m.first <= k.first /\ k.last <= m.last
  BY OutstandingOwed
<1> HIDE DEF O
<1>2. all = O \cup Extra(n)
  BY DEF O
<1>3. ASSUME NEW k \in O PROVE k.last <= last_seg_offset
  <2>1. PICK s \in SegId : \E m \in subsegment[s][j] :
          m.first <= k.first /\ k.last <= m.last
    BY <1>1
  <2>2. PICK m \in subsegment[s][j] : m.first <= k.first /\ k.last <= m.last
    BY <2>1
  <2>3. m.last <= last_seg_offset
    BY <2>2 DEF Placed
  <2>4. m \in Chunk /\ k \in Chunk
    BY <1>1, <2>2 DEF TypeOK
  <2>5. m.last \in Int /\ k.last \in Int
    BY <2>4, ChunkBounds
  <2> QED
    BY <1>0, <2>2, <2>3, <2>5
<1>4. \A k \in Extra(n) : k = e /\ 1 <= n
  BY <1>0 DEF Extra
<1>5. Extra(n) \subseteq Chunk
  <2>1. 1 <= n => e \in Chunk
    BY <1>0, ChunkBounds
  <2> QED
    BY <1>4, <2>1
<1>6. all \in SUBSET Chunk /\ all # {}
  BY <1>1, <1>2, <1>5
<1>7. \A k \in O : k.first \in Int /\ k.last \in Int
  BY <1>1, ChunkBounds
<1>8. \A k \in O, m \in Extra(n) : Apart(k, m) /\ Apart(m, k)
  BY <1>0, <1>3, <1>4, <1>7 DEF Apart
<1>9. AllApart(all)
  BY <1>1, <1>2, <1>4, <1>8 DEF AllApart
<1>10. \A b \in Int : In(b, Extra(n)) <=>
         last_seg_offset < b /\ b <= last_seg_offset + n
  <2>1. CASE n = 0
    BY <1>0, <2>1 DEF Extra, In
  <2>2. CASE n # 0
    <3>1. Extra(n) = {e}
      BY <2>2 DEF Extra
    <3>2. \A b \in Int : In(b, {e}) <=> e.first <= b /\ b <= e.last
      BY DEF In
    <3> QED
      BY <1>0, <3>1, <3>2
  <2> QED
    BY <2>1, <2>2
<1>11. \A b : In(b, all) <=> In(b, O) \/ In(b, Extra(n))
  BY <1>2 DEF In
<1>12. ASSUME NEW b \in Byte
       PROVE  In(b, all) <=> \/ b \in Owed(j)
                             \/ last_seg_offset < b /\ b <= last_seg_offset + n
  <2>1. b \in Int
    BY DEF Byte
  <2> QED
    BY <1>1, <1>10, <1>11, <2>1
<1>13. ASSUME NEW k \in all
       PROVE  \/ \E s \in SegId : \E m \in subsegment[s][j] :
                   m.first <= k.first /\ k.last <= m.last
              \/ last_seg_offset < k.first /\ k.last <= last_seg_offset + n
  <2>1. CASE k \in O
    BY <1>1, <2>1
  <2>2. CASE k \in Extra(n)
    BY <1>0, <1>4, <2>2
  <2> QED
    BY <1>2, <2>1, <2>2
<1>14. /\ Bytes(all) \subseteq Byte /\ Bytes(all) # {}
       /\ \A b \in Int : b \in Bytes(all) <=> In(b, all)
  BY <1>6, BytesIn
<1>15. \A k \in all : /\ k.last \in Int /\ k.first \in Int /\ k.first <= k.last
                      /\ k.last \in Bytes(all)
  <2>1. \A k \in all : k.last \in Int /\ k.first \in Int /\ k.first <= k.last
    BY <1>6, ChunkBounds
  <2>2. \A k \in all : In(k.last, all)
    BY <2>1 DEF In
  <2> QED
    BY <1>14, <2>1, <2>2
<1>16. /\ Reach(all) \in Bytes(all)
       /\ \A k \in all : k.last <= Reach(all)
  <2>1. \E g \in Bytes(all) : \A b \in Bytes(all) : b <= g
    BY <1>14, GreatestByte
  <2>2. \E g \in Bytes(all) : \A k \in all : k.last <= g
    BY <1>15, <2>1
  <2> QED
    BY <2>2 DEF Reach
<1>17. Reach(all) \in Byte /\ Reach(all) \in Int
  <2>1. Byte \subseteq Int
    BY <1>0 DEF Byte
  <2>2. Reach(all) \in Byte
    BY <1>14, <1>16
  <2> HIDE DEF Byte
  <2> QED
    BY <2>1, <2>2
<1>18. Reach(all) <= last_seg_offset + n
  <2>1. In(Reach(all), O) \/ In(Reach(all), Extra(n))
    BY <1>11, <1>14, <1>16, <1>17
  <2>2. CASE In(Reach(all), Extra(n))
    BY <1>10, <1>17, <2>2
  <2>3. CASE In(Reach(all), O)
    <3>1. PICK k \in O : Reach(all) <= k.last
      BY <2>3 DEF In
    <3> QED
      BY <1>0, <1>3, <1>7, <1>17, <3>1
  <2> QED
    BY <2>1, <2>2, <2>3
<1>19. n # 0 => last_seg_offset + n <= Reach(all)
  <2>1. n # 0 => e \in all
    BY <1>2 DEF Extra
  <2> QED
    BY <1>16, <2>1
<1>20. (IF Reach(all) > last_seg_offset THEN Reach(all) ELSE last_seg_offset)
         = last_seg_offset + n
  BY <1>0, <1>17, <1>18, <1>19
<1> QED
  BY <1>6, <1>9, <1>12, <1>13, <1>17, <1>20

\* perform_recovery keeps every variable in its type, and the recovery
\* segment takes the next identifier.
LEMMA RedividesTypes ==
  ASSUME Bookkeeping, NEW i \in Conn, segment_count < MaxSegments, Scheduling(i),
         NEW all, NEW share \in [Conn -> SUBSET Chunk], Reach(all) \in Byte,
         Redivides(i, all, share)
  PROVE  /\ TypeOK'
         /\ segment_count' = segment_count + 1
         /\ last_seg_offset' = IF Reach(all) > last_seg_offset THEN Reach(all)
                               ELSE last_seg_offset
         /\ \A s \in SegId, c \in Conn :
              subsegment'[s][c] = IF s = segment_count + 1 THEN share[c]
                                  ELSE IF c = i THEN subsegment[s][c] ELSE {}
<1> DEFINE j == Other(i)
           t == segment_count + 1
           without == [s \in SegId |-> [subsegment[s] EXCEPT ![j] = {}]]
           resumes == share[j] # {}
           h == FirstChunk(share[j])
<1>0. TypeOK /\ Placed /\ Positioned
  BY DEF Bookkeeping
<1>1. j \in Conn /\ j # i /\ \A c \in Conn : c = i \/ c = j
  BY DEF Other, Conn
<1>2. t \in SegId
  BY <1>0, NewSegmentIsNew
<1>3. /\ without \in [SegId -> [Conn -> SUBSET Chunk]]
      /\ \A s \in SegId, c \in Conn :
           without[s][c] = IF c = i THEN subsegment[s][c] ELSE {}
  <2>1. subsegment \in [SegId -> [Conn -> SUBSET Chunk]]
    BY <1>0 DEF TypeOK
  <2> HIDE DEF j
  <2> QED
    BY <1>1, <2>1
<1>4. /\ AddsSegment(t, without, share, TRUE, Reach(all))
      /\ \E d : DeletesHeads(without, d)
  BY DEF Redivides, Reach
<1>5. /\ segment_count' = t
      /\ subsegment' \in [SegId -> [Conn -> SUBSET Chunk]]
      /\ \A s \in SegId : subsegment'[s] = IF s = t THEN share ELSE without[s]
      /\ subseg_size' \in [SegId -> [Conn -> Nat]]
      /\ segment' \in [SegId -> [recovery_segment : BOOLEAN,
                                 last : -1 .. Size - 1]]
      /\ last_seg_offset' \in Byte
      /\ last_seg_offset' = IF Reach(all) > last_seg_offset THEN Reach(all)
                            ELSE last_seg_offset
  <2> HIDE DEF t, without
  <2> QED
    BY <1>0, <1>2, <1>3, <1>4, AddsTypes
<1>6. completed_segment_count' \in 0 .. segment_count'
  <2>1. completed_segment_count' \in completed_segment_count .. segment_count
    BY <1>4 DEF DeletesHeads
  <2>2. completed_segment_count \in 0 .. segment_count
    BY <1>0 DEF TypeOK
  <2> QED
    BY <1>0, <1>5, <2>1, <2>2, LinkBounds
<1>7. net' \in [Conn -> Socketed]
  <2>1. \A c \in Conn : /\ net[c] \in Socketed /\ share[c] \in SUBSET Chunk
                        /\ Disconnected(net[c]) \in Socketed
    BY <1>0, LinkBounds, FreshSockets DEF Disconnected
  <2>2. /\ Sent(net[i], share[i]) \in Socketed
        /\ Sent(Disconnected(net[j]), share[j]) \in Socketed
    BY <1>1, <2>1, SentType
  <2>3. HeaderRead(Sent(Disconnected(net[j]), share[j])) \in Socketed
    BY <2>2, HeaderReadType
  <2>4. net' = [c \in Conn |-> IF c = i THEN Sent(net[i], share[i])
                               ELSE IF resumes
                               THEN HeaderRead(Sent(Disconnected(net[j]), share[j]))
                               ELSE Disconnected(net[j])]
    BY DEF Redivides
  <2> HIDE DEF j
  <2> QED
    BY <1>1, <2>1, <2>2, <2>3, <2>4
<1>8. resumes => h.first \in 0 .. Size /\ h.last \in 0 .. Size - 1
  <2>1. share[j] \subseteq Chunk
    BY <1>1
  <2>2. resumes => h \in Chunk
    BY <2>1, FirstChunkIsFirst
  <2>3. Size \in Int
    BY <1>0, LinkBounds
  <2> QED
    BY <2>2, <2>3, ChunkBounds
<1>9. /\ connection' \in [Conn -> SegId \cup {NULL}]
      /\ currentbyte' \in [Conn -> 0 .. Size]
      /\ lastbyte' \in [Conn -> 0 .. Size - 1]
  <2>1. /\ connection' = [connection EXCEPT ![j] = IF resumes THEN t ELSE NULL]
        /\ currentbyte' = [currentbyte EXCEPT ![j] = IF resumes THEN h.first ELSE 1]
        /\ lastbyte' = [lastbyte EXCEPT ![j] = IF resumes THEN h.last ELSE 0]
    BY DEF Redivides
  <2>2. /\ connection \in [Conn -> SegId \cup {NULL}]
        /\ currentbyte \in [Conn -> 0 .. Size]
        /\ lastbyte \in [Conn -> 0 .. Size - 1]
    BY <1>0 DEF TypeOK
  <2>3. 1 \in 0 .. Size /\ 0 \in 0 .. Size - 1
    BY <1>0, LinkBounds
  <2> HIDE DEF h, j, t
  <2> QED
    BY <1>1, <1>2, <1>8, <2>1, <2>2, <2>3
<1>10. /\ state' \in [Conn -> {0, 1}]
       /\ pipeline_requests_sent' \in [Conn -> BOOLEAN]
       /\ enabled' \in [Conn -> BOOLEAN]
       /\ last_segment_flag' \in [Conn -> BOOLEAN]
  <2>1. /\ state \in [Conn -> {0, 1}]
        /\ pipeline_requests_sent \in [Conn -> BOOLEAN]
        /\ enabled \in [Conn -> BOOLEAN]
        /\ last_segment_flag \in [Conn -> BOOLEAN]
    BY <1>0 DEF TypeOK
  <2>2. /\ state' = [c \in Conn |-> IF share[c] = {} THEN state[c]
                                    ELSE IF c = j THEN 0 ELSE 1]
        /\ pipeline_requests_sent' =
             [c \in Conn |-> IF c = j THEN pipeline_requests_sent[j] /\ ~resumes
                             ELSE pipeline_requests_sent[c] \/ share[c] # {}]
        /\ enabled' = [enabled EXCEPT ![j] = resumes]
    BY DEF Redivides
  <2>3. last_segment_flag' \in [Conn -> BOOLEAN]
    BY DEF Redivides
  <2>4. resumes \in BOOLEAN
    OBVIOUS
  <2> HIDE DEF resumes, j
  <2> QED
    BY <1>1, <2>1, <2>2, <2>3, <2>4
<1>11. /\ inorder_offset' \in 0 .. Size
       /\ conn_idle' \in [Conn -> BOOLEAN]
       /\ pc' \in {"exited", AfterSchedule(i)}
  <2>1. Reestimated(without) /\ conn_idle' = ReestimatedIdle
        /\ pc' \in {"exited", AfterSchedule(i)}
    BY DEF Redivides
  <2> HIDE DEF without
  <2> QED
    BY <1>0, <1>3, <2>1, ReestimatedType
<1>12. UNCHANGED <<fileVars, link_mode, threadVars, at, failures>>
  BY DEF Redivides
<1>13. TypeOK'
  <2> HIDE DEF t
  <2> QED
    BY <1>0, <1>2, <1>5, <1>6, <1>7, <1>9, <1>10, <1>11, <1>12
       DEF TypeOK, fileVars, AfterSchedule
<1>14. \A s \in SegId, c \in Conn :
         subsegment'[s][c] = IF s = t THEN share[c]
                             ELSE IF c = i THEN subsegment[s][c] ELSE {}
  <2> HIDE DEF t, without
  <2> QED
    BY <1>3, <1>5
<1> QED
  BY <1>5, <1>13, <1>14

\* perform_recovery: the other link gives up all its chunks, and what it owed
\* is divided between both links in a segment of its own.
LEMMA RecoverStep ==
  ASSUME Bookkeeping, NEW i \in Conn, Recover(i)
  PROVE  Bookkeeping'
<1> DEFINE j == Other(i)
           t == segment_count + 1
<1>0. /\ TypeOK /\ Covered /\ Disjoint /\ Placed /\ Positioned /\ Flagged
      /\ Handled /\ Scheduling(i) /\ segment_count < MaxSegments
      /\ connection[j] # NULL
  BY DEF Bookkeeping, EachByteOnce, Recover, ConsidersRecovery, Proceeds
<1>1. j \in Conn /\ j # i /\ \A c \in Conn : c = i \/ c = j
  BY DEF Other, Conn
<1>2. connection[i] # NULL /\ at = i /\ ~Done(j)
  BY <1>0, <1>1 DEF Handled, Scheduling, Stopped
<1>3. PICK n \in RecoverySizes :
        \E cut \in Bytes(Outstanding(j) \cup Extra(n)) \cup {Size} :
          Redivides(i, Outstanding(j) \cup Extra(n),
                    Division(Outstanding(j) \cup Extra(n), i, cut))
  BY DEF Recover, Extra
<1> DEFINE all == Outstanding(j) \cup Extra(n)
<1>4. PICK cut \in Bytes(all) \cup {Size} : Redivides(i, all, Division(all, i, cut))
  BY <1>3
<1> DEFINE share == Division(all, i, cut)
           resumes == share[j] # {}
<1>5. /\ all \in SUBSET Chunk /\ AllApart(all)
      /\ \A b \in Byte : In(b, all) <=>
           \/ b \in Owed(j)
           \/ last_seg_offset < b /\ b <= last_seg_offset + n
      /\ \A k \in all :
           \/ \E s \in SegId : \E m \in subsegment[s][j] :
                m.first <= k.first /\ k.last <= m.last
           \/ last_seg_offset < k.first /\ k.last <= last_seg_offset + n
      /\ Reach(all) \in Byte
      /\ (IF Reach(all) > last_seg_offset THEN Reach(all)
          ELSE last_seg_offset) = last_seg_offset + n
  <2> HIDE DEF j
  <2> QED
    BY <1>0, <1>1, <1>2, RecoveredOnce
<1> HIDE DEF all
<1>6. cut \in Int
  <2>1. Bytes(all) \subseteq Byte
    BY <1>5, BytesIn
  <2>2. Byte \subseteq Int /\ Size \in Int
    BY <1>0, LinkBounds DEF Byte
  <2> QED
    BY <2>1, <2>2
<1>7. /\ share \in [Conn -> SUBSET Chunk]
      /\ \A c \in Conn : AllApart(share[c])
      /\ \A c, d \in Conn : c # d =>
           \A k \in share[c], m \in share[d] : Apart(k, m)
      /\ \A b \in Int : In(b, all) <=> \E c \in Conn : In(b, share[c])
      /\ \A c \in Conn : \A k \in share[c] : \E m \in all :
           m.first <= k.first /\ k.last <= m.last
  BY <1>5, <1>6, DivisionOnce
<1> HIDE DEF share
<1>8. Redivides(i, all, share)
  BY <1>4 DEF share
<1>9. /\ TypeOK'
      /\ segment_count' = t
      /\ last_seg_offset' = last_seg_offset + n
      /\ \A s \in SegId, c \in Conn :
           subsegment'[s][c] = IF s = t THEN share[c]
                               ELSE IF c = i THEN subsegment[s][c] ELSE {}
  BY <1>0, <1>5, <1>7, <1>8, RedividesTypes
<1>10. /\ t \in SegId
       /\ \A c \in Conn : /\ subsegment[t][c] = {}
                          /\ connection[c] < t /\ connection[c] # t
  BY <1>0, NewSegmentIsNew
<1>11. /\ n \in Int /\ 0 <= n /\ last_seg_offset + n <= Size - 1
       /\ last_seg_offset \in Int
       /\ segment_count \in Int /\ \A s \in SegId : s \in Int /\ s # NULL
  BY <1>0, SizesBounded, LinkBounds
<1>12. /\ connection'[i] = connection[i] /\ currentbyte'[i] = currentbyte[i]
       /\ lastbyte'[i] = lastbyte[i]
       /\ connection'[j] = IF resumes THEN t ELSE NULL
       /\ currentbyte'[j] = IF resumes THEN FirstChunk(share[j]).first ELSE 1
       /\ lastbyte'[j] = IF resumes THEN FirstChunk(share[j]).last ELSE 0
  <2>1. /\ connection' = [connection EXCEPT ![j] = IF resumes THEN t ELSE NULL]
        /\ currentbyte' = [currentbyte EXCEPT
             ![j] = IF resumes THEN FirstChunk(share[j]).first ELSE 1]
        /\ lastbyte' = [lastbyte EXCEPT
             ![j] = IF resumes THEN FirstChunk(share[j]).last ELSE 0]
    BY <1>8 DEF Redivides
  <2>2. /\ connection \in [Conn -> SegId \cup {NULL}]
        /\ currentbyte \in [Conn -> 0 .. Size]
        /\ lastbyte \in [Conn -> 0 .. Size - 1]
    BY <1>0 DEF TypeOK
  <2> HIDE DEF resumes, j, t
  <2> QED
    BY <1>1, <2>1, <2>2
<1>13. pipeline_requests_sent'[i] <=> pipeline_requests_sent[i] \/ share[i] # {}
  BY <1>1, <1>8 DEF Redivides
<1>14. /\ disk' = disk /\ at' = at
       /\ pc' \in {"exited", AfterSchedule(i)}
  BY <1>8 DEF Redivides, fileVars
<1> HIDE DEF j, t
<1>15. \A s \in SegId : /\ subsegment'[s][j] = IF s = t THEN share[j] ELSE {}
                        /\ subsegment'[s][i] = IF s = t THEN share[i]
                                               ELSE subsegment[s][i]
  BY <1>1, <1>9
<1>16. resumes => /\ AtItsChunk(j)'
                  /\ ~Done(j)'
                  /\ NextSegments(subsegment', connection'[j], j) = {}
  <2>1. /\ j \in Conn /\ t \in SegId
        /\ share[j] \in SUBSET Chunk /\ AllApart(share[j])
        /\ \A s \in SegId : subsegment'[s][j] = IF s = t THEN share[j] ELSE {}
    BY <1>1, <1>7, <1>10, <1>15
  <2>2. resumes => /\ share[j] # {}
                   /\ connection'[j] = t
                   /\ currentbyte'[j] = FirstChunk(share[j]).first
                   /\ lastbyte'[j] = FirstChunk(share[j]).last
    BY <1>12
  <2> HIDE DEF resumes
  <2> QED
    BY <2>1, <2>2, StartsAtChunk
<1>17. ~resumes => \A s \in SegId : subsegment'[s][j] = {}
  BY <1>15
<1>18. ASSUME NEW b \in Byte PROVE b \in Owed(j)' <=> In(b, share[j])
  <2>1. subsegment' \in [SegId -> [Conn -> SUBSET Chunk]]
    BY <1>9 DEF TypeOK
  <2>2. connection'[j] \in SegId =>
          /\ subsegment'[connection'[j]][j] # {}
          /\ currentbyte'[j] = FirstChunk(subsegment'[connection'[j]][j]).first
    BY <1>10, <1>11, <1>12, <1>15
  <2>3. b \in Owed(j)' <=> \E s \in SegId : In(b, subsegment'[s][j])
    BY <1>1, <2>1, <2>2, OwedAtStart
  <2>4. ~In(b, {})
    BY DEF In
  <2> QED
    BY <1>10, <1>15, <2>3, <2>4
<1>19. ASSUME NEW b \in Byte PROVE b \in Owed(i)' <=> b \in Owed(i) \/ In(b, share[i])
  <2>1. share[i] \in SUBSET Chunk
    BY <1>7
  <2> QED
    BY <1>0, <1>10, <1>12, <1>15, <2>1, OwedGrows
<1>20. Covered'
  <2>1. ASSUME NEW b \in Byte
        PROVE  (\E c \in Conn : b \in Owed(c)') <=>
                 \/ \E c \in Conn : b \in Owed(c)
                 \/ last_seg_offset < b /\ b <= last_seg_offset + n
    <3>1. b \in Int
      BY DEF Byte
    <3>2. In(b, share[i]) \/ In(b, share[j]) <=>
            b \in Owed(j) \/ (last_seg_offset < b /\ b <= last_seg_offset + n)
      BY <1>1, <1>5, <1>7, <3>1
    <3> QED
      BY <1>1, <1>18, <1>19, <3>2
  <2> QED
    BY <1>0, <1>9, <1>11, <1>14, <2>1, CoveredAfter
<1>21. Disjoint'
  <2>1. ASSUME NEW s \in SegId, NEW c \in Conn, NEW d \in Conn, s # t,
               NEW k \in subsegment'[s][c], NEW m \in share[d]
        PROVE  Apart(k, m)
    <3>1. c = i /\ k \in subsegment[s][i]
      BY <1>9, <2>1
    <3>2. k.last <= last_seg_offset /\ k \in Chunk
      BY <1>0, <3>1 DEF Placed, TypeOK
    <3>3. PICK p \in all : p.first <= m.first /\ m.last <= p.last
      BY <1>7
    <3>4. /\ k.first \in Int /\ k.last \in Int /\ m.first \in Int
          /\ m.last \in Int /\ p.first \in Int /\ p.last \in Int
      <4>1. m \in Chunk /\ p \in Chunk
        BY <1>5, <1>7
      <4> QED
        BY <3>2, <4>1, ChunkBounds
    <3>5. CASE last_seg_offset < p.first
      BY <1>11, <3>2, <3>3, <3>4, <3>5 DEF Apart
    <3>6. ASSUME NEW u \in SegId, NEW q \in subsegment[u][j],
                 q.first <= p.first, p.last <= q.last
          PROVE  Apart(k, m)
      <4>1. Apart(k, q)
        BY <1>0, <1>1, <3>1 DEF Disjoint
      <4>2. q \in Chunk
        BY <1>0, <1>1 DEF TypeOK
      <4>3. q.first \in Int /\ q.last \in Int
        BY <4>2, ChunkBounds
      <4> QED
        BY <3>3, <3>4, <3>6, <4>1, <4>3 DEF Apart
    <3> QED
      BY <1>5, <3>5, <3>6
  <2>2. \A s \in SegId, c \in Conn :
          IF s = t THEN subsegment'[s][c] = share[c]
          ELSE subsegment'[s][c] \subseteq subsegment[s][c]
    BY <1>9
  <2> QED
    BY <1>0, <1>7, <1>10, <2>1, <2>2, DisjointAfter
<1>22. Placed'
  <2> SUFFICES ASSUME NEW s \in SegId, NEW c \in Conn, NEW k \in subsegment'[s][c]
               PROVE  s <= segment_count + 1 /\ k.last <= last_seg_offset + n
    BY <1>9 DEF Placed, t
  <2>1. CASE s # t
    <3>1. k \in subsegment[s][c]
      BY <1>9, <2>1
    <3>2. s <= segment_count /\ k.last <= last_seg_offset
      BY <1>0, <3>1 DEF Placed
    <3>3. k \in Chunk
      BY <1>0, <3>1 DEF TypeOK
    <3>4. s \in Int /\ k.last \in Int
      BY <1>11, <3>3, ChunkBounds
    <3> QED
      BY <1>11, <3>2, <3>4
  <2>2. CASE s = t
    <3>1. k \in share[c]
      BY <1>9, <2>2
    <3>2. PICK p \in all : p.first <= k.first /\ k.last <= p.last
      BY <1>7, <3>1
    <3>3. k \in Chunk /\ p \in Chunk
      BY <1>5, <1>7, <3>1
    <3>4. k.last \in Int /\ p.last \in Int
      BY <3>3, ChunkBounds
    <3>5. p.last <= last_seg_offset + n
      <4>1. ASSUME NEW u \in SegId, NEW q \in subsegment[u][j], p.last <= q.last
            PROVE  p.last <= last_seg_offset + n
        <5>1. q.last <= last_seg_offset /\ q \in Chunk
          BY <1>0, <1>1 DEF Placed, TypeOK
        <5>2. q.last \in Int
          BY <5>1, ChunkBounds
        <5> QED
          BY <1>11, <3>4, <4>1, <5>1, <5>2
      <4> QED
        BY <1>5, <4>1
    <3> QED
      BY <1>11, <2>2, <3>2, <3>4, <3>5 DEF t
  <2> QED
    BY <2>1, <2>2
<1>23. AtItsChunk(j)'
  <2>1. CASE resumes
    BY <1>16, <2>1
  <2>2. CASE ~resumes
    BY <1>12, <1>17, <2>2 DEF AtItsChunk
  <2> QED
    BY <2>1, <2>2
<1>24. AtItsChunk(i)'
  <2>1. AtItsChunk(i)
    BY <1>0 DEF Positioned
  <2> QED
    BY <1>0, <1>2, <1>10, <1>12, <1>15, <2>1, KeepsPlace
<1>25. ASSUME NEW c \in Conn, connection'[c] # NULL, ~pipeline_requests_sent'[c]
       PROVE  NextSegments(subsegment', connection'[c], c) = {}
  <2>1. CASE c = j
    BY <1>12, <1>16, <1>25, <2>1
  <2>2. CASE c = i
    <3>1. ~pipeline_requests_sent[i] /\ share[i] = {}
      BY <1>13, <1>25, <2>2
    <3>2. \A s \in SegId : subsegment'[s][i] = subsegment[s][i]
      BY <1>10, <1>15, <3>1
    <3> QED
      BY <1>0, <1>2, <1>12, <2>2, <3>1, <3>2, KeepsFlag
  <2> QED
    BY <1>1, <2>1, <2>2
<1>26. Placing'
  <2>1. Positioned'
    BY <1>1, <1>23, <1>24 DEF Positioned
  <2> QED
    BY <1>20, <1>21, <1>22, <1>25, <2>1 DEF Placing, EachByteOnce, Flagged
<1>27. Handled'
  <2>1. \A c \in Conn : c # i /\ connection'[c] # NULL => ~Done(c)'
    BY <1>1, <1>12, <1>16
  <2> QED
    BY <1>0, <1>12, <1>14, <2>1, AddsHandled
<1> QED
  BY <1>9, <1>26, <1>27, KeepsBookkeeping
-----------------------------------------------------------------------------
(* The engine as a whole                                                   *)

\* gb_open: the first segment is divided, and each link is at its part.
LEMMA InitBookkeeping == Init => Bookkeeping
<1> SUFFICES ASSUME Init PROVE Bookkeeping
  OBVIOUS
<1> DEFINE all == {[first |-> 0, last |-> InitSegSize - 1]}
           from(cut, c) == IF c = 0 THEN 0 ELSE cut
           upto(cut, c) == IF c = 0 THEN cut - 1 ELSE InitSegSize - 1
           Share(cut) == [c \in Conn |-> IF c = 0 THEN Below(all, cut)
                                         ELSE Above(all, cut)]
<1>1. PICK cut \in 1 .. InitSegSize - 1 :
        /\ segment_count = 1 /\ completed_segment_count = 0
        /\ segment = [s \in SegId |->
                        IF s = 1 THEN [recovery_segment |-> FALSE,
                                       last |-> InitSegSize - 1]
                        ELSE NoSegment]
        /\ subsegment = [s \in SegId |-> IF s = 1 THEN Share(cut)
                                         ELSE NoSubsegment]
        /\ subseg_size = [s \in SegId |-> [c \in Conn |->
                            IF s = 1 THEN upto(cut, c) - from(cut, c) + 1
                            ELSE 0]]
        /\ connection = [c \in Conn |-> 1]
        /\ last_seg_offset = InitSegSize - 1
        /\ currentbyte = [c \in Conn |-> from(cut, c)]
        /\ lastbyte = [c \in Conn |-> upto(cut, c)]
        /\ net = [c \in Conn |->
                    IF Connected
                    THEN [Open EXCEPT !.response = [first |-> from(cut, c),
                                                    last |-> upto(cut, c)]]
                    ELSE IF c = 0 THEN Closed ELSE Unset]
  BY DEF Init
<1>2. /\ conn_idle = [c \in Conn |-> FALSE] /\ link_mode = DUAL_LINK_MODE
      /\ inorder_offset = 0 /\ bytes_done = 0
      /\ enabled = [c \in Conn |-> Connected]
      /\ state = [c \in Conn |-> IF Connected THEN 0 ELSE 1]
      /\ pipeline_requests_sent = [c \in Conn |-> FALSE]
      /\ last_segment_flag = [c \in Conn |-> InitSegSize = Size]
      /\ disk = [b \in Byte |-> NoByte]
      /\ thread = [c \in Conn |-> IF Connected THEN "none" ELSE "setup"]
      /\ range = [c \in Conn |-> NoRange] /\ NoRange \in Chunk
      /\ pc = "select" /\ at = 0 /\ failures = 0
  <2>1. NoRange \in Chunk
    BY SizeAssumption, ChunkBounds DEF NoRange
  <2> QED
    BY <2>1 DEF Init
<1>3. /\ Size \in Int /\ Size >= 1 /\ InitSegSize \in Int /\ InitSegSize <= Size
      /\ cut \in Int /\ 1 <= cut /\ cut <= InitSegSize - 1
      /\ MaxSegments \in Int /\ MaxSegments >= 1
      /\ Connected \in BOOLEAN /\ MaxFailures \in Nat
  BY SizeAssumption, InitSegAssumption, BoundAssumption, ModeAssumption
<1>4. ASSUME NEW c \in Conn
      PROVE  /\ from(cut, c) \in Int /\ upto(cut, c) \in Int
             /\ 0 <= from(cut, c) /\ from(cut, c) <= upto(cut, c)
             /\ upto(cut, c) <= InitSegSize - 1
             /\ Share(cut)[c] = {[first |-> from(cut, c), last |-> upto(cut, c)]}
  <2>1. c = 0 \/ c = 1
    BY DEF Conn
  <2>2. Below(all, cut) = {[first |-> 0, last |-> cut - 1]}
    <3>1. {m \in all : m.first < cut} = all
      BY <1>3
    <3>2. Below(all, cut) = {[first |-> k.first,
                              last |-> IF k.last < cut THEN k.last ELSE cut - 1] :
                               k \in all}
      BY <3>1 DEF Below
    <3>3. \A k \in all : k.first = 0
                       /\ (IF k.last < cut THEN k.last ELSE cut - 1) = cut - 1
      BY <1>3
    <3> QED
      BY <3>2, <3>3
  <2>3. Above(all, cut) = {[first |-> cut, last |-> InitSegSize - 1]}
    <3>1. {m \in all : m.last >= cut} = all
      BY <1>3
    <3>2. Above(all, cut) = {[first |-> IF k.first < cut THEN cut ELSE k.first,
                              last |-> k.last] : k \in all}
      BY <3>1 DEF Above
    <3>3. \A k \in all : (IF k.first < cut THEN cut ELSE k.first) = cut
                       /\ k.last = InitSegSize - 1
      BY <1>3
    <3> QED
      BY <3>2, <3>3
  <2> QED
    BY <1>3, <2>1, <2>2, <2>3
<1>5. all \in SUBSET Chunk /\ AllApart(all)
  BY <1>3, ChunkBounds DEF AllApart
<1> DEFINE share == Share(cut)
<1>6. /\ share \in [Conn -> SUBSET Chunk]
      /\ \A c \in Conn : AllApart(share[c])
      /\ \A c, d \in Conn : c # d =>
           \A k \in share[c], m \in share[d] : Apart(k, m)
      /\ \A b \in Int : In(b, all) <=> \E c \in Conn : In(b, share[c])
  <2>1. share = Division(all, 0, cut) /\ 0 \in Conn
    BY DEF Division, Conn
  <2> HIDE DEF share, all
  <2> QED
    BY <1>3, <1>5, <2>1, DivisionOnce
<1>7. 1 \in SegId /\ \A s \in SegId : s \in Int /\ s >= 1
  BY <1>3, BoundAssumption DEF SegId
<1>8. /\ subsegment \in [SegId -> [Conn -> SUBSET Chunk]]
      /\ \A s \in SegId, c \in Conn :
           subsegment[s][c] = IF s = 1 THEN share[c] ELSE {}
  <2>1. NoSubsegment \in [Conn -> SUBSET Chunk]
        /\ \A c \in Conn : NoSubsegment[c] = {}
    BY DEF NoSubsegment
  <2> HIDE DEF Share
  <2> QED
    BY <1>1, <1>6, <1>7, <2>1
<1>9. TypeOK
  <2>1. segment \in [SegId -> [recovery_segment : BOOLEAN, last : -1 .. Size - 1]]
    <3>1. /\ NoSegment \in [recovery_segment : BOOLEAN, last : -1 .. Size - 1]
          /\ [recovery_segment |-> FALSE, last |-> InitSegSize - 1] \in
               [recovery_segment : BOOLEAN, last : -1 .. Size - 1]
      BY <1>3 DEF NoSegment, NoByte
    <3> QED
      BY <1>1, <3>1
  <2>2. subseg_size \in [SegId -> [Conn -> Nat]]
    <3>1. \A c \in Conn : upto(cut, c) - from(cut, c) + 1 \in Nat
      BY <1>4
    <3> HIDE DEF from, upto
    <3> QED
      BY <1>1, <3>1
  <2>3. /\ currentbyte \in [Conn -> 0 .. Size]
        /\ lastbyte \in [Conn -> 0 .. Size - 1]
    <3>1. \A c \in Conn : from(cut, c) \in 0 .. Size /\ upto(cut, c) \in 0 .. Size - 1
      BY <1>3, <1>4
    <3> HIDE DEF from, upto
    <3> QED
      BY <1>1, <3>1
  <2>4. net \in [Conn -> Socketed]
    <3>1. ASSUME NEW c \in Conn
          PROVE  [Open EXCEPT !.response = [first |-> from(cut, c),
                                            last |-> upto(cut, c)]] \in Socketed
      <4>1. [first |-> from(cut, c), last |-> upto(cut, c)] \in
              [first : 0 .. Size, last : -1 .. Size - 1]
        BY <1>3, <1>4
      <4>2. Open \in Socketed
        BY FreshSockets
      <4> HIDE DEF from, upto
      <4> QED
        BY <4>1, <4>2 DEF Socketed
    <3>2. Closed \in Socketed /\ Unset \in Socketed
      BY FreshSockets
    <3> HIDE DEF from, upto
    <3> QED
      BY <1>1, <3>1, <3>2
  <2>5. /\ segment_count \in SegId /\ completed_segment_count \in 0 .. segment_count
        /\ connection \in [Conn -> SegId \cup {NULL}]
        /\ last_seg_offset \in Byte
    BY <1>1, <1>3, <1>7 DEF Byte
  <2>6. /\ link_mode \in LinkMode /\ inorder_offset \in 0 .. Size
        /\ failures \in 0 .. MaxFailures /\ at \in Conn
    BY <1>2, <1>3 DEF LinkMode, DUAL_LINK_MODE, Conn
  <2> QED
    BY <1>2, <1>3, <1>8, <2>1, <2>2, <2>3, <2>4, <2>5, <2>6 DEF TypeOK
<1>10. \A c \in Conn : /\ connection[c] = 1 /\ connection[c] # NULL
                       /\ currentbyte[c] = from(cut, c)
                       /\ lastbyte[c] = upto(cut, c)
                       /\ FirstChunk(subsegment[1][c]) =
                            [first |-> from(cut, c), last |-> upto(cut, c)]
                       /\ subsegment[1][c] # {}
  <2> SUFFICES ASSUME NEW c \in Conn
               PROVE  /\ connection[c] = 1 /\ connection[c] # NULL
                      /\ currentbyte[c] = from(cut, c)
                      /\ lastbyte[c] = upto(cut, c)
                      /\ FirstChunk(subsegment[1][c]) =
                           [first |-> from(cut, c), last |-> upto(cut, c)]
                      /\ subsegment[1][c] # {}
    OBVIOUS
  <2> DEFINE k == [first |-> from(cut, c), last |-> upto(cut, c)]
  <2>1. subsegment[1][c] = {k}
    BY <1>4, <1>7, <1>8
  <2>2. {k} \subseteq Chunk
    BY <1>7, <1>8, <2>1
  <2>3. FirstChunk({k}) = k
    BY <2>2, FirstChunkIsFirst
  <2>4. connection[c] = 1 /\ connection[c] # NULL
    BY <1>1 DEF NULL
  <2>5. currentbyte[c] = from(cut, c) /\ lastbyte[c] = upto(cut, c)
    BY <1>1
  <2> QED
    BY <2>1, <2>3, <2>4, <2>5
<1>10a. ASSUME NEW c \in Conn
        PROVE  /\ currentbyte[c] \in Int /\ lastbyte[c] \in Int
               /\ currentbyte[c] <= lastbyte[c]
               /\ FirstChunk(subsegment[1][c]).first = currentbyte[c]
               /\ FirstChunk(subsegment[1][c]).last = lastbyte[c]
               /\ currentbyte[c] \in currentbyte[c] .. lastbyte[c] + 1
  <2>1. /\ currentbyte[c] = from(cut, c) /\ lastbyte[c] = upto(cut, c)
        /\ FirstChunk(subsegment[1][c]) =
             [first |-> from(cut, c), last |-> upto(cut, c)]
    BY <1>10
  <2>2. /\ from(cut, c) \in Int /\ upto(cut, c) \in Int
        /\ from(cut, c) <= upto(cut, c)
    BY <1>4
  <2> HIDE DEF from, upto
  <2> QED
    BY <2>1, <2>2
<1> HIDE DEF share, all, Share, from, upto
<1>11. Positioned
  <2> SUFFICES ASSUME NEW c \in Conn PROVE AtItsChunk(c)
    BY DEF Positioned
  <2>1. \A s \in SegId : s < 1 => subsegment[s][c] = {}
    BY <1>7
  <2>2. connection[c] = 1 /\ connection[c] # NULL /\ subsegment[1][c] # {}
    BY <1>10
  <2> QED
    BY <1>10a, <2>1, <2>2 DEF AtItsChunk
<1>12. Covered
  <2>1. Stored = {}
    BY <1>2 DEF Stored
  <2>2. ASSUME NEW b \in Byte, b <= InitSegSize - 1
        PROVE  \E c \in Conn : b \in Owed(c)
    <3>1. b \in Int /\ 0 <= b
      BY <1>3 DEF Byte
    <3>2. In(b, all)
      BY <2>2, <3>1 DEF In, all
    <3>3. PICK c \in Conn : In(b, share[c])
      BY <1>6, <3>1, <3>2
    <3>4. share[c] = {[first |-> from(cut, c), last |-> upto(cut, c)]}
      BY <1>4 DEF share
    <3>5. from(cut, c) <= b /\ b <= upto(cut, c)
      BY <3>3, <3>4 DEF In
    <3> DEFINE k == [first |-> from(cut, c), last |-> upto(cut, c)]
    <3>6. k \in subsegment[1][c]
      BY <1>7, <1>8, <3>4
    <3>7. b \in k.first .. k.last
      BY <1>4, <3>1, <3>5
    <3>8. ~(b < currentbyte[c])
      <4>1. currentbyte[c] = from(cut, c)
        BY <1>10
      <4> QED
        BY <1>10a, <3>1, <3>5, <4>1
    <3> QED
      BY <1>7, <3>6, <3>7, <3>8 DEF Owed
  <2> QED
    BY <1>1, <2>1, <2>2 DEF Covered
<1>13. Disjoint
  <2> SUFFICES ASSUME NEW s \in SegId, NEW u \in SegId, NEW c \in Conn,
                      NEW d \in Conn, NEW k \in subsegment[s][c],
                      NEW m \in subsegment[u][d], <<s, c, k>> # <<u, d, m>>
               PROVE  Apart(k, m)
    BY DEF Disjoint
  <2>1. s = 1 /\ u = 1 /\ k \in share[c] /\ m \in share[d]
    BY <1>8
  <2>2. CASE c = d
    BY <1>6, <2>1, <2>2 DEF AllApart
  <2>3. CASE c # d
    BY <1>6, <2>1, <2>3
  <2> QED
    BY <2>2, <2>3
<1>14. Placed
  <2> SUFFICES ASSUME NEW s \in SegId, NEW c \in Conn, NEW k \in subsegment[s][c]
               PROVE  s <= 1 /\ k.last <= InitSegSize - 1
    BY <1>1 DEF Placed
  <2>1. s = 1 /\ k \in share[c]
    BY <1>8
  <2>2. k = [first |-> from(cut, c), last |-> upto(cut, c)]
    BY <1>4, <2>1 DEF share
  <2> QED
    BY <1>4, <2>1, <2>2
<1>15. Flagged
  <2>1. \A s \in SegId, c \in Conn : s > 1 => subsegment[s][c] = {}
    BY <1>7, <1>8
  <2> QED
    BY <1>10, <2>1 DEF Flagged, NextSegments
<1>16. Handled
  <2>1. \A c \in Conn : ~Done(c)
    BY <1>10a DEF Done
  <2> QED
    BY <1>2, <2>1 DEF Handled
<1> QED
  BY <1>9, <1>11, <1>12, <1>13, <1>14, <1>15, <1>16 DEF Bookkeeping, EachByteOnce

\* A step that changes nothing preserves the bookkeeping.
LEMMA StutterStep == ASSUME Bookkeeping, UNCHANGED vars PROVE Bookkeeping'
<1> USE DEF vars, segVars, connVars, fileVars
<1>1. TypeOK'
  BY DEF Bookkeeping, TypeOK
<1>2. Placing'
  BY Frame
<1>3. Handled'
  BY DEF Bookkeeping, Handled, Done, Stopped
<1> QED
  BY <1>1, <1>2, <1>3, KeepsBookkeeping

\* No step of the main loop, of a set-up thread or of the server breaks it.
LEMMA NextBookkeeping == ASSUME Bookkeeping, [Next]_vars PROVE Bookkeeping'
<1>1. ASSUME NEW i \in Conn, NEW n \in 1 .. BufferSize, Receive(i, n)
      PROVE  Bookkeeping'
  BY <1>1, ReceiveStep
<1>2. ASSUME NEW i \in Conn, Schedule(i) PROVE Bookkeeping'
  BY <1>2, NoSegmentStep, NewSegmentStep, RecoverStep DEF Schedule
<1>3. ASSUME NEW i \in Conn, Finish(i) PROVE Bookkeeping'
  BY <1>3, NextChunkStep, NextSubsegmentStep, GoesIdleStep DEF Finish
<1>4. CASE MainLoop
  BY <1>1, <1>2, <1>3, <1>4, ReadFailsStep, CheckConnStep, AccountStep,
     ReadyStep DEF MainLoop
<1>5. CASE Threads
  BY <1>5, SetupThreadStep DEF Threads
<1>6. ASSUME NEW c \in Conn, ServerCloses(c) PROVE Bookkeeping'
  BY <1>6, ServerClosesStep
<1>7. CASE Terminated \/ UNCHANGED vars
  BY <1>7, StutterStep DEF Terminated
<1> QED
  BY <1>4, <1>5, <1>6, <1>7, EngineFailsStep DEF Next

\* The engine's bookkeeping is an invariant, whatever the file, the segment
\* and read sizes, the modes and the number of lost connections: a link is
\* always inside the first chunk of its list, and has later chunks only while
\* pipeline_requests_sent is set.
THEOREM BookkeepingHolds == Spec => []Bookkeeping
<1>1. Init => Bookkeeping
  BY InitBookkeeping
<1>2. Bookkeeping /\ [Next]_vars => Bookkeeping'
  BY NextBookkeeping
<1> QED
  BY <1>1, <1>2, PTL DEF Spec

\* The variables of the engine keep their types.
THEOREM TypesHold == Spec => []TypeOK
<1>1. Bookkeeping => TypeOK
  BY DEF Bookkeeping
<1> QED
  BY <1>1, BookkeepingHolds, PTL

\* Splitting, finishing and recovering chunks (offset.c, recovery.c) never
\* lose a byte of the file and never leave one to be fetched twice.
THEOREM EachByteOnceHolds == Spec => []EachByteOnce
<1>1. Bookkeeping => EachByteOnce
  BY DEF Bookkeeping
<1> QED
  BY <1>1, BookkeepingHolds, PTL
=============================================================================
