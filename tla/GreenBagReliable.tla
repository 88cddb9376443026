-------------------------- MODULE GreenBagReliable --------------------------
(***************************************************************************)
(* The download engine on links that were set up and do not fail: what is  *)
(* in flight on a link is what its chunk lists say, whatever is pipelined, *)
(* divided or recovered, so that every byte is written at its own offset   *)
(* and no byte is left with a link that does not ask for it.  In the plain *)
(* mode (fixed segments, neither recovery nor energy saving) the in-order  *)
(* offset never runs ahead of the file, and the process does not abort.    *)
(***************************************************************************)
EXTENDS GreenBagRefines

USE DEF threadVars

Reliable == Connected /\ MaxFailures = 0
-----------------------------------------------------------------------------
(* Queues of batches                                                       *)

\* Each place of a queue holds a segment's batch, and each batch has a place.
LEMMA ListsPlaces ==
  ASSUME NEW q, NEW S, NEW B, Lists(q, S, B)
  PROVE  /\ \A n \in DOMAIN q : \E s \in S : q[n] = B[s]
         /\ \A s \in S : \E n \in DOMAIN q : q[n] = B[s]
<1> DEFINE Q == {q[n] : n \in DOMAIN q}
           T == {B[s] : s \in S}
<1>1. Q = T
  BY DEF Lists
<1>2. \A n \in DOMAIN q : q[n] \in Q
  OBVIOUS
<1>3. \A s \in S : B[s] \in Q
  BY <1>1
<1>4. \A n \in DOMAIN q : q[n] \in T
  BY <1>1, <1>2
<1> QED
  BY <1>3, <1>4

\* p is q with C behind, or in front of, all of it.
Extends(p, q, C) ==
  /\ DOMAIN p = 1 .. Len(q) + 1
  /\ p[Len(q) + 1] = C
  /\ \A n \in 1 .. Len(q) : p[n] = q[n]
Precedes(p, C, q) ==
  /\ DOMAIN p = 1 .. Len(q) + 1
  /\ p[1] = C
  /\ \A n \in 2 .. Len(q) + 1 : p[n] = q[n - 1]

LEMMA AppendExtends ==
  ASSUME NEW R, NEW q \in Seq(R), NEW C \in R
  PROVE  Extends(Append(q, C), q, C)
BY AppendProperties, LenProperties DEF Extends

LEMMA ConcatPrecedes ==
  ASSUME NEW R, NEW q \in Seq(R), NEW C \in R
  PROVE  Precedes(<<C>> \o q, C, q)
<1> SUFFICES /\ DOMAIN (<<C>> \o q) = 1 .. Len(q) + 1
             /\ (<<C>> \o q)[1] = C
             /\ \A n \in 2 .. Len(q) + 1 : (<<C>> \o q)[n] = q[n - 1]
  BY DEF Precedes
<1> QED
  OBVIOUS

\* Appending the batch C of a segment t behind all those of the queue.
LEMMA AppendLists ==
  ASSUME NEW R, NEW q \in Seq(R), NEW S, S \subseteq SegId, NEW t \in SegId,
         NEW B, NEW D, NEW C \in R, Lists(q, S, B), D[t] = C,
         \A s \in S : s < t /\ D[s] = B[s] /\ D[s] # C,
         NEW p, Extends(p, q, C)
  PROVE  Lists(p, S \cup {t}, D)
<1>1. /\ Len(q) \in Nat /\ DOMAIN q = 1 .. Len(q)
      /\ DOMAIN p = 1 .. Len(q) + 1
      /\ p[Len(q) + 1] = C
      /\ \A n \in 1 .. Len(q) : p[n] = q[n]
  BY LenProperties DEF Extends
<1>2. /\ DOMAIN p = DOMAIN q \cup {Len(q) + 1}
      /\ Len(q) + 1 \notin DOMAIN q
      /\ \A n \in DOMAIN q : p[n] = q[n] /\ n \in Nat /\ n < Len(q) + 1
  BY <1>1
<1>2a. \A n \in DOMAIN q : \E s \in S : p[n] = D[s]
  <2>1. \A n \in DOMAIN q : \E s \in S : q[n] = B[s]
    BY ListsPlaces
  <2> QED
    BY <1>2, <2>1
<1>3. \A n \in DOMAIN p : p[n] \in {D[s] : s \in S \cup {t}}
  BY <1>1, <1>2, <1>2a
<1>4. \A s \in S \cup {t} : \E n \in DOMAIN p : p[n] = D[s]
  <2>1. \A s \in S : \E n \in DOMAIN q : q[n] = D[s]
    BY DEF Lists
  <2> QED
    BY <1>1, <1>2, <2>1
<1>5. {p[n] : n \in DOMAIN p} = {D[s] : s \in S \cup {t}}
  BY <1>3, <1>4
<1>6. ASSUME NEW m \in DOMAIN p, NEW n \in DOMAIN p,
             NEW s \in S \cup {t}, NEW u \in S \cup {t},
             m < n, p[m] = D[s], p[n] = D[u]
      PROVE  s < u
  <2>1. m \in DOMAIN q
    BY <1>1, <1>6
  <2>2. \E v \in S : p[m] = D[v]
    BY <1>2a, <2>1
  <2>3. s \in S
    BY <1>6, <2>2
  <2>4. CASE n \in DOMAIN q
    <3>1. \E v \in S : p[n] = D[v]
      BY <1>2a, <2>4
    <3>2. u \in S
      BY <1>6, <3>1
    <3> QED
      BY <1>2, <1>6, <2>1, <2>3, <2>4, <3>2 DEF Lists
  <2>5. CASE n = Len(q) + 1
    BY <1>1, <1>6, <2>3, <2>5
  <2> QED
    BY <1>2, <2>4, <2>5
<1> QED
  BY <1>5, <1>6 DEF Lists

\* A queue depends only on the batches of its segments.
LEMMA SameLists ==
  ASSUME NEW q, NEW S, NEW B, NEW D, Lists(q, S, B), \A s \in S : D[s] = B[s]
  PROVE  Lists(q, S, D)
BY DEF Lists

\* A queue is empty exactly when it holds no segment's batch.
LEMMA EmptyQueue == ASSUME NEW B PROVE Lists(<<>>, {}, B)
BY DEF Lists

LEMMA EmptyLists ==
  ASSUME NEW R, NEW q \in Seq(R), NEW S, NEW B, Lists(q, S, B)
  PROVE  q = <<>> <=> S = {}
<1>1. DOMAIN q = {} <=> q = <<>>
  BY EmptySeq
<1> QED
  BY <1>1 DEF Lists

\* Reading the head of the queue: the batch of the first segment.
LEMMA HeadLists ==
  ASSUME NEW R, NEW q \in Seq(R), NEW S, S \subseteq SegId, NEW B,
         Lists(q, S, B), NEW t \in S, \A s \in S : t <= s,
         \A s \in S : B[s] = B[t] => s = t
  PROVE  /\ q # <<>> /\ Head(q) = B[t]
         /\ Lists(Tail(q), S \ {t}, B)
<1> DEFINE p == Tail(q)
<1>0. q # <<>>
  BY EmptyLists
<1>0a. /\ Len(q) \in Nat /\ DOMAIN q = 1 .. Len(q) /\ Len(q) >= 1
       /\ Head(q) = q[1] /\ DOMAIN p = 1 .. Len(q) - 1
       /\ \A n \in 1 .. Len(q) - 1 : p[n] = q[n + 1]
  <2>1. /\ Len(q) \in Nat /\ DOMAIN q = 1 .. Len(q) /\ Len(q) # 0
    BY <1>0, EmptySeq, LenProperties
  <2>2. p \in Seq(R) /\ Len(p) = Len(q) - 1
    BY <1>0, HeadTailProperties
  <2> QED
    BY <1>0, <2>1, <2>2, HeadTailProperties, LenProperties
<1>1. \A s \in S : s \in Int
  BY BoundAssumption DEF SegId
<1> HIDE DEF p
<1>2. q[1] = B[t]
  <2>1. PICK n \in DOMAIN q : q[n] = B[t]
    BY DEF Lists
  <2>2. 1 \in DOMAIN q
    BY <1>0a
  <2>3. PICK s \in S : q[1] = B[s]
    BY <2>2 DEF Lists
  <2>4. 1 < n => s < t
    BY <2>1, <2>2, <2>3 DEF Lists
  <2>5. ~(1 < n)
    BY <1>1, <2>4
  <2>6. n = 1
    BY <1>0a, <2>5
  <2> QED
    BY <2>1, <2>6
<1>3. ASSUME NEW n \in DOMAIN p PROVE \E s \in S \ {t} : p[n] = B[s]
  <2>1. n + 1 \in DOMAIN q /\ 1 \in DOMAIN q /\ 1 < n + 1 /\ p[n] = q[n + 1]
    BY <1>0a
  <2>2. PICK s \in S : q[n + 1] = B[s]
    BY <2>1, ListsPlaces
  <2>3. t < s
    BY <1>2, <2>1, <2>2 DEF Lists
  <2> QED
    BY <1>1, <2>1, <2>2, <2>3
<1>4. ASSUME NEW s \in S \ {t} PROVE \E n \in DOMAIN p : p[n] = B[s]
  <2>1. PICK n \in DOMAIN q : q[n] = B[s]
    BY DEF Lists
  <2>2. n # 1
    BY <1>2, <2>1
  <2>3. n - 1 \in DOMAIN p /\ p[n - 1] = q[n]
    BY <1>0a, <2>2
  <2> QED
    BY <2>1, <2>3
<1>5. ASSUME NEW m \in DOMAIN p, NEW n \in DOMAIN p,
             NEW s \in S \ {t}, NEW u \in S \ {t},
             m < n, p[m] = B[s], p[n] = B[u]
      PROVE  s < u
  <2>1. /\ m + 1 \in DOMAIN q /\ n + 1 \in DOMAIN q /\ m + 1 < n + 1
        /\ q[m + 1] = B[s] /\ q[n + 1] = B[u]
    BY <1>0a, <1>5
  <2> QED
    BY <2>1 DEF Lists
<1>6. Lists(p, S \ {t}, B)
  BY <1>3, <1>4, <1>5 DEF Lists
<1> QED
  BY <1>0, <1>0a, <1>2, <1>6 DEF p

\* Putting what is left of a batch back in front of the queue.
LEMMA ConsLists ==
  ASSUME NEW R, NEW q \in Seq(R), NEW S, S \subseteq SegId, NEW t \in SegId,
         NEW B, NEW D, NEW C \in R, Lists(q, S, B), D[t] = C,
         \A s \in S : t < s /\ D[s] = B[s] /\ D[s] # C,
         NEW p, Precedes(p, C, q)
  PROVE  Lists(p, S \cup {t}, D)
<1>1. /\ Len(q) \in Nat /\ DOMAIN q = 1 .. Len(q)
      /\ DOMAIN p = 1 .. Len(q) + 1
      /\ p[1] = C
      /\ \A n \in 2 .. Len(q) + 1 : p[n] = q[n - 1]
  BY LenProperties DEF Precedes
<1>2. \A n \in DOMAIN p : \/ n = 1
                          \/ /\ n - 1 \in DOMAIN q /\ p[n] = q[n - 1]
                             /\ n \in Int
  BY <1>1
<1>3. \A n \in DOMAIN q : n + 1 \in DOMAIN p /\ p[n + 1] = q[n]
  <2> SUFFICES ASSUME NEW n \in DOMAIN q
               PROVE  n + 1 \in DOMAIN p /\ p[n + 1] = q[n]
    OBVIOUS
  <2>1. n \in Int /\ n + 1 \in 2 .. Len(q) + 1 /\ n + 1 - 1 = n
    BY <1>1
  <2> QED
    BY <1>1, <2>1
<1>4. \A n \in DOMAIN q : \E s \in S : q[n] = D[s] /\ q[n] # C
  BY ListsPlaces
<1>5. \A s \in S : \E n \in DOMAIN q : q[n] = D[s]
  BY ListsPlaces
<1>6. {p[n] : n \in DOMAIN p} = {D[s] : s \in S \cup {t}}
  <2>1. \A n \in DOMAIN p : \E s \in S \cup {t} : p[n] = D[s]
    BY <1>1, <1>2, <1>4
  <2>2. \A s \in S : \E n \in DOMAIN p : p[n] = D[s]
    BY <1>3, <1>5
  <2>3. 1 \in DOMAIN p
    BY <1>1
  <2> QED
    BY <1>1, <2>1, <2>2, <2>3
<1>7. ASSUME NEW m \in DOMAIN p, NEW n \in DOMAIN p,
             NEW s \in S \cup {t}, NEW u \in S \cup {t},
             m < n, p[m] = D[s], p[n] = D[u]
      PROVE  s < u
  <2>1. n # 1
    BY <1>1, <1>7
  <2>2. n - 1 \in DOMAIN q /\ p[n] = q[n - 1]
    BY <1>2, <2>1
  <2>3. u \in S
    BY <1>4, <1>7, <2>2
  <2>4. CASE m = 1
    <3>1. s = t
      BY <1>1, <1>7, <2>4
    <3> QED
      BY <2>3, <3>1
  <2>5. CASE m # 1
    <3>1. m - 1 \in DOMAIN q /\ p[m] = q[m - 1]
      BY <1>2, <2>5
    <3>2. s \in S
      BY <1>4, <1>7, <3>1
    <3>3. m - 1 < n - 1
      BY <1>1, <1>7
    <3>4. q[m - 1] = B[s] /\ q[n - 1] = B[u]
      BY <1>7, <2>2, <2>3, <3>1, <3>2
    <3> QED
      BY <2>2, <2>3, <3>1, <3>2, <3>3, <3>4 DEF Lists
  <2> QED
    BY <2>4, <2>5
<1> QED
  BY <1>6, <1>7 DEF Lists
\* Batches with no chunk in common are different batches.
LEMMA BatchesDiffer ==
  ASSUME NEW A, NEW C, A \cap C = {}, A # {}
  PROVE  A # C
OBVIOUS

\* Separate chunk lists have no chunk in common.
LEMMA ApartLists ==
  ASSUME NEW A \in SUBSET Chunk, NEW C \in SUBSET Chunk,
         \A k \in A, m \in C : Apart(k, m)
  PROVE  A \cap C = {}
<1> SUFFICES ASSUME NEW k \in A, k \in C PROVE FALSE
  OBVIOUS
<1>1. k.first \in Int /\ k.last \in Int /\ k.first <= k.last
  BY ChunkBounds
<1> QED
  BY <1>1 DEF Apart

\* The batches B of the segments S become D and T when the first of them, t,
\* gives up the first chunk of its batch.
TakesChunk(S, B, t, T, D) ==
  /\ S \subseteq SegId /\ t \in S /\ \A s \in S : t <= s
  /\ B[t] \subseteq Chunk /\ B[t] # {}
  /\ D[t] = B[t] \ {FirstChunk(B[t])}
  /\ \A s \in S : s # t => B[s] # {} /\ B[s] \cap B[t] = {} /\ D[s] = B[s]
  /\ \A s \in S : s # t => s \in T
  /\ t \in T <=> D[t] # {}
  /\ T \subseteq S

\* Reading a header when nothing is left of the previous response: the first
\* chunk of the first batch comes next.
LEMMA HeaderReadLists ==
  ASSUME NEW w \in Socketed, w.fd = "open", Left(w) <= 0,
         NEW S, NEW B, NEW t, NEW T, NEW D, Lists(w.requests, S, B),
         TakesChunk(S, B, t, T, D)
  PROVE  /\ HasHeader(w)
         /\ HeaderRead(w).fd = "open"
         /\ HeaderRead(w).response = FirstChunk(B[t])
         /\ Lists(HeaderRead(w).requests, T, D)
<1> DEFINE q == w.requests
           k == FirstChunk(B[t])
<1>1. q \in Seq(Requests)
  BY DEF Socketed, Requests
<1>1a. /\ S \subseteq SegId /\ t \in S /\ \A s \in S : t <= s
       /\ B[t] \subseteq Chunk /\ B[t] # {}
       /\ D[t] = B[t] \ {FirstChunk(B[t])}
       /\ \A s \in S : s # t => B[s] # {} /\ B[s] \cap B[t] = {} /\ D[s] = B[s]
       /\ T = {s \in S : s = t => D[t] # {}}
  BY DEF TakesChunk
<1>2. \A s \in S : B[s] = B[t] => s = t
  BY <1>1a
<1>3. /\ q # <<>> /\ Head(q) = B[t]
      /\ Lists(Tail(q), S \ {t}, B)
  BY <1>1, <1>1a, <1>2, HeadLists
<1>4. HasHeader(w)
  BY <1>3 DEF HasHeader
<1>5. HeaderRead(w) = [w EXCEPT !.response = k,
                                !.requests = IF B[t] = {k} THEN Tail(q)
                                             ELSE <<B[t] \ {k}>> \o Tail(q)]
  BY <1>3, <1>4 DEF HeaderRead
<1>6. Tail(q) \in Seq(Requests)
  BY <1>1, <1>3, HeadTailProperties
<1>7. k \in B[t]
  BY <1>1a, FirstChunkIsFirst
<1>8. Lists(Tail(q), S \ {t}, D)
  BY <1>1a, <1>3, SameLists
<1>9. Lists(IF B[t] = {k} THEN Tail(q) ELSE <<B[t] \ {k}>> \o Tail(q), T, D)
  <2>1. CASE B[t] = {k}
    <3>1. T = S \ {t}
      BY <1>1a, <2>1
    <3> QED
      BY <1>8, <2>1, <3>1
  <2>2. CASE B[t] # {k}
    <3>1. B[t] \ {k} # {} /\ D[t] = B[t] \ {k}
      BY <1>1a, <1>7, <2>2
    <3>2. T = (S \ {t}) \cup {t}
      BY <1>1a, <3>1
    <3>3. B[t] \ {k} \in Requests
      BY <1>1a, <3>1 DEF Requests
    <3>4. \A s \in S \ {t} : t < s /\ D[s] # D[t]
      <4>1. \A s \in S : s \in Int
        BY <1>1a, BoundAssumption DEF SegId
      <4> QED
        BY <1>1a, <3>1, <4>1
    <3>5. t \in SegId /\ S \ {t} \subseteq SegId
      BY <1>1a
    <3> DEFINE C == B[t] \ {k}
               rest == Tail(q)
               U == S \ {t}
               p == <<C>> \o rest
    <3>6. /\ rest \in Seq(Requests) /\ C \in Requests /\ D[t] = C
          /\ U \subseteq SegId /\ t \in SegId /\ Lists(rest, U, D)
          /\ \A s \in U : t < s /\ D[s] # C
      BY <1>6, <1>8, <3>1, <3>3, <3>4, <3>5
    <3> HIDE DEF k, q, C, rest, U
    <3>7. Precedes(p, C, rest)
      BY <3>6, ConcatPrecedes
    <3> HIDE DEF p
    <3>8. Lists(p, U \cup {t}, D)
      BY <3>6, <3>7, ConsLists
    <3> QED
      BY <2>2, <3>2, <3>8 DEF p, U, C, rest
  <2> QED
    BY <2>1, <2>2
<1>10. /\ HeaderRead(w).fd = "open" /\ HeaderRead(w).response = k
       /\ HeaderRead(w).requests = IF B[t] = {k} THEN Tail(q)
                                   ELSE <<B[t] \ {k}>> \o Tail(q)
  BY <1>5 DEF Socketed
<1> QED
  BY <1>4, <1>9, <1>10

\* A range written to a socket on which nothing is in flight: it is all that
\* is asked for.
LEMMA SentFresh ==
  ASSUME NEW w \in Socketed, w.fd \in {"open", "closed"}, w.requests = <<>>,
         Left(w) <= 0, NEW C \in SUBSET Chunk, C # {}
  PROVE  /\ Sent(w, C) \in Socketed
         /\ Sent(w, C).fd = "open"
         /\ Sent(w, C).requests = <<C>>
         /\ Left(Sent(w, C)) <= 0
<1> DEFINE v == IF w.fd = "closed" THEN Open ELSE w
<1>1. /\ Open \in Socketed /\ Open.fd = "open" /\ Open.requests = <<>>
      /\ Left(Open) <= 0
  BY FreshSockets DEF Open, Socket, NoResponse, Left
<1>2. v \in Socketed /\ v.fd = "open" /\ v.requests = <<>> /\ Left(v) <= 0
  BY <1>1
<1>3. Sent(w, C) = Requested(v, C)
  BY DEF Sent
<1> HIDE DEF v
<1>4. Requested(v, C) = [v EXCEPT !.requests = Append(<<>>, C)]
  BY <1>2 DEF Requested
<1>5. Append(<<>>, C) = <<C>>
  OBVIOUS
<1> QED
  BY <1>2, <1>3, <1>4, <1>5, SentType DEF Socketed, Left
-----------------------------------------------------------------------------
(* What is in flight                                                       *)

\* A link without a segment has nothing in flight; a link with one is open,
\* receives the chunk it is in, has asked for all its other chunks, in order,
\* and its flag is only set while a later subsegment is queued.
Linked(c) ==
  IF connection[c] = NULL
  THEN /\ ~enabled[c]
       /\ net[c].fd \in {"open", "closed"}
       /\ net[c].requests = <<>>
       /\ Left(net[c]) <= 0
  ELSE /\ enabled[c]
       /\ net[c].fd = "open"
       /\ Lists(net[c].requests, Awaited(c), Batches(c))
       /\ net[c].response = [first |-> currentbyte[c], last |-> lastbyte[c]]
       /\ pipeline_requests_sent[c] =>
            NextSegments(subsegment, connection[c], c) # {}

Synchronised ==
  /\ Bookkeeping
  /\ DataAtItsOffset
  /\ \A c \in Conn : Linked(c) /\ thread[c] = "none"

\* A link that the step leaves alone.
LEMMA FrameLinked ==
  ASSUME NEW c \in Conn, Linked(c),
         connection'[c] = connection[c], enabled'[c] = enabled[c],
         net'[c] = net[c], currentbyte'[c] = currentbyte[c],
         lastbyte'[c] = lastbyte[c],
         pipeline_requests_sent'[c] = pipeline_requests_sent[c],
         \A s \in SegId : subsegment'[s][c] = subsegment[s][c]
  PROVE  Linked(c)'
<1>1. Batches(c)' = Batches(c)
  BY DEF Batches
<1>2. Awaited(c)' = Awaited(c)
  BY <1>1 DEF Awaited
<1>3. NextSegments(subsegment, connection[c], c)' =
        NextSegments(subsegment, connection[c], c)
  BY DEF NextSegments
<1> QED
  BY <1>1, <1>2, <1>3 DEF Linked, Left

\* A link that goes on with its chunk while a segment t is added, of which it
\* gets the chunks C.
LEMMA SentLinked ==
  ASSUME TypeOK, NEW c \in Conn, Linked(c), connection[c] # NULL,
         NEW t \in SegId, connection[c] < t, NEW C \in SUBSET Chunk,
         \A s \in SegId : subsegment[s][c] # {} => s < t,
         \A s \in SegId : subsegment'[s][c] = IF s = t THEN C
                                              ELSE subsegment[s][c],
         \A s \in SegId : subsegment[s][c] \cap C = {},
         connection'[c] = connection[c], enabled'[c] = enabled[c],
         net'[c] = Sent(net[c], C), currentbyte'[c] = currentbyte[c],
         lastbyte'[c] = lastbyte[c],
         pipeline_requests_sent'[c] = (pipeline_requests_sent[c] \/ C # {})
  PROVE  Linked(c)'
<1> DEFINE x == connection[c]
           q == net[c].requests
<1>1. /\ x \in SegId /\ x \in Int /\ \A s \in SegId : s \in Int
      /\ net[c] \in Socketed /\ net[c].fd = "open"
      /\ q \in Seq(Requests)
      /\ subsegment[t][c] = {} /\ x # t
  <2>1. \A s \in SegId : s \in Int /\ connection[c] \in Int
    BY LinkBounds
  <2>2. net[c] \in Socketed
    BY LinkBounds
  <2> QED
    BY <2>1, <2>2, LinkBounds DEF Linked, Socketed, Requests
<1>2. \A s \in SegId : Batches(c)'[s] = IF s = t THEN C ELSE Batches(c)[s]
  BY <1>1 DEF Batches
<1>3. \A s \in SegId : s < t => Batches(c)'[s] = Batches(c)[s]
  BY <1>1, <1>2
<1>4. \A s \in Awaited(c) : s \in SegId /\ s < t /\ Batches(c)[s] \cap C = {}
                            /\ Batches(c)[s] # {}
  BY DEF Awaited, Batches
<1>5. NextSegments(subsegment', x, c) =
        NextSegments(subsegment, x, c) \cup (IF C = {} THEN {} ELSE {t})
  BY <1>1 DEF NextSegments
<1>6. Lists(net'[c].requests, Awaited(c)', Batches(c)')
      /\ net'[c].fd = "open" /\ net'[c].response = net[c].response
  <2>1. CASE C = {}
    <3>1. net'[c] = net[c]
      BY <2>1 DEF Sent, Requested
    <3>2. Awaited(c)' = Awaited(c)
      <4>1. \A s \in SegId : Batches(c)'[s] = Batches(c)[s]
        BY <1>1, <1>2, <2>1 DEF Batches
      <4> QED
        BY <4>1 DEF Awaited
    <3>3. \A s \in Awaited(c) : Batches(c)'[s] = Batches(c)[s]
      BY <1>3, <1>4
    <3> QED
      BY <1>1, <3>1, <3>2, <3>3, SameLists DEF Linked
  <2>2. CASE C # {}
    <3>1. net'[c] = [net[c] EXCEPT !.requests = Append(q, C)]
      BY <1>1, <2>2 DEF Sent, Requested
    <3>2. \A s \in SegId : s \in Awaited(c)' <=> s \in Awaited(c) \/ s = t
      BY <1>1, <1>2, <2>2 DEF Awaited, Batches
    <3>3. Awaited(c)' = Awaited(c) \cup {t}
      BY <3>2 DEF Awaited
    <3>4. C \in Requests
      BY <2>2 DEF Requests
    <3>5. \A s \in Awaited(c) : /\ s < t /\ Batches(c)'[s] = Batches(c)[s]
                                /\ Batches(c)'[s] # C
      BY <1>3, <1>4, BatchesDiffer
    <3>6. Lists(q, Awaited(c), Batches(c)) /\ Awaited(c) \subseteq SegId
      BY DEF Linked, Awaited
    <3>7. Batches(c)'[t] = C
      BY <1>2
    <3>8. Lists(Append(q, C), Awaited(c) \cup {t}, Batches(c)')
      <4>1. q \in Seq(Requests)
        BY <1>1
      <4>2. Extends(Append(q, C), q, C)
        BY <3>4, <4>1, AppendExtends
      <4> HIDE DEF q
      <4> QED
        BY <3>4, <3>5, <3>6, <3>7, <4>1, <4>2, AppendLists
    <3> QED
      BY <1>1, <3>1, <3>3, <3>8 DEF Socketed
  <2> QED
    BY <2>1, <2>2
<1> QED
  BY <1>5, <1>6 DEF Linked
\* A link that starts on segment t, its only one, with nothing in flight.
LEMMA JoinsLinked ==
  ASSUME NEW c \in Conn, NEW t \in SegId, NEW C \in SUBSET Chunk, C # {},
         NEW w \in Socketed, w.fd \in {"open", "closed"}, w.requests = <<>>,
         Left(w) <= 0,
         \A s \in SegId : subsegment'[s][c] = IF s = t THEN C ELSE {},
         connection'[c] = t, currentbyte'[c] = FirstChunk(C).first,
         lastbyte'[c] = FirstChunk(C).last, enabled'[c],
         net'[c] = HeaderRead(Sent(w, C)), ~pipeline_requests_sent'[c]
  PROVE  HasHeader(Sent(w, C)) /\ Linked(c)'
<1> DEFINE v == Sent(w, C)
           B == [s \in SegId |-> IF s = t THEN C ELSE {}]
           k == FirstChunk(C)
<1>1. /\ v \in Socketed /\ v.fd = "open" /\ v.requests = <<C>> /\ Left(v) <= 0
  BY SentFresh
<1>2. Lists(<<C>>, {t}, B)
  <2>1. DOMAIN <<C>> = {1} /\ <<C>>[1] = C
    OBVIOUS
  <2> QED
    BY <2>1 DEF Lists
<1>3. \A s \in SegId : Batches(c)'[s] = IF s = t THEN C \ {k} ELSE {}
  BY DEF Batches
<1>4. \A s : s \in Awaited(c)' <=> s \in {t} /\ (s = t => Batches(c)'[t] # {})
  <2>1. \A s \in SegId : s \in Int
    BY BoundAssumption DEF SegId
  <2> QED
    BY <1>3, <2>1 DEF Awaited
<1>5. /\ k \in Chunk
      /\ k = [first |-> currentbyte'[c], last |-> lastbyte'[c]]
  BY FirstChunkIsFirst DEF Chunk
<1>6. t # NULL
  BY BoundAssumption DEF SegId, NULL
<1> HIDE DEF v
<1>7. /\ HasHeader(v) /\ HeaderRead(v).fd = "open"
      /\ HeaderRead(v).response = k
      /\ Lists(HeaderRead(v).requests, Awaited(c)', Batches(c)')
  <2>1. t \in Int /\ B[t] = C
    BY BoundAssumption DEF SegId
  <2>2. Batches(c)'[t] = B[t] \ {FirstChunk(B[t])}
    BY <1>3, <2>1
  <2> HIDE DEF B, k
  <2>2a. TakesChunk({t}, B, t, Awaited(c)', Batches(c)')
    BY <1>4, <2>1, <2>2 DEF TakesChunk
  <2>3. /\ HasHeader(v) /\ HeaderRead(v).fd = "open"
        /\ HeaderRead(v).response = FirstChunk(B[t])
        /\ Lists(HeaderRead(v).requests, Awaited(c)', Batches(c)')
    BY <1>1, <1>2, <2>2a, HeaderReadLists
  <2> QED
    BY <2>1, <2>3 DEF k
<1> QED
  BY <1>5, <1>6, <1>7 DEF Linked, v

\* A link that reads the header of the next chunk: in segment t, the first
\* one of which it still has chunks to ask for.
LEMMA GoesOnLinked ==
  ASSUME NEW c \in Conn, connection[c] \in Int,
         NEW w \in Socketed, w.fd = "open", Left(w) <= 0,
         Lists(w.requests, Awaited(c), Batches(c)),
         NEW t \in Awaited(c), \A s \in Awaited(c) : t <= s,
         NEW C \in SUBSET Chunk, C = Batches(c)[t],
         \A s \in Awaited(c) : s # t => Batches(c)[s] \cap C = {},
         subsegment'[t][c] = C,
         \A s \in SegId : s > t => subsegment'[s][c] = Batches(c)[s],
         connection'[c] = t, net'[c] = HeaderRead(w),
         enabled'[c] = HasHeader(w),
         currentbyte'[c] = FirstChunk(C).first,
         lastbyte'[c] = FirstChunk(C).last,
         pipeline_requests_sent'[c] =>
           NextSegments(subsegment', connection'[c], c) # {}
  PROVE  Linked(c)'
<1> DEFINE k == FirstChunk(C)
           S == Awaited(c)
           B == Batches(c)
           D == Batches(c)'
           T == Awaited(c)'
<1>1. /\ \A s \in SegId : s \in Int /\ s # NULL
      /\ t \in SegId /\ t \in S /\ S \subseteq SegId
      /\ \A s \in S : B[s] # {}
  BY BoundAssumption DEF Awaited, SegId, NULL
<1>2. /\ D[t] = C \ {k}
      /\ \A s \in SegId : s > t => D[s] = B[s]
  <2>1. \A s \in SegId : D[s] =
          IF s = t THEN subsegment'[s][c] \ {FirstChunk(subsegment'[s][c])}
          ELSE subsegment'[s][c]
    BY DEF Batches
  <2>2. /\ subsegment'[t][c] = C
        /\ \A s \in SegId : s > t => s # t /\ subsegment'[s][c] = B[s]
    BY <1>1
  <2> HIDE DEF D, B, k
  <2>3. D[t] = C \ {FirstChunk(C)}
    BY <1>1, <2>1, <2>2
  <2> QED
    BY <1>1, <2>1, <2>2, <2>3 DEF k
<1>3. \A s \in S : s # t => s > t
  BY <1>1
<1>4. \A s : s \in T <=> s \in S /\ (s = t => D[t] # {})
  <2>1. \A s : s \in T <=> s \in SegId /\ s >= t /\ D[s] # {}
    BY DEF Awaited
  <2>2. \A s : s \in S <=> s \in SegId /\ s >= connection[c] /\ B[s] # {}
    BY DEF Awaited
  <2>3. \A s \in SegId : s > t /\ B[s] # {} => s \in S
    <3>1. connection[c] <= t
      BY <2>2
    <3>2. \A s \in SegId : s > t => s >= connection[c]
      BY <1>1, <3>1
    <3> QED
      BY <2>2, <3>2
  <2> HIDE DEF S, T, B, D
  <2>4. ASSUME NEW s \in T PROVE s \in S /\ (s = t => D[t] # {})
    BY <1>1, <1>2, <2>1, <2>3
  <2>5. ASSUME NEW s \in S, s = t => D[t] # {} PROVE s \in T
    <3>1. s \in SegId /\ B[s] # {} /\ (s = t \/ s > t)
      BY <1>1, <1>3
    <3> QED
      BY <1>1, <1>2, <2>1, <2>5, <3>1
  <2> QED
    BY <2>4, <2>5
<1>5. /\ k \in Chunk
      /\ k = [first |-> currentbyte'[c], last |-> lastbyte'[c]]
  BY <1>1, FirstChunkIsFirst DEF Chunk
<1>6. /\ HasHeader(w) /\ HeaderRead(w).fd = "open"
      /\ HeaderRead(w).response = k
      /\ Lists(HeaderRead(w).requests, T, D)
  <2>1. /\ Lists(w.requests, S, B)
        /\ t \in S /\ \A s \in S : t <= s
        /\ B[t] \subseteq Chunk /\ B[t] # {}
        /\ \A s \in S : s # t => B[s] # {} /\ B[s] \cap B[t] = {}
        /\ D[t] = B[t] \ {FirstChunk(B[t])}
        /\ \A s \in S : s # t => D[s] = B[s]
        /\ k = FirstChunk(B[t])
    BY <1>1, <1>2, <1>3
  <2> HIDE DEF S, T, B, D, k
  <2>2. TakesChunk(S, B, t, T, D)
    BY <1>1, <1>4, <2>1 DEF TakesChunk
  <2> QED
    BY <2>1, <2>2, HeaderReadLists
<1> QED
  BY <1>1, <1>5, <1>6 DEF Linked
-----------------------------------------------------------------------------
(* The engine's steps                                                      *)

\* What is in flight, without the bookkeeping it rests on.
InFlight == DataAtItsOffset /\ \A c \in Conn : Linked(c) /\ thread[c] = "none"

\* Batches of different segments have no chunk in common.
LEMMA BatchesSeparate ==
  ASSUME TypeOK, Disjoint, NEW c \in Conn
  PROVE  /\ \A s \in SegId : Batches(c)[s] \subseteq subsegment[s][c]
         /\ \A s \in SegId : subsegment[s][c] \in SUBSET Chunk
         /\ \A s, t \in SegId : s # t => subsegment[s][c] \cap subsegment[t][c] = {}
         /\ \A s, t \in SegId : s # t => Batches(c)[s] \cap Batches(c)[t] = {}
<1>1. \A s \in SegId : Batches(c)[s] \subseteq subsegment[s][c]
  BY DEF Batches
<1>2. \A s \in SegId : subsegment[s][c] \in SUBSET Chunk
  BY DEF TypeOK
<1>3. ASSUME NEW s \in SegId, NEW t \in SegId, s # t
      PROVE  subsegment[s][c] \cap subsegment[t][c] = {}
  <2>1. \A k \in subsegment[s][c], m \in subsegment[t][c] : Apart(k, m)
    BY <1>3 DEF Disjoint
  <2> QED
    BY <1>2, <2>1, ApartLists
<1> QED
  BY <1>1, <1>2, <1>3

\* A step that leaves chunk lists, positions, sockets, threads and the file.
LEMMA QuietInFlight ==
  ASSUME InFlight, UNCHANGED <<segVars, connVars, disk, net, threadVars>>
  PROVE  InFlight'
<1>1. \A c \in Conn : Linked(c)'
  BY FrameLinked DEF InFlight, segVars, connVars
<1> QED
  BY <1>1 DEF InFlight, DataAtItsOffset

\* The handler leaving gb_setup_next_segment without a segment, the in-order
\* offset, and the end of the engine.
LEMMA QuietSteps ==
  ASSUME InFlight, NEW i \in Conn,
         \/ LastSegmentRequested(i) \/ StaysBehind(i) \/ NothingLeft(i)
         \/ Crash(i) \/ SendFails(i) \/ Account \/ Ready \/ Terminated
         \/ UNCHANGED vars
  PROVE  InFlight'
<1>1. UNCHANGED <<segVars, connVars, disk, net, threadVars>>
  BY DEF LastSegmentRequested, StaysBehind, NothingLeft, Crash, SendFails,
         Account, Ready, Terminated, vars, fileVars
<1> QED
  BY <1>1, QuietInFlight

\* Nothing is lost, so that no connection is restarted and no thread runs.
LEMMA NoRestarts ==
  ASSUME Reliable, Bookkeeping, InFlight, NEW i \in Conn
  PROVE  /\ ~ReadFails(i) /\ ~CheckConn(i) /\ ~SetupThread(i)
         /\ ~ServerCloses(i) /\ ~EngineFails
<1>1. /\ TypeOK /\ AtItsChunk(i) /\ Handled /\ Linked(i) /\ thread[i] = "none"
  BY DEF Bookkeeping, Positioned, InFlight
<1>2. ~ReadFails(i)
  <2> SUFFICES ASSUME ReadFails(i) PROVE FALSE
    OBVIOUS
  <2>1. connection[i] # NULL /\ net[i].fd = "open"
    BY <1>1 DEF ReadFails, Linked
  <2>2. Done(i) /\ pc = "select"
    BY <2>1 DEF ReadFails
  <2> QED
    BY <1>1, <2>1, <2>2 DEF Handled, Stopped
<1>3. ~CheckConn(i)
  <2> SUFFICES ASSUME CheckConn(i) PROVE FALSE
    OBVIOUS
  <2>1. connection[i] = NULL /\ currentbyte[i] < lastbyte[i]
    BY <1>1 DEF CheckConn, Linked
  <2>2. currentbyte[i] = lastbyte[i] + 1 /\ lastbyte[i] \in Int
    BY <1>1, <2>1, LinkBounds DEF AtItsChunk
  <2> QED
    BY <2>1, <2>2
<1>4. ~SetupThread(i)
  BY <1>1 DEF SetupThread, ConnSetup, SendsRequest, ReadsHeader, SetupFails
<1>5. ~ServerCloses(i) /\ ~EngineFails
  BY <1>1 DEF ServerCloses, EngineFails, TypeOK, Reliable
<1> QED
  BY <1>2, <1>3, <1>4, <1>5

\* A read: the bytes are those of the response, at the link's position.
LEMMA ReceiveInFlight ==
  ASSUME Bookkeeping, InFlight,
         NEW i \in Conn, NEW n \in 1 .. BufferSize, Receive(i, n)
  PROVE  InFlight'
<1>0. /\ TypeOK /\ n \in Int /\ 1 <= n /\ n <= lastbyte[i] - currentbyte[i] + 1
      /\ connection[i] # NULL
  BY ReceiveFacts
<1>1. /\ currentbyte[i] \in Int /\ lastbyte[i] \in Int /\ net[i] \in Socketed
      /\ net \in [Conn -> Socketed] /\ currentbyte \in [Conn -> 0 .. Size]
      /\ disk \in [Byte -> Byte \cup {NoByte, Junk}]
      /\ \A b \in Byte : b \in Int
  <2>1. /\ net \in [Conn -> Socketed] /\ currentbyte \in [Conn -> 0 .. Size]
        /\ disk \in [Byte -> Byte \cup {NoByte, Junk}]
    BY <1>0 DEF TypeOK
  <2>2. \A b \in Byte : b \in Int
    BY DEF Byte
  <2> QED
    BY <1>0, <2>1, <2>2, LinkBounds
<1>2. /\ net[i].response = [first |-> currentbyte[i], last |-> lastbyte[i]]
      /\ Linked(i)
  BY <1>0 DEF InFlight, Linked
<1>3. Left(net[i]) > 0 /\ net[i].response.first = currentbyte[i]
  BY <1>0, <1>1, <1>2 DEF Left
<1>4. DataAtItsOffset'
  <2> SUFFICES ASSUME NEW b \in Byte PROVE disk'[b] \in {NoByte, b}
    BY DEF DataAtItsOffset
  <2>1. disk'[b] = IF b \in currentbyte[i] .. currentbyte[i] + n - 1
                   THEN currentbyte[i] + (b - currentbyte[i]) ELSE disk[b]
    <3>1. Left(net[i]) \in Int /\ ~(Left(net[i]) <= 0)
      BY <1>0, <1>1, <1>2, <1>3 DEF Left
    <3> QED
      BY <1>3, <3>1 DEF Receive
  <2>2. disk[b] \in {NoByte, b}
    BY DEF InFlight, DataAtItsOffset
  <2> QED
    BY <1>1, <2>1, <2>2
<1>5. /\ currentbyte'[i] = currentbyte[i] + n
      /\ \A c \in Conn : c # i => currentbyte'[c] = currentbyte[c]
      /\ \A c \in Conn : c # i => net'[c] = net[c]
      /\ net'[i] = [net[i] EXCEPT !.response.first = @ + n]
  <2>1. ~(Left(net[i]) <= 0)
    BY <1>0, <1>1, <1>2, <1>3 DEF Left
  <2> QED
    BY <1>1, <2>1 DEF Receive
<1>6. /\ net'[i].fd = net[i].fd /\ net'[i].requests = net[i].requests
      /\ net'[i].response = [first |-> currentbyte'[i], last |-> lastbyte[i]]
  BY <1>1, <1>2, <1>5 DEF Socketed
<1>7. /\ connection' = connection /\ enabled' = enabled /\ lastbyte' = lastbyte
      /\ pipeline_requests_sent' = pipeline_requests_sent
      /\ subsegment' = subsegment /\ UNCHANGED threadVars
  BY DEF Receive, segVars
<1>8. ASSUME NEW c \in Conn PROVE Linked(c)'
  <2>1. CASE c # i
    BY <1>5, <1>7, <2>1, FrameLinked DEF InFlight
  <2>2. CASE c = i
    <3>1. Batches(c)' = Batches(c) /\ Awaited(c)' = Awaited(c)
      BY <1>7 DEF Batches, Awaited
    <3>2. NextSegments(subsegment, connection[c], c)' =
            NextSegments(subsegment, connection[c], c)
      BY <1>7 DEF NextSegments
    <3> QED
      BY <1>0, <1>2, <1>6, <1>7, <2>2, <3>1, <3>2 DEF Linked
  <2> QED
    BY <2>1, <2>2
<1> QED
  BY <1>4, <1>7, <1>8 DEF InFlight

\* The link whose handler finishes has read all of the response.
LEMMA FinishedSocket ==
  ASSUME Bookkeeping, InFlight, NEW i \in Conn, Finishing(i)
  PROVE  /\ net[i] \in Socketed /\ net[i].fd = "open" /\ Left(net[i]) <= 0
         /\ Lists(net[i].requests, Awaited(i), Batches(i))
         /\ connection[i] \in Int
         /\ \A s \in SegId : s \in Int
         /\ Batches(i)[connection[i]] = Remaining(i)
         /\ pipeline_requests_sent[i] <=>
              NextSegments(subsegment, connection[i], i) # {}
<1>1. /\ TypeOK /\ Flagged /\ connection[i] \in SegId /\ connection[i] # NULL
      /\ Done(i)
  BY FinishFacts
<1>2. /\ net[i] \in Socketed /\ connection[i] \in Int
      /\ \A s \in SegId : s \in Int
      /\ currentbyte[i] \in Int /\ lastbyte[i] \in Int
  BY <1>1, LinkBounds
<1>3. Linked(i)
  BY DEF InFlight
<1>4. Left(net[i]) <= 0
  BY <1>1, <1>2, <1>3 DEF Linked, Left, Done
<1>5. Batches(i)[connection[i]] = Remaining(i)
  BY <1>1 DEF Batches, Remaining
<1> QED
  BY <1>1, <1>2, <1>3, <1>4, <1>5 DEF Linked, Flagged

\* finish_last_chunk_of_subseg: the header that is read is that of the next
\* chunk of the subsegment.
LEMMA NextChunkInFlight ==
  ASSUME Bookkeeping, InFlight, NEW i \in Conn, NextChunk(i)
  PROVE  InFlight'
<1> DEFINE x == connection[i]
           C == Remaining(i)
<1>1. Finishing(i) /\ C # {}
  BY DEF NextChunk
<1>2. /\ TypeOK /\ Disjoint /\ x \in SegId /\ C \in SUBSET Chunk
  BY <1>1, FinishFacts
<1>3. /\ net[i] \in Socketed /\ net[i].fd = "open" /\ Left(net[i]) <= 0
      /\ Lists(net[i].requests, Awaited(i), Batches(i))
      /\ x \in Int /\ \A s \in SegId : s \in Int
      /\ Batches(i)[x] = C
      /\ pipeline_requests_sent[i] <=> NextSegments(subsegment, x, i) # {}
  BY <1>1, FinishedSocket
<1>4. x \in Awaited(i) /\ \A s \in Awaited(i) : x <= s /\ s \in SegId
  BY <1>1, <1>2, <1>3 DEF Awaited
<1>5. \A s \in Awaited(i) : s # x => Batches(i)[s] \cap C = {}
  <2>1. \A s \in SegId : s # x => Batches(i)[s] \cap Batches(i)[x] = {}
    BY <1>2, BatchesSeparate
  <2> QED
    BY <1>3, <1>4, <2>1
<1>6. /\ subsegment \in [SegId -> [Conn -> SUBSET Chunk]]
      /\ connection \in [Conn -> SegId \cup {NULL}]
      /\ enabled \in [Conn -> BOOLEAN]
      /\ currentbyte \in [Conn -> 0 .. Size] /\ lastbyte \in [Conn -> 0 .. Size - 1]
      /\ net \in [Conn -> Socketed]
  BY <1>2 DEF TypeOK
<1>7. /\ subsegment' = [subsegment EXCEPT ![x][i] = C]
      /\ currentbyte' = [currentbyte EXCEPT ![i] = FirstChunk(C).first]
      /\ lastbyte' = [lastbyte EXCEPT ![i] = FirstChunk(C).last]
      /\ enabled' = [enabled EXCEPT ![i] = HasHeader(net[i])]
      /\ net' = [net EXCEPT ![i] = HeaderRead(net[i])]
      /\ connection' = connection /\ disk' = disk /\ UNCHANGED threadVars
      /\ pipeline_requests_sent' = pipeline_requests_sent
  BY DEF NextChunk, fileVars
<1>8. \A c \in Conn : c # i => Linked(c)'
  <2> HIDE DEF x, C
  <2> QED
    BY <1>2, <1>6, <1>7, FrameLinked DEF InFlight
<1>9. Linked(i)'
  <2>1. /\ subsegment'[x][i] = C
        /\ \A s \in SegId : s > x => subsegment'[s][i] = subsegment[s][i]
    BY <1>2, <1>3, <1>6, <1>7
  <2>2. \A s \in SegId : s > x => Batches(i)[s] = subsegment[s][i]
    BY <1>3 DEF Batches
  <2>3. NextSegments(subsegment', x, i) = NextSegments(subsegment, x, i)
    BY <2>1 DEF NextSegments
  <2>4. /\ connection'[i] = x /\ net'[i] = HeaderRead(net[i])
        /\ enabled'[i] = HasHeader(net[i])
        /\ currentbyte'[i] = FirstChunk(C).first
        /\ lastbyte'[i] = FirstChunk(C).last
        /\ pipeline_requests_sent'[i] = pipeline_requests_sent[i]
        /\ connection[i] = x
    BY <1>6, <1>7
  <2>5. \A s \in SegId : s > x => subsegment'[s][i] = Batches(i)[s]
    BY <2>1, <2>2
  <2>6. pipeline_requests_sent'[i] => NextSegments(subsegment', connection'[i], i) # {}
    BY <1>3, <2>3, <2>4
  <2> HIDE DEF x, C
  <2> QED
    BY <1>2, <1>3, <1>4, <1>5, <2>1, <2>4, <2>5, <2>6, GoesOnLinked
<1> QED
  BY <1>7, <1>8, <1>9 DEF InFlight, DataAtItsOffset

\* finish_downloading_subseg: with the flag set there is a next subsegment,
\* and the header that is read is that of its first chunk.
LEMMA NextSubsegmentInFlight ==
  ASSUME Bookkeeping, InFlight, NEW i \in Conn, NextSubsegment(i)
  PROVE  InFlight' /\ pc' # "crashed"
<1> DEFINE x == connection[i]
           sub == [subsegment EXCEPT ![x][i] = {}]
           t == NextSegment(sub, x, i)
           C == sub[t][i]
<1>1. Finishing(i) /\ Remaining(i) = {} /\ pipeline_requests_sent[i]
  BY DEF NextSubsegment
<1>2. /\ TypeOK /\ Disjoint /\ x \in SegId /\ x # NULL
  BY <1>1, FinishFacts
<1>3. /\ net[i] \in Socketed /\ net[i].fd = "open" /\ Left(net[i]) <= 0
      /\ Lists(net[i].requests, Awaited(i), Batches(i))
      /\ x \in Int /\ \A s \in SegId : s \in Int
      /\ Batches(i)[x] = {}
      /\ NextSegments(subsegment, x, i) # {}
  BY <1>1, FinishedSocket
<1>4. /\ subsegment \in [SegId -> [Conn -> SUBSET Chunk]]
      /\ connection \in [Conn -> SegId \cup {NULL}]
      /\ enabled \in [Conn -> BOOLEAN]
      /\ currentbyte \in [Conn -> 0 .. Size] /\ lastbyte \in [Conn -> 0 .. Size - 1]
      /\ net \in [Conn -> Socketed]
      /\ pipeline_requests_sent \in [Conn -> BOOLEAN]
  BY <1>2 DEF TypeOK
<1>5. \A s \in SegId, c \in Conn : sub[s][c] = IF s = x /\ c = i THEN {}
                                               ELSE subsegment[s][c]
  BY <1>2, <1>4
<1> HIDE DEF sub
<1>6. NextSegments(sub, x, i) = NextSegments(subsegment, x, i)
  BY <1>3, <1>5 DEF NextSegments
<1>7. /\ t \in SegId /\ t > x /\ sub[t][i] # {} /\ t # NULL
      /\ \A u \in SegId : u > x /\ u < t => sub[u][i] = {}
  <2>1. t \in SegId /\ t > x /\ sub[t][i] # {}
        /\ \A u \in SegId : u > x /\ u < t => sub[u][i] = {}
    BY <1>3, <1>6, NextSegmentIsNext
  <2> HIDE DEF t
  <2> QED
    BY <2>1, BoundAssumption DEF SegId, NULL
<1>8. /\ subsegment' = sub
      /\ currentbyte' = [currentbyte EXCEPT ![i] = FirstChunk(C).first]
      /\ lastbyte' = [lastbyte EXCEPT ![i] = FirstChunk(C).last]
      /\ enabled' = [enabled EXCEPT ![i] = HasHeader(net[i])]
      /\ net' = [net EXCEPT ![i] = HeaderRead(net[i])]
      /\ connection' = [connection EXCEPT ![i] = t]
      /\ disk' = disk /\ UNCHANGED threadVars
      /\ pipeline_requests_sent' = [pipeline_requests_sent EXCEPT
                                      ![i] = StillQueued(sub, t, i)]
      /\ pc' = "account"
  BY <1>7 DEF NextSubsegment, DropsSubsegment, fileVars, sub
<1> HIDE DEF t
<1>9. ASSUME NEW c \in Conn, c # i PROVE Linked(c)'
  <2>1. /\ connection'[c] = connection[c] /\ enabled'[c] = enabled[c]
        /\ net'[c] = net[c] /\ currentbyte'[c] = currentbyte[c]
        /\ lastbyte'[c] = lastbyte[c]
        /\ pipeline_requests_sent'[c] = pipeline_requests_sent[c]
        /\ \A s \in SegId : subsegment'[s][c] = subsegment[s][c]
    BY <1>4, <1>5, <1>8, <1>9
  <2> QED
    BY <2>1, FrameLinked DEF InFlight
<1>10. /\ C = subsegment[t][i] /\ C = Batches(i)[t] /\ C \in SUBSET Chunk
       /\ \A s \in SegId : s > t => /\ subsegment'[s][i] = subsegment[s][i]
                                    /\ Batches(i)[s] = subsegment[s][i]
  <2>1. t # x /\ C = subsegment[t][i]
    BY <1>3, <1>5, <1>7
  <2>2. \A s \in SegId : s > t => s # x
    BY <1>3, <1>7
  <2> QED
    BY <1>4, <1>5, <1>7, <1>8, <2>1, <2>2 DEF Batches
<1>11. t \in Awaited(i) /\ \A s \in Awaited(i) : t <= s /\ s \in SegId
  <2>1. t \in Awaited(i)
    BY <1>3, <1>7, <1>10 DEF Awaited
  <2>2. ASSUME NEW s \in Awaited(i) PROVE t <= s /\ s \in SegId
    <3>1. s \in SegId /\ s >= x /\ Batches(i)[s] # {}
      BY DEF Awaited
    <3>2. s # x /\ s > x
      BY <1>3, <3>1
    <3>3. sub[s][i] # {}
      BY <1>5, <3>1, <3>2 DEF Batches
    <3> QED
      BY <1>3, <1>7, <3>1, <3>2, <3>3
  <2> QED
    BY <2>1, <2>2
<1>12. \A s \in Awaited(i) : s # t => Batches(i)[s] \cap C = {}
  <2>1. \A s \in SegId : s # t => Batches(i)[s] \cap Batches(i)[t] = {}
    BY <1>2, <1>7, BatchesSeparate
  <2> QED
    BY <1>10, <1>11, <2>1
<1>13. Linked(i)'
  <2>1. /\ connection'[i] = t /\ net'[i] = HeaderRead(net[i])
        /\ enabled'[i] = HasHeader(net[i])
        /\ currentbyte'[i] = FirstChunk(C).first
        /\ lastbyte'[i] = FirstChunk(C).last
        /\ connection[i] \in Int
    BY <1>3, <1>4, <1>8
  <2>2. pipeline_requests_sent'[i] => NextSegments(subsegment', connection'[i], i) # {}
    BY <1>4, <1>8 DEF StillQueued
  <2>3. /\ subsegment'[t][i] = C
        /\ \A s \in SegId : s > t => subsegment'[s][i] = Batches(i)[s]
    BY <1>8, <1>10
  <2> HIDE DEF x, C
  <2> QED
    BY <1>3, <1>10, <1>11, <1>12, <2>1, <2>2, <2>3, GoesOnLinked
<1> QED
  BY <1>8, <1>9, <1>13 DEF InFlight, DataAtItsOffset

\* finish_downloading_subseg: a link that goes idle has nothing in flight.
LEMMA GoesIdleInFlight ==
  ASSUME Bookkeeping, InFlight, NEW i \in Conn, GoesIdle(i)
  PROVE  InFlight'
<1> DEFINE x == connection[i]
           sub == [subsegment EXCEPT ![x][i] = {}]
<1>1. Finishing(i) /\ Remaining(i) = {} /\ ~pipeline_requests_sent[i]
  BY DEF GoesIdle
<1>2. /\ TypeOK /\ x \in SegId
  BY <1>1, FinishFacts
<1>3. /\ net[i] \in Socketed /\ net[i].fd = "open" /\ Left(net[i]) <= 0
      /\ Lists(net[i].requests, Awaited(i), Batches(i))
      /\ x \in Int /\ \A s \in SegId : s \in Int
      /\ Batches(i)[x] = {}
      /\ NextSegments(subsegment, x, i) = {}
  BY <1>1, FinishedSocket
<1>4. Awaited(i) = {}
  BY <1>3 DEF Awaited, Batches, NextSegments
<1>5. net[i].requests = <<>>
  <2>1. net[i].requests \in Seq(Requests)
    BY <1>3 DEF Socketed, Requests
  <2> QED
    BY <1>3, <1>4, <2>1, EmptyLists
<1>6. /\ subsegment \in [SegId -> [Conn -> SUBSET Chunk]]
      /\ connection \in [Conn -> SegId \cup {NULL}]
      /\ enabled \in [Conn -> BOOLEAN] /\ net \in [Conn -> Socketed]
  BY <1>2 DEF TypeOK
<1>7. /\ subsegment' = sub /\ connection' = [connection EXCEPT ![i] = NULL]
      /\ enabled' = [enabled EXCEPT ![i] = FALSE]
      /\ \/ net' = [net EXCEPT ![i] = Closed]
         \/ net' = [net EXCEPT ![i] = net[i]]
      /\ currentbyte' = currentbyte /\ lastbyte' = lastbyte
      /\ pipeline_requests_sent' = pipeline_requests_sent
      /\ disk' = disk /\ UNCHANGED threadVars
  BY DEF GoesIdle, DropsSubsegment, fileVars, Disconnected
<1>8. ASSUME NEW c \in Conn, c # i PROVE Linked(c)'
  <2>1. \A s \in SegId : subsegment'[s][c] = subsegment[s][c]
    BY <1>2, <1>6, <1>7, <1>8
  <2>2. /\ connection'[c] = connection[c] /\ enabled'[c] = enabled[c]
        /\ net'[c] = net[c]
    BY <1>6, <1>7, <1>8
  <2> QED
    BY <1>7, <2>1, <2>2, FrameLinked DEF InFlight
<1>9. Linked(i)'
  <2>1. Closed.fd = "closed" /\ Closed.requests = <<>> /\ Left(Closed) <= 0
    BY DEF Closed, Socket, NoResponse, Left
  <2>2. /\ connection'[i] = NULL /\ ~enabled'[i]
        /\ net'[i] = Closed \/ net'[i] = net[i]
    BY <1>6, <1>7
  <2> QED
    BY <1>3, <1>5, <2>1, <2>2 DEF Linked, Left
<1> QED
  BY <1>7, <1>8, <1>9 DEF InFlight, DataAtItsOffset

\* gb_setup_next_segment: a busy link asks for its share behind all that it
\* has asked for; an idle link starts on it.
LEMMA NewSegmentInFlight ==
  ASSUME Bookkeeping, InFlight, NEW i \in Conn, NewSegment(i)
  PROVE  InFlight'
<1> DEFINE j == Other(i)
           t == segment_count + 1
<1>0. /\ TypeOK /\ Placed /\ Positioned /\ Handled
      /\ segment_count < MaxSegments /\ Scheduling(i)
  BY DEF Bookkeeping, NewSegment, Proceeds
<1>1. PICK n \in NextSizes \ {0}, f \in Conn :
        \E mode \in Modes(n) : \E share \in Divisions(n, f, mode) :
          AddsAndRequests(i, n, share, mode)
  BY DEF NewSegment
<1>2. PICK mode \in Modes(n) :
        \E share \in Divisions(n, f, mode) : AddsAndRequests(i, n, share, mode)
  BY <1>1
<1>3. PICK share \in Divisions(n, f, mode) : AddsAndRequests(i, n, share, mode)
  BY <1>2
<1>4. /\ mode \in LinkMode
      /\ \A s \in SegId : subsegment'[s] = IF s = t THEN share ELSE subsegment[s]
  BY <1>0, <1>3, NewSegmentTypes
<1>5. /\ share \in [Conn -> SUBSET Chunk]
      /\ \A c \in Conn : \A k \in share[c] : last_seg_offset < k.first
  BY <1>0, <1>4, DivisionsOnce
<1>6. /\ t \in SegId
      /\ \A c \in Conn : subsegment[t][c] = {} /\ connection[c] < t
  BY <1>0, NewSegmentIsNew
<1>7. \A c \in Conn, s \in SegId : subsegment[s][c] # {} => s < t
  <2> SUFFICES ASSUME NEW c \in Conn, NEW s \in SegId, NEW k \in subsegment[s][c]
               PROVE  s < t
    OBVIOUS
  <2>1. s <= segment_count
    BY <1>0 DEF Placed
  <2>2. s \in Int /\ segment_count \in Int
    BY <1>0, LinkBounds
  <2> QED
    BY <2>1, <2>2
<1>8. \A c \in Conn, s \in SegId : subsegment[s][c] \cap share[c] = {}
  <2> SUFFICES ASSUME NEW c \in Conn, NEW s \in SegId,
                      NEW k \in subsegment[s][c], k \in share[c]
               PROVE  FALSE
    OBVIOUS
  <2>1. k.last <= last_seg_offset /\ last_seg_offset < k.first
    BY <1>0, <1>5 DEF Placed
  <2>2. /\ k.first \in Int /\ k.last \in Int /\ k.first <= k.last
        /\ last_seg_offset \in Int
    <3>1. k \in Chunk
      BY <1>5
    <3> QED
      BY <1>0, <3>1, ChunkBounds, LinkBounds
  <2> QED
    BY <2>1, <2>2
<1>9. /\ j \in Conn /\ j # i /\ \A c \in Conn : c = i \/ c = j
      /\ connection[i] # NULL
  BY <1>0 DEF Other, Conn, Handled, Scheduling
<1>10. /\ connection \in [Conn -> SegId \cup {NULL}]
       /\ enabled \in [Conn -> BOOLEAN] /\ net \in [Conn -> Socketed]
       /\ currentbyte \in [Conn -> 0 .. Size] /\ lastbyte \in [Conn -> 0 .. Size - 1]
  BY <1>0 DEF TypeOK
<1> DEFINE asked == Sent(net[j], share[j])
           joins == connection[j] = NULL /\ share[j] # {}
           starts == joins /\ HasHeader(asked)
<1>11. /\ net' = [c \in Conn |-> IF c = i THEN Sent(net[i], share[i])
                                 ELSE IF joins THEN HeaderRead(asked) ELSE asked]
       /\ pipeline_requests_sent' =
            [c \in Conn |-> /\ pipeline_requests_sent[c] \/ share[c] # {}
                            /\ ~(c = j /\ starts)]
       /\ enabled' = [enabled EXCEPT ![j] = @ \/ starts]
       /\ connection' = [connection EXCEPT ![j] = IF joins THEN t ELSE @]
       /\ currentbyte' = [currentbyte EXCEPT
            ![j] = IF joins THEN FirstChunk(share[j]).first ELSE @]
       /\ lastbyte' = [lastbyte EXCEPT
            ![j] = IF joins THEN FirstChunk(share[j]).last ELSE @]
       /\ disk' = disk /\ UNCHANGED threadVars
  BY <1>3 DEF AddsAndRequests, fileVars
<1>12. \A c \in Conn, s \in SegId :
         subsegment'[s][c] = IF s = t THEN share[c] ELSE subsegment[s][c]
  BY <1>4
<1> HIDE DEF t, j, starts, asked
<1>13. ASSUME NEW c \in Conn, connection[c] # NULL,
              connection'[c] = connection[c], enabled'[c] = enabled[c],
              net'[c] = Sent(net[c], share[c]), currentbyte'[c] = currentbyte[c],
              lastbyte'[c] = lastbyte[c],
              pipeline_requests_sent'[c] =
                (pipeline_requests_sent[c] \/ share[c] # {})
       PROVE  Linked(c)'
  <2>1. Linked(c) /\ share[c] \in SUBSET Chunk
    BY <1>5 DEF InFlight
  <2>2. /\ \A s \in SegId : subsegment[s][c] # {} => s < t
        /\ \A s \in SegId : subsegment'[s][c] = IF s = t THEN share[c]
                                                ELSE subsegment[s][c]
        /\ \A s \in SegId : subsegment[s][c] \cap share[c] = {}
        /\ connection[c] < t
    BY <1>6, <1>7, <1>8, <1>12
  <2> QED
    BY <1>0, <1>6, <1>13, <2>1, <2>2, SentLinked
<1>14. Linked(i)'
  BY <1>9, <1>10, <1>11, <1>13
<1>15. Linked(j)'
  <2>1. CASE connection[j] # NULL
    <3>1. ~joins /\ ~starts
      BY <2>1 DEF starts
    <3>2. /\ connection'[j] = connection[j] /\ enabled'[j] = enabled[j]
          /\ net'[j] = Sent(net[j], share[j]) /\ currentbyte'[j] = currentbyte[j]
          /\ lastbyte'[j] = lastbyte[j]
          /\ pipeline_requests_sent'[j] =
               (pipeline_requests_sent[j] \/ share[j] # {})
      BY <1>9, <1>10, <1>11, <3>1 DEF asked
    <3> QED
      BY <1>9, <1>13, <2>1, <3>2
  <2>2. CASE connection[j] = NULL /\ share[j] = {}
    <3>1. ~joins /\ ~starts
      BY <2>2 DEF starts
    <3>2. /\ connection'[j] = NULL /\ enabled'[j] = enabled[j]
          /\ net'[j] = Sent(net[j], {})
      BY <1>9, <1>10, <1>11, <2>2, <3>1 DEF asked
    <3>3. net'[j] = net[j]
      BY <3>2 DEF Sent, Requested
    <3> QED
      BY <1>9, <2>2, <3>2, <3>3 DEF InFlight, Linked, Left
  <2>3. CASE joins
    <3>1. AtItsChunk(j) /\ Linked(j) /\ connection[j] = NULL
      BY <1>0, <1>9, <2>3 DEF Positioned, InFlight
    <3>2. /\ \A s \in SegId : subsegment[s][j] = {}
          /\ ~enabled[j] /\ net[j].fd \in {"open", "closed"}
          /\ net[j].requests = <<>> /\ Left(net[j]) <= 0
      BY <3>1 DEF AtItsChunk, Linked
    <3>3. \A s \in SegId : subsegment'[s][j] = IF s = t THEN share[j] ELSE {}
      BY <1>9, <1>12, <3>2
    <3>4. /\ connection'[j] = t /\ net'[j] = HeaderRead(asked)
          /\ currentbyte'[j] = FirstChunk(share[j]).first
          /\ lastbyte'[j] = FirstChunk(share[j]).last
      BY <1>9, <1>10, <1>11, <2>3
    <3>5. /\ share[j] \in SUBSET Chunk /\ share[j] # {} /\ net[j] \in Socketed
      BY <1>5, <1>9, <1>10, <2>3
    <3>6. HasHeader(asked)
      <4>1. /\ asked.fd = "open" /\ asked.requests = <<share[j]>>
            /\ Left(asked) <= 0
        BY <3>2, <3>5, SentFresh DEF asked
      <4>2. <<share[j]>> # <<>>
        OBVIOUS
      <4> QED
        BY <4>1, <4>2 DEF HasHeader
    <3>7. enabled'[j] /\ ~pipeline_requests_sent'[j]
      BY <1>9, <1>10, <1>11, <2>3, <3>6 DEF starts
    <3> QED
      BY <1>6, <1>9, <3>2, <3>3, <3>4, <3>5, <3>7, JoinsLinked DEF asked
  <2> QED
    BY <2>1, <2>2, <2>3
<1> QED
  BY <1>9, <1>11, <1>14, <1>15 DEF InFlight, DataAtItsOffset

\* perform_recovery: the other link is disconnected, with all that was in
\* flight on it, and reconnects for its part of what is divided again.
LEMMA RecoverInFlight ==
  ASSUME Bookkeeping, Bookkeeping', InFlight, NEW i \in Conn, Recover(i)
  PROVE  InFlight'
<1> DEFINE j == Other(i)
           t == segment_count + 1
<1>0. /\ TypeOK /\ Disjoint /\ Placed /\ Positioned
      /\ Scheduling(i) /\ segment_count < MaxSegments
      /\ connection[j] # NULL /\ Handled
  BY DEF Bookkeeping, EachByteOnce, Recover, ConsidersRecovery, Proceeds
<1>1. /\ j \in Conn /\ j # i /\ \A c \in Conn : c = i \/ c = j
      /\ connection[i] # NULL
  BY <1>0 DEF Other, Conn, Handled, Scheduling
<1>2. ~Done(j)
  BY <1>0, <1>1 DEF Handled, Scheduling, Stopped
<1>3. PICK n \in RecoverySizes :
        \E cut \in Bytes(Outstanding(j) \cup Extra(n)) \cup {Size} :
          Redivides(i, Outstanding(j) \cup Extra(n),
                    Division(Outstanding(j) \cup Extra(n), i, cut))
  BY DEF Recover, Extra
<1> DEFINE all == Outstanding(j) \cup Extra(n)
<1>4. PICK cut \in Bytes(all) \cup {Size} : Redivides(i, all, Division(all, i, cut))
  BY <1>3
<1> DEFINE share == Division(all, i, cut)
<1>5. all \in SUBSET Chunk /\ AllApart(all) /\ Reach(all) \in Byte
  <2> HIDE DEF j
  <2> QED
    BY <1>0, <1>1, <1>2, <1>3, RecoveredOnce
<1> HIDE DEF all
<1>6. cut \in Int
  <2>1. Bytes(all) \subseteq Byte
    BY <1>5, BytesIn
  <2>2. Byte \subseteq Int /\ Size \in Int
    BY <1>0, LinkBounds DEF Byte
  <2> QED
    BY <2>1, <2>2
<1>7. share \in [Conn -> SUBSET Chunk]
  BY <1>5, <1>6, DivisionOnce
<1> HIDE DEF share
<1>8. Redivides(i, all, share)
  BY <1>4 DEF share
<1>9. \A s \in SegId, c \in Conn :
        subsegment'[s][c] = IF s = t THEN share[c]
                            ELSE IF c = i THEN subsegment[s][c] ELSE {}
  BY <1>0, <1>5, <1>7, <1>8, RedividesTypes
<1>10. /\ t \in SegId
       /\ \A c \in Conn : subsegment[t][c] = {} /\ connection[c] < t
  BY <1>0, NewSegmentIsNew
<1>11. /\ connection \in [Conn -> SegId \cup {NULL}]
       /\ enabled \in [Conn -> BOOLEAN] /\ net \in [Conn -> Socketed]
       /\ currentbyte \in [Conn -> 0 .. Size] /\ lastbyte \in [Conn -> 0 .. Size - 1]
  BY <1>0 DEF TypeOK
<1> DEFINE resumes == share[j] # {}
           h == FirstChunk(share[j])
<1>12. /\ net' = [c \in Conn |-> IF c = i THEN Sent(net[i], share[i])
                                 ELSE IF resumes
                                 THEN HeaderRead(Sent(Closed, share[j]))
                                 ELSE Closed]
       /\ pipeline_requests_sent' =
            [c \in Conn |-> IF c = j THEN pipeline_requests_sent[j] /\ ~resumes
                            ELSE pipeline_requests_sent[c] \/ share[c] # {}]
       /\ enabled' = [enabled EXCEPT ![j] = resumes]
       /\ connection' = [connection EXCEPT ![j] = IF resumes THEN t ELSE NULL]
       /\ currentbyte' = [currentbyte EXCEPT ![j] = IF resumes THEN h.first ELSE 1]
       /\ lastbyte' = [lastbyte EXCEPT ![j] = IF resumes THEN h.last ELSE 0]
       /\ disk' = disk /\ UNCHANGED threadVars
  BY <1>8 DEF Redivides, fileVars, Disconnected
<1>13. /\ Closed \in Socketed /\ Closed.fd = "closed"
       /\ Closed.requests = <<>> /\ Left(Closed) <= 0
  BY FreshSockets DEF Closed, Socket, NoResponse, Left
<1>14. \A s \in SegId : subsegment[s][i] \cap share[i] = {}
  <2> SUFFICES ASSUME NEW s \in SegId PROVE subsegment[s][i] \cap share[i] = {}
    OBVIOUS
  <2>1. CASE s = t
    BY <1>10, <2>1
  <2>2. CASE s # t
    <3>1. /\ subsegment'[s][i] = subsegment[s][i] /\ subsegment'[t][i] = share[i]
          /\ subsegment[s][i] \in SUBSET Chunk /\ share[i] \in SUBSET Chunk
      BY <1>0, <1>7, <1>9, <1>10, <2>2 DEF TypeOK
    <3>2. \A k \in subsegment'[s][i], m \in subsegment'[t][i] : Apart(k, m)
      <4>1. Disjoint'
        BY DEF Bookkeeping, EachByteOnce
      <4> HIDE DEF t
      <4> QED
        BY <1>10, <2>2, <4>1 DEF Disjoint
    <3> QED
      BY <3>1, <3>2, ApartLists
  <2> QED
    BY <2>1, <2>2
<1>15. \A s \in SegId : subsegment[s][i] # {} => s < t
  <2> SUFFICES ASSUME NEW s \in SegId, NEW k \in subsegment[s][i] PROVE s < t
    OBVIOUS
  <2>1. s <= segment_count
    BY <1>0 DEF Placed
  <2>2. s \in Int /\ segment_count \in Int
    BY <1>0, LinkBounds
  <2> QED
    BY <2>1, <2>2
<1> HIDE DEF t, j, h
<1>16. Linked(i)'
  <2>1. /\ connection'[i] = connection[i] /\ enabled'[i] = enabled[i]
        /\ net'[i] = Sent(net[i], share[i]) /\ currentbyte'[i] = currentbyte[i]
        /\ lastbyte'[i] = lastbyte[i]
        /\ pipeline_requests_sent'[i] =
             (pipeline_requests_sent[i] \/ share[i] # {})
    BY <1>1, <1>11, <1>12
  <2>2. /\ \A s \in SegId : subsegment'[s][i] = IF s = t THEN share[i]
                                                ELSE subsegment[s][i]
        /\ connection[i] < t /\ Linked(i) /\ share[i] \in SUBSET Chunk
    BY <1>7, <1>9, <1>10 DEF InFlight
  <2> QED
    BY <1>0, <1>1, <1>10, <1>14, <1>15, <2>1, <2>2, SentLinked
<1>17. Linked(j)'
  <2>1. CASE resumes
    <3>1. \A s \in SegId : subsegment'[s][j] = IF s = t THEN share[j] ELSE {}
      BY <1>1, <1>9
    <3>2. /\ connection'[j] = t /\ net'[j] = HeaderRead(Sent(Closed, share[j]))
          /\ currentbyte'[j] = FirstChunk(share[j]).first
          /\ lastbyte'[j] = FirstChunk(share[j]).last
          /\ enabled'[j] /\ ~pipeline_requests_sent'[j]
      BY <1>1, <1>11, <1>12, <2>1 DEF h
    <3>3. share[j] \in SUBSET Chunk /\ share[j] # {}
      BY <1>1, <1>7, <2>1
    <3> QED
      BY <1>1, <1>10, <1>13, <3>1, <3>2, <3>3, JoinsLinked
  <2>2. CASE ~resumes
    <3>1. connection'[j] = NULL /\ ~enabled'[j] /\ net'[j] = Closed
      BY <1>1, <1>11, <1>12, <2>2
    <3> QED
      BY <1>13, <3>1 DEF Linked, Left
  <2> QED
    BY <2>1, <2>2
<1> QED
  BY <1>1, <1>12, <1>16, <1>17 DEF InFlight, DataAtItsOffset
-----------------------------------------------------------------------------
(* Links that do not fail                                                  *)

\* gb_open: each link has all of its part of the first segment in flight.
LEMMA InitInFlight == ASSUME Reliable, Bookkeeping, Init PROVE InFlight
<1> DEFINE all == {[first |-> 0, last |-> InitSegSize - 1]}
           from(cut, c) == IF c = 0 THEN 0 ELSE cut
           upto(cut, c) == IF c = 0 THEN cut - 1 ELSE InitSegSize - 1
           Share(cut) == [c \in Conn |-> IF c = 0 THEN Below(all, cut)
                                         ELSE Above(all, cut)]
<1>1. PICK cut \in 1 .. InitSegSize - 1 :
        /\ subsegment = [s \in SegId |-> IF s = 1 THEN Share(cut)
                                         ELSE NoSubsegment]
        /\ connection = [c \in Conn |-> 1]
        /\ currentbyte = [c \in Conn |-> from(cut, c)]
        /\ lastbyte = [c \in Conn |-> upto(cut, c)]
        /\ net = [c \in Conn |->
                    IF Connected
                    THEN [Open EXCEPT !.response = [first |-> from(cut, c),
                                                    last |-> upto(cut, c)]]
                    ELSE IF c = 0 THEN Closed ELSE Unset]
  BY DEF Init
<1>2. /\ enabled = [c \in Conn |-> TRUE]
      /\ pipeline_requests_sent = [c \in Conn |-> FALSE]
      /\ disk = [b \in Byte |-> NoByte]
      /\ thread = [c \in Conn |-> "none"]
  BY DEF Init, Reliable
<1>3. /\ TypeOK /\ Positioned
      /\ \A s \in SegId : s \in Int
      /\ InitSegSize \in Int /\ cut \in Int /\ 1 <= cut /\ cut <= InitSegSize - 1
  BY InitSegAssumption, LinkBounds DEF Bookkeeping
<1>4. \E k : Below(all, cut) \subseteq {k}
  <2>1. Below(all, cut) \subseteq
          {[first |-> 0, last |-> IF InitSegSize - 1 < cut THEN InitSegSize - 1
                                  ELSE cut - 1]}
    BY DEF Below
  <2> QED
    BY <2>1
<1>5. \E k : Above(all, cut) \subseteq {k}
  <2>1. Above(all, cut) \subseteq
          {[first |-> IF 0 < cut THEN cut ELSE 0, last |-> InitSegSize - 1]}
    BY DEF Above
  <2> QED
    BY <2>1
<1>6. DataAtItsOffset
  BY <1>2 DEF DataAtItsOffset
<1>7. ASSUME NEW c \in Conn PROVE Linked(c)
  <2>1. connection[c] = 1 /\ connection[c] # NULL /\ 1 \in SegId
    BY <1>1, BoundAssumption DEF NULL, SegId
  <2>2. /\ subsegment[1][c] # {} /\ subsegment[1][c] \subseteq Chunk
    BY <1>3, <2>1 DEF Positioned, AtItsChunk, TypeOK
  <2>3. \E k : subsegment[1][c] \subseteq {k}
    BY <1>1, <1>4, <1>5, <2>1
  <2>4. subsegment[1][c] = {FirstChunk(subsegment[1][c])}
    BY <2>2, <2>3, FirstChunkIsFirst
  <2>5. \A s \in SegId : s # 1 => subsegment[s][c] = {}
    BY <1>1 DEF NoSubsegment
  <2>6. Awaited(c) = {}
    BY <2>1, <2>4, <2>5 DEF Awaited, Batches
  <2>7. Open.fd = "open" /\ Open.requests = <<>> /\ Open \in Socketed
    BY FreshSockets DEF Open, Socket
  <2>8. /\ net[c].fd = "open" /\ net[c].requests = <<>>
        /\ net[c].response = [first |-> currentbyte[c], last |-> lastbyte[c]]
    <3>1. net[c] = [Open EXCEPT !.response = [first |-> currentbyte[c],
                                              last |-> lastbyte[c]]]
      BY <1>1 DEF Reliable
    <3> QED
      BY <2>7, <3>1 DEF Socketed
  <2>9. Lists(<<>>, {}, Batches(c))
    BY EmptyQueue
  <2> QED
    BY <1>2, <2>1, <2>6, <2>8, <2>9 DEF Linked
<1> QED
  BY <1>2, <1>6, <1>7 DEF InFlight

\* No step breaks what is in flight.
LEMMA NextInFlight ==
  ASSUME Reliable, Bookkeeping, Bookkeeping', InFlight, [Next]_vars
  PROVE  InFlight'
<1>1. ASSUME NEW i \in Conn, NEW n \in 1 .. BufferSize, Receive(i, n)
      PROVE  InFlight'
  BY <1>1, ReceiveInFlight
<1>2. ASSUME NEW i \in Conn, Schedule(i) PROVE InFlight'
  BY <1>2, QuietSteps, NewSegmentInFlight, RecoverInFlight DEF Schedule
<1>3. ASSUME NEW i \in Conn, Finish(i) PROVE InFlight'
  BY <1>3, NextChunkInFlight, NextSubsegmentInFlight, GoesIdleInFlight DEF Finish
<1>4. ASSUME NEW i \in Conn
      PROVE  /\ ~ReadFails(i) /\ ~CheckConn(i) /\ ~SetupThread(i)
             /\ ~ServerCloses(i) /\ ~EngineFails
  BY NoRestarts
<1>5. ASSUME Account \/ Ready \/ Terminated \/ UNCHANGED vars PROVE InFlight'
  <2>1. 0 \in Conn
    BY DEF Conn
  <2> QED
    BY <1>5, <2>1, QuietSteps
<1>6. ~EngineFails
  BY <1>4 DEF Conn
<1> QED
  BY <1>1, <1>2, <1>3, <1>4, <1>5, <1>6 DEF Next, MainLoop, Threads

\* On reliable links the bookkeeping and what is in flight agree, always.
THEOREM SynchronisedHolds == ASSUME Reliable PROVE Spec => []Synchronised
<1>1. Init => Bookkeeping /\ InFlight
  BY InitBookkeeping, InitInFlight
<1>2. Bookkeeping /\ InFlight /\ [Next]_vars => (Bookkeeping /\ InFlight)'
  BY NextBookkeeping, NextInFlight
<1>3. Bookkeeping /\ InFlight => Synchronised
  BY DEF InFlight, Synchronised
<1> QED
  BY <1>1, <1>2, <1>3, PTL DEF Spec

\* The server's answers come in the order in which the links expect them,
\* through pipelining, division and recovery.
THEOREM InFlightMatchesHolds == ASSUME Reliable PROVE Spec => []InFlightMatches
<1>1. Synchronised => InFlightMatches
  BY DEF Synchronised, InFlightMatches, Linked
<1> QED
  BY <1>1, SynchronisedHolds, PTL

\* algo_general writes each byte of the file at its own offset.
THEOREM DataAtItsOffsetHolds == ASSUME Reliable PROVE Spec => []DataAtItsOffset
<1>1. Synchronised => DataAtItsOffset
  BY DEF Synchronised
<1> QED
  BY <1>1, SynchronisedHolds, PTL

\* finish_downloading_subseg can go by pipeline_requests_sent.
THEOREM PipelineFlagMeansQueuedHolds ==
  ASSUME Reliable PROVE Spec => []PipelineFlagMeansQueued
<1>1. Synchronised => PipelineFlagMeansQueued
  BY DEF Synchronised, Bookkeeping, Flagged, PipelineFlagMeansQueued, Linked
<1> QED
  BY <1>1, SynchronisedHolds, PTL

\* Every byte that is scheduled will be asked for.
THEOREM NothingStrandedHolds == ASSUME Reliable PROVE Spec => []NothingStranded
<1>1. ASSUME Synchronised, NEW c \in Conn, Owed(c) # {}
      PROVE  net[c].fd = "open" /\ enabled[c]
  <2>1. PICK s \in SegId : subsegment[s][c] # {}
    BY <1>1 DEF Owed
  <2>2. connection[c] # NULL
    BY <1>1, <2>1 DEF Synchronised, Bookkeeping, Positioned, AtItsChunk
  <2> QED
    BY <1>1, <2>2 DEF Synchronised, Linked
<1>2. Synchronised => NothingStranded
  BY <1>1 DEF NothingStranded
<1> QED
  BY <1>2, SynchronisedHolds, PTL

\* The engine is ready (gb.c, gb->ready = 1) only with the file, byte for byte.
THEOREM ReadyIsCompleteHolds == ASSUME Reliable PROVE Spec => []ReadyIsComplete
<1>1. (pc = "done" => Stored = Byte) /\ DataAtItsOffset => ReadyIsComplete
  BY DEF ReadyIsComplete, DataAtItsOffset, Stored
<1> QED
  BY <1>1, ReadyIsFull, DataAtItsOffsetHolds, PTL

\* finish_downloading_subseg (gb.c) never goes on with a NULL segment.  Only the
\* search for the blocking chunk can fail (get_bn_chunk_info), which recovery
\* and the choice of a link mode rely on.
THEOREM NeverCrashesHolds ==
  ASSUME Reliable, ~RecoveryMode, ~MinimumEnergyMode
  PROVE  Spec => []NeverCrashes
<1>1. Init => NeverCrashes
  BY DEF Init, NeverCrashes
<1>2. ASSUME Synchronised, NeverCrashes, [Next]_vars PROVE NeverCrashes'
  <2>1. Bookkeeping /\ InFlight
    BY <1>2 DEF Synchronised, InFlight
  <2>2. ASSUME NEW i \in Conn, NEW n \in 1 .. BufferSize, Receive(i, n)
        PROVE  NeverCrashes'
    BY <2>2 DEF Receive, NeverCrashes
  <2>3. ASSUME NEW i \in Conn, Schedule(i) PROVE NeverCrashes'
    <3>1. ~Crash(i)
      BY DEF Crash, ConsidersRecovery, ChoosesLinkMode
    <3>2. AfterSchedule(i) # "crashed"
      BY DEF AfterSchedule
    <3>3. CASE NewSegment(i)
      <4>1. pc' = "exited" \/ pc' = AfterSchedule(i)
        BY <3>3 DEF NewSegment, AddsAndRequests
      <4> QED
        BY <3>2, <4>1 DEF NeverCrashes
    <3>4. ~Recover(i)
      BY DEF Recover, ConsidersRecovery
    <3>5. CASE NothingLeft(i)
      <4>1. pc' = "exited" \/ pc' = AfterSchedule(i)
        BY <3>5 DEF NothingLeft
      <4> QED
        BY <3>2, <4>1 DEF NeverCrashes
    <3>6. CASE LastSegmentRequested(i) \/ StaysBehind(i) \/ SendFails(i)
      BY <3>2, <3>6 DEF LastSegmentRequested, StaysBehind, SendFails, NeverCrashes
    <3> QED
      BY <2>3, <3>1, <3>3, <3>4, <3>5, <3>6 DEF Schedule
  <2>4. ASSUME NEW i \in Conn, Finish(i) PROVE NeverCrashes'
    <3>1. CASE NextSubsegment(i)
      BY <2>1, <3>1, NextSubsegmentInFlight DEF NeverCrashes
    <3>2. CASE NextChunk(i) \/ GoesIdle(i)
      BY <3>2 DEF NextChunk, GoesIdle, NeverCrashes
    <3> QED
      BY <2>4, <3>1, <3>2 DEF Finish
  <2>5. CASE Account \/ Ready \/ Terminated \/ UNCHANGED vars
    BY <1>2, <2>5 DEF Account, Ready, Terminated, vars, NeverCrashes
  <2>6. ASSUME NEW i \in Conn
        PROVE  /\ ~ReadFails(i) /\ ~CheckConn(i) /\ ~SetupThread(i)
               /\ ~ServerCloses(i) /\ ~EngineFails
    BY <2>1, NoRestarts
  <2>7. ~EngineFails
    BY <2>6 DEF Conn
  <2> QED
    BY <1>2, <2>2, <2>3, <2>4, <2>5, <2>6, <2>7 DEF Next, MainLoop, Threads
<1> QED
  BY <1>1, <1>2, SynchronisedHolds, PTL DEF Spec
-----------------------------------------------------------------------------
(* The in-order offset in the plain mode                                   *)

Plain == /\ Reliable
         /\ FixedSegmentMode
         /\ ~RecoveryMode
         /\ ~MinimumEnergyMode

AllScheduled == last_seg_offset = Size - 1

\* Segments lie behind each other in the file.
InSequence ==
  \A s, t \in SegId, c, d \in Conn : s < t =>
    \A k \in subsegment[s][c], m \in subsegment[t][d] : k.last < m.first

\* What the engine takes for the last segment is the last segment.
LastIsLast ==
  /\ \A s \in SegId : segment[s].last <= last_seg_offset
  /\ \A c \in Conn : last_segment_flag[c] => AllScheduled

\* A link that has a segment is not taken for idle, so that the engine adds
\* segments for it in time.
NoneIdled ==
  /\ link_mode = DUAL_LINK_MODE
  /\ \A c \in Conn : connection[c] # NULL => ~conn_idle[c]

\* The links run out of chunks together only at the end of the file, and the
\* last one is about to do so only then.
IdleAtEnd ==
  /\ (\A c \in Conn : connection[c] = NULL) => AllScheduled
  /\ pc = "finish" /\ ~pipeline_requests_sent[at] /\ connection[Other(at)] = NULL
       => AllScheduled

\* What may be played is stored.
Shown == inorder_offset <= Size - 1 /\ InorderIsStored

Running == pc \notin {"crashed", "exited"}

Orderly == LastIsLast /\ NoneIdled /\ InSequence /\ IdleAtEnd /\ Shown /\ Running

\* A byte of the segments that no link owes is stored.
LEMMA NotOwedIsStored ==
  ASSUME Covered, NEW b \in Byte, b <= last_seg_offset,
         \A c \in Conn : b \notin Owed(c)
  PROVE  b \in Stored
BY DEF Covered

\* The byte at the position of a busy link is owed, and so is the first one of
\* each of its other subsegments.
LEMMA PositionsOwed ==
  ASSUME TypeOK, Placed, Positioned, NEW c \in Conn, connection[c] # NULL, ~Done(c)
  PROVE  /\ currentbyte[c] \in Owed(c)
         /\ currentbyte[c] <= last_seg_offset
         /\ \A m \in Starts(subsegment, c) : m \in Owed(c)
<1> DEFINE x == connection[c]
           h == FirstChunk(subsegment[x][c])
<1>1. /\ x \in SegId /\ subsegment[x][c] # {}
      /\ lastbyte[c] = h.last /\ currentbyte[c] \in h.first .. h.last + 1
  BY LinkBounds DEF Positioned, AtItsChunk
<1>2. \A s \in SegId : subsegment[s][c] \subseteq Chunk
  BY DEF TypeOK
<1>3. /\ \A b \in Byte : b \in Int
      /\ \A b \in Int : 0 <= b /\ b <= Size - 1 => b \in Byte
      /\ Size \in Int /\ last_seg_offset \in Int /\ last_seg_offset <= Size - 1
      /\ currentbyte[c] \in Int /\ lastbyte[c] \in Int
  <2>1. Size \in Int
    BY LinkBounds
  <2> QED
    BY <2>1, LinkBounds DEF Byte
<1>4. /\ h \in subsegment[x][c] /\ h \in Chunk
  BY <1>1, <1>2, FirstChunkIsFirst
<1>5. /\ h.first \in Int /\ h.last \in Int /\ 0 <= h.first
      /\ h.last <= last_seg_offset
  BY <1>1, <1>4, ChunkBounds DEF Placed
<1> HIDE DEF h
<1>6. /\ h.first <= currentbyte[c] /\ currentbyte[c] <= h.last
  BY <1>1, <1>3, <1>5 DEF Done
<1>7. currentbyte[c] \in Byte /\ currentbyte[c] \in h.first .. h.last
      /\ currentbyte[c] <= last_seg_offset
  BY <1>3, <1>5, <1>6
<1>8. currentbyte[c] \in Owed(c)
  BY <1>1, <1>3, <1>4, <1>7 DEF Owed
<1>9. ASSUME NEW s \in SegId, s # x, subsegment[s][c] # {}
      PROVE  FirstChunk(subsegment[s][c]).first \in Owed(c)
  <2> DEFINE k == FirstChunk(subsegment[s][c])
  <2>1. k \in subsegment[s][c] /\ k \in Chunk
    BY <1>2, <1>9, FirstChunkIsFirst
  <2>2. k.first \in Byte /\ k.first \in k.first .. k.last
    BY <1>3, <2>1, ChunkBounds
  <2> QED
    BY <1>9, <2>1, <2>2 DEF Owed
<1> QED
  BY <1>7, <1>8, <1>9 DEF Starts

\* Nothing a busy link owes lies before its position, if segments are in
\* sequence, and nothing of it before the earliest of its chunks in any case.
LEMMA OwesBehind ==
  ASSUME TypeOK, Positioned, NEW c \in Conn, connection[c] # NULL, ~Done(c),
         NEW b \in Byte, b < currentbyte[c],
         InSequence \/ \A m \in Starts(subsegment, c) : b < m
  PROVE  b \notin Owed(c)
<1> DEFINE x == connection[c]
           h == FirstChunk(subsegment[x][c])
<1> SUFFICES ASSUME b \in Owed(c) PROVE FALSE
  OBVIOUS
<1>1. /\ x \in SegId /\ x \in Int /\ \A s \in SegId : s \in Int
      /\ subsegment[x][c] # {} /\ lastbyte[c] = h.last
      /\ \A s \in SegId : s < x => subsegment[s][c] = {}
  BY LinkBounds DEF Positioned, AtItsChunk
<1>2. \A s \in SegId : subsegment[s][c] \subseteq Chunk
  BY DEF TypeOK
<1>3. h \in subsegment[x][c] /\ h.last \in Int
  BY <1>1, <1>2, FirstChunkIsFirst, ChunkBounds
<1>4. b \in Int /\ currentbyte[c] \in Int /\ lastbyte[c] \in Int
  BY LinkBounds DEF Byte
<1>5. PICK s \in SegId : \E k \in subsegment[s][c] :
        b \in k.first .. k.last /\ ~(s = x /\ b < currentbyte[c])
  BY DEF Owed
<1>6. PICK k \in subsegment[s][c] : b \in k.first .. k.last
  BY <1>5
<1>7. /\ k.first \in Int /\ k.last \in Int /\ k.first <= b
  BY <1>2, <1>6, ChunkBounds
<1>8. s > x /\ subsegment[s][c] # {}
  BY <1>1, <1>5, <1>6
<1>9. CASE InSequence
  <2>1. h.last < k.first
    BY <1>1, <1>3, <1>6, <1>8, <1>9 DEF InSequence
  <2>2. currentbyte[c] <= h.last
    BY <1>1, <1>3, <1>4 DEF Done
  <2> HIDE DEF h
  <2> QED
    BY <1>3, <1>4, <1>7, <2>1, <2>2
<1>10. CASE \A m \in Starts(subsegment, c) : b < m
  <2> DEFINE f == FirstChunk(subsegment[s][c])
  <2>1. f \in subsegment[s][c] /\ f.first <= k.first
    BY <1>2, <1>6, <1>8, FirstChunkIsFirst
  <2>2. f.first \in Starts(subsegment, c)
    BY <1>1, <1>8 DEF Starts
  <2>3. f.first \in Int /\ b < f.first
    BY <1>2, <1>10, <2>1, <2>2, ChunkBounds
  <2> HIDE DEF f
  <2> QED
    BY <1>4, <1>7, <2>1, <2>3
<1> QED
  BY <1>9, <1>10

\* update_inorder_offset finds the first byte that is not stored, or the end
\* of the file.
LEMMA FoundInorderIsFirst ==
  ASSUME Bookkeeping, InSequence, IdleAtEnd, pc = "account",
         NEW f, f = FoundInorder(subsegment)
  PROVE  /\ f \in Byte
         /\ \A b \in Byte : b < f => b \in Stored
         /\ f = Size - 1 \/ f \notin Stored
<1>0. /\ TypeOK /\ Covered /\ Disjoint /\ Placed /\ Positioned /\ Handled
  BY DEF Bookkeeping, EachByteOnce
<1>1. \A c \in Conn : connection[c] # NULL => ~Done(c)
  BY <1>0 DEF Handled, Stopped
<1>2. /\ Size \in Int /\ Size >= 1 /\ \A b \in Byte : b \in Int /\ b <= Size - 1
      /\ Size - 1 \in Byte /\ last_seg_offset \in Int
  <2>1. Size \in Int /\ Size >= 1
    BY <1>0, LinkBounds
  <2> QED
    BY <1>0, <2>1, LinkBounds DEF Byte
<1>3. ASSUME NEW c \in Conn PROVE Idle[c] <=> connection[c] = NULL
  <2>1. currentbyte[c] \in Int /\ lastbyte[c] \in Int
    BY <1>0, LinkBounds
  <2>2. Idle[c] <=> currentbyte[c] = lastbyte[c] + 1
    BY DEF Idle
  <2>3. CASE connection[c] = NULL
    BY <1>0, <2>2, <2>3 DEF Positioned, AtItsChunk
  <2>4. CASE connection[c] # NULL
    BY <1>1, <2>1, <2>2, <2>4 DEF Done
  <2> QED
    BY <2>3, <2>4
<1>4. \A c \in Conn : connection[c] = NULL => Owed(c) = {}
  BY <1>0 DEF Positioned, AtItsChunk, Owed
<1>5. \A c \in Conn : connection[c] # NULL =>
        /\ currentbyte[c] \in Owed(c) /\ currentbyte[c] <= last_seg_offset
        /\ \A m \in Starts(subsegment, c) : m \in Owed(c)
  BY <1>0, <1>1, PositionsOwed
<1>6. /\ \A c \in Conn : Owed(c) \subseteq Byte
      /\ \A c \in Conn : \A b \in Owed(c) : b \notin Stored
  BY <1>0 DEF Covered, Owed
<1>7. 0 \in Conn /\ 1 \in Conn /\ \A c \in Conn : c = 0 \/ c = 1
  BY DEF Conn
<1>7a. Idle[0] \in BOOLEAN /\ Idle[1] \in BOOLEAN
  BY <1>0, <1>7, IdleType
<1>8. CASE Idle[0] /\ Idle[1]
  <2>1. f = Size - 1
    BY <1>8 DEF FoundInorder
  <2>2. last_seg_offset = Size - 1
    BY <1>3, <1>7, <1>8 DEF IdleAtEnd, AllScheduled
  <2>3. \A b \in Byte : b \in Stored
    BY <1>0, <1>2, <1>3, <1>4, <1>7, <1>8, <2>2, NotOwedIsStored
  <2> QED
    BY <1>2, <2>1, <2>3
<1>9. ASSUME NEW c \in Conn, NEW d \in Conn, Idle[c], ~Idle[d],
             f = currentbyte[d]
      PROVE  /\ f \in Byte /\ f \notin Stored
             /\ \A b \in Byte : b < f => b \in Stored
  <2>1. connection[d] # NULL /\ Owed(c) = {} /\ \A e \in Conn : e = c \/ e = d
    BY <1>3, <1>4, <1>7, <1>9
  <2>2. f \in Byte /\ f \notin Stored /\ f <= last_seg_offset
    BY <1>5, <1>6, <1>9, <2>1
  <2>3. ASSUME NEW b \in Byte, b < f PROVE b \in Stored
    <3>1. b \notin Owed(d)
      BY <1>0, <1>1, <1>9, <2>1, <2>3, OwesBehind
    <3>2. b <= last_seg_offset
      BY <1>2, <2>2, <2>3
    <3> QED
      BY <1>0, <2>1, <3>1, <3>2, NotOwedIsStored
  <2> QED
    BY <2>2, <2>3
<1>10. CASE ~Idle[0] /\ ~Idle[1]
  <2> DEFINE S == UNION {{currentbyte[c]} \cup Starts(subsegment, c) : c \in Conn}
  <2>1. \A c \in Conn : connection[c] # NULL
    BY <1>3, <1>7, <1>10
  <2>2. \A m \in S : m \in Byte /\ m \notin Stored
    <3>1. \A m \in S : \E c \in Conn : m = currentbyte[c] \/ m \in Starts(subsegment, c)
      OBVIOUS
    <3> HIDE DEF S
    <3> QED
      BY <1>5, <1>6, <2>1, <3>1
  <2>3. \A c \in Conn : /\ currentbyte[c] \in S
                        /\ \A m \in Starts(subsegment, c) : m \in S
    OBVIOUS
  <2>4. f = Earliest(S)
    BY <1>7a, <1>10 DEF FoundInorder
  <2> HIDE DEF S
  <2>5. \E m \in S : \A b \in S : m <= b
    <3>1. S \subseteq Nat
      BY <2>2 DEF Byte
    <3>2. S # {}
      BY <1>7, <2>3
    <3> QED
      BY <3>1, <3>2, LeastNat
  <2>6. f \in S /\ \A b \in S : f <= b
    BY <2>4, <2>5 DEF Earliest
  <2>7. ASSUME NEW b \in Byte, b < f PROVE b \in Stored
    <3>1. \A m \in S : m \in Int /\ b < m
      BY <1>2, <2>2, <2>6, <2>7
    <3>2. ASSUME NEW c \in Conn PROVE b \notin Owed(c)
      <4>1. b < currentbyte[c] /\ \A m \in Starts(subsegment, c) : b < m
        BY <2>3, <3>1
      <4> QED
        BY <1>0, <1>1, <2>1, <4>1, OwesBehind
    <3>3. b <= last_seg_offset
      <4>1. currentbyte[0] <= last_seg_offset /\ b < currentbyte[0]
            /\ currentbyte[0] \in Int
        BY <1>5, <1>7, <2>1, <2>3, <3>1
      <4> QED
        BY <1>2, <4>1
    <3> QED
      BY <1>0, <3>2, <3>3, NotOwedIsStored
  <2> QED
    BY <2>2, <2>6, <2>7
<1>11. ~(Idle[0] /\ Idle[1]) /\ (Idle[0] # Idle[1]) =>
         f = currentbyte[IF Idle[0] THEN 1 ELSE 0]
  BY DEF FoundInorder
<1>12. CASE Idle[0] /\ ~Idle[1]
  BY <1>7, <1>9, <1>11, <1>12
<1>13. CASE ~Idle[0] /\ Idle[1]
  BY <1>7, <1>9, <1>11, <1>13
<1> QED
  BY <1>8, <1>10, <1>12, <1>13

\* Chunk lists that only shrink stay in sequence.
LEMMA ShrinksInSequence ==
  ASSUME InSequence,
         \A s \in SegId, c \in Conn : subsegment'[s][c] \subseteq subsegment[s][c]
  PROVE  InSequence'
BY DEF InSequence

\* What is stored stays stored, if nothing is erased.
LEMMA ShownStays ==
  ASSUME Shown, inorder_offset' = inorder_offset, Stored \subseteq Stored'
  PROVE  Shown'
BY DEF Shown, InorderIsStored

\* update_inorder_offset reports the first byte that is missing, which is not
\* before the one it reported last.
LEMMA AccountOrderly ==
  ASSUME Bookkeeping, Orderly, Account
  PROVE  Orderly'
<1> DEFINE f == FoundInorder(subsegment)
<1>1. /\ pc = "account" /\ InSequence /\ IdleAtEnd /\ Shown /\ Running
      /\ LastIsLast /\ NoneIdled /\ TypeOK /\ Handled
  BY DEF Account, Orderly, Bookkeeping
<1>2. /\ f \in Byte
      /\ \A b \in Byte : b < f => b \in Stored
      /\ f = Size - 1 \/ f \notin Stored
  BY <1>1, FoundInorderIsFirst
<1>3. /\ Size \in Int /\ \A b \in Byte : b \in Int /\ b <= Size - 1
      /\ inorder_offset \in Int /\ inorder_offset <= Size - 1
  <2>1. Size \in Int
    BY <1>1, LinkBounds
  <2>2. inorder_offset \in 0 .. Size
    BY <1>1 DEF TypeOK
  <2> QED
    BY <1>1, <2>1, <2>2 DEF Byte, Shown
<1>4. inorder_offset <= f
  <2> HIDE DEF f
  <2> SUFFICES ASSUME f < inorder_offset PROVE FALSE
    BY <1>2, <1>3
  <2>1. f \in Stored
    BY <1>1, <1>2 DEF Shown, InorderIsStored
  <2> QED
    BY <1>2, <1>3, <2>1
<1>5. /\ inorder_offset' = f /\ conn_idle' = Idle /\ pc' = "select"
      /\ UNCHANGED <<segVars, connVars, disk, link_mode, at>>
  BY <1>4 DEF Account, fileVars
<1> HIDE DEF f
<1>6. Shown'
  <2>1. Stored' = Stored
    BY <1>5 DEF Stored
  <2> QED
    BY <1>2, <1>3, <1>5, <2>1 DEF Shown, InorderIsStored
<1>7. NoneIdled'
  <2>1. ASSUME NEW c \in Conn, connection[c] # NULL PROVE ~Idle[c]
    <3>1. ~Done(c) /\ currentbyte[c] \in Int /\ lastbyte[c] \in Int
      BY <1>1, <2>1, LinkBounds DEF Handled, Stopped
    <3>2. Idle[c] <=> currentbyte[c] = lastbyte[c] + 1
      BY DEF Idle
    <3> QED
      BY <3>1, <3>2 DEF Done
  <2> QED
    BY <1>1, <1>5, <2>1 DEF NoneIdled, segVars
<1>8. LastIsLast' /\ InSequence' /\ IdleAtEnd' /\ Running'
  BY <1>1, <1>5 DEF LastIsLast, InSequence, IdleAtEnd, AllScheduled, Running,
                    segVars, connVars
<1> QED
  BY <1>6, <1>7, <1>8 DEF Orderly

\* A read stores bytes; a chunk is read to its end without scheduling only
\* when the flag is set.
LEMMA ReceiveOrderly ==
  ASSUME Bookkeeping, Orderly,
         NEW i \in Conn, NEW n \in 1 .. BufferSize, Receive(i, n)
  PROVE  Orderly'
<1>1. /\ InSequence /\ IdleAtEnd /\ Shown /\ LastIsLast /\ NoneIdled
      /\ connection[i] # NULL /\ n \in Int /\ TypeOK
  BY ReceiveFacts DEF Orderly
<1>2. Stored \subseteq Stored'
  BY ReceivedBytes
<1>3. /\ UNCHANGED <<segVars, conn_idle, link_mode, inorder_offset,
                     last_segment_flag, pipeline_requests_sent>>
      /\ at' = i /\ pc' \in {"schedule", "finish", "account"}
  BY DEF Receive
<1>4. pc' = "finish" => pipeline_requests_sent[i]
  <2> SUFFICES ASSUME pc' = "finish", ~pipeline_requests_sent[i] PROVE FALSE
    OBVIOUS
  <2>1. ~PipelineDue(i, n) /\ n = lastbyte[i] - currentbyte[i] + 1
    BY DEF Receive
  <2>2. ~conn_idle[i]
    BY <1>1 DEF NoneIdled
  <2> QED
    BY <1>1, <2>1, <2>2 DEF PipelineDue
<1>5. Shown'
  BY <1>1, <1>2, <1>3, ShownStays
<1>6. IdleAtEnd'
  BY <1>1, <1>3, <1>4 DEF IdleAtEnd, AllScheduled, segVars
<1> QED
  BY <1>1, <1>3, <1>5, <1>6 DEF Orderly, LastIsLast, NoneIdled, InSequence,
                                AllScheduled, Running, segVars

\* gb_setup_next_segment that adds no segment: all bytes are scheduled.
LEMMA NoSegmentOrderly ==
  ASSUME Plain, Bookkeeping, InFlight, Orderly, NEW i \in Conn,
         \/ LastSegmentRequested(i) \/ StaysBehind(i) \/ NothingLeft(i)
         \/ Crash(i) \/ SendFails(i) \/ Recover(i)
  PROVE  Orderly'
<1>0. /\ TypeOK /\ InSequence /\ IdleAtEnd /\ Shown /\ LastIsLast /\ NoneIdled
      /\ \A c \in Conn : Linked(c)
  BY DEF Orderly, Bookkeeping, InFlight
<1>1. ~StaysBehind(i) /\ ~Recover(i)
  BY <1>0 DEF StaysBehind, NoneIdled, Recover, ConsidersRecovery, Plain
<1>2. ~Crash(i)
  BY DEF Crash, ConsidersRecovery, ChoosesLinkMode, Plain
<1>3. ~SendFails(i)
  <2>1. ~(failures < MaxFailures)
    BY <1>0 DEF TypeOK, Plain, Reliable
  <2>2. \A c \in Conn : net[c].fd # "gone"
    BY <1>0 DEF Linked
  <2> QED
    BY <2>1, <2>2 DEF SendFails, Asks
<1>4. 0 \in NextSizes => AllScheduled
  <2> SUFFICES ASSUME 0 \in NextSizes PROVE AllScheduled
    OBVIOUS
  <2>1. /\ Size \in Int /\ last_seg_offset \in Int
        /\ InitSegSize \in Int /\ InitSegSize >= 2
    BY <1>0, InitSegAssumption, LinkBounds
  <2>2. InitSegSize \div 2 \in Int /\ InitSegSize \div 2 >= 1
    BY <2>1
  <2>3. \E m \in {InitSegSize, InitSegSize \div 2} : Clipped(m) = 0
    BY DEF NextSizes, Plain
  <2>4. PICK m \in Int : m >= 1 /\ Clipped(m) = 0
    BY <2>1, <2>2, <2>3
  <2> QED
    BY <2>1, <2>4 DEF Clipped, AllScheduled
<1>5. /\ AllScheduled
      /\ UNCHANGED <<segVars, last_segment_flag, pipeline_requests_sent, disk,
                     link_mode, inorder_offset, conn_idle, at>>
      /\ pc' = AfterSchedule(i)
  <2>1. CASE LastSegmentRequested(i)
    BY <1>0, <2>1 DEF LastSegmentRequested, LastIsLast, connVars, fileVars
  <2>2. CASE NothingLeft(i)
    BY <1>4, <2>2 DEF NothingLeft, ReestimatedIdle, Reestimated, AssertFails,
                      Plain, connVars, fileVars
  <2> QED
    BY <1>1, <1>2, <1>3, <2>1, <2>2
<1>6. Shown'
  BY <1>0, <1>5, ShownStays DEF Stored
<1> QED
  BY <1>0, <1>5, <1>6 DEF Orderly, LastIsLast, NoneIdled, InSequence, IdleAtEnd,
                          AllScheduled, Running, AfterSchedule, segVars

\* gb_setup_next_segment adds the next bytes of the file; a link that was idle
\* starts on them, so that it is idle no longer.
LEMMA NewSegmentOrderly ==
  ASSUME Plain, Bookkeeping, InFlight, InFlight', Orderly,
         NEW i \in Conn, NewSegment(i)
  PROVE  Orderly'
<1> DEFINE j == Other(i)
           t == segment_count + 1
<1>0. /\ TypeOK /\ Placed /\ Positioned /\ Handled
      /\ segment_count < MaxSegments /\ Scheduling(i)
      /\ InSequence /\ IdleAtEnd /\ Shown /\ LastIsLast /\ NoneIdled
  BY DEF Bookkeeping, NewSegment, Proceeds, Orderly
<1>1. PICK n \in NextSizes \ {0}, f \in Conn :
        \E mode \in Modes(n) : \E share \in Divisions(n, f, mode) :
          AddsAndRequests(i, n, share, mode)
  BY DEF NewSegment
<1>2. PICK mode \in Modes(n) :
        \E share \in Divisions(n, f, mode) : AddsAndRequests(i, n, share, mode)
  BY <1>1
<1>3. PICK share \in Divisions(n, f, mode) : AddsAndRequests(i, n, share, mode)
  BY <1>2
<1>4. /\ mode \in LinkMode
      /\ last_seg_offset' = last_seg_offset + n
      /\ \A s \in SegId : subsegment'[s] = IF s = t THEN share ELSE subsegment[s]
      /\ TypeOK'
  BY <1>0, <1>3, NewSegmentTypes
<1>5. /\ share \in [Conn -> SUBSET Chunk]
      /\ \A c \in Conn : \A k \in share[c] :
           last_seg_offset < k.first /\ k.last <= last_seg_offset + n
      /\ \A b \in Int : (\E c \in Conn : In(b, share[c])) <=>
           last_seg_offset < b /\ b <= last_seg_offset + n
  BY <1>0, <1>4, DivisionsOnce
<1>6. /\ Size \in Int /\ last_seg_offset \in Int /\ n \in Int /\ 0 < n
      /\ last_seg_offset + n <= Size - 1 /\ last_seg_offset <= Size - 1
      /\ last_seg_offset < last_seg_offset'
      /\ last_seg_offset' \in Int /\ last_seg_offset' <= Size - 1
  <2>1. n \in Int /\ 0 <= n /\ n # 0 /\ last_seg_offset + n <= Size - 1
    BY <1>0, SizesBounded
  <2> QED
    BY <1>0, <1>4, <2>1, LinkBounds
<1>7. /\ j \in Conn /\ j # i /\ \A c \in Conn : c = i \/ c = j
      /\ connection[i] # NULL /\ at = i
  BY <1>0 DEF Other, Conn, Handled, Scheduling
<1>8. /\ connection \in [Conn -> SegId \cup {NULL}]
      /\ enabled \in [Conn -> BOOLEAN] /\ conn_idle \in [Conn -> BOOLEAN]
      /\ segment \in [SegId -> [recovery_segment : BOOLEAN, last : -1 .. Size - 1]]
  BY <1>0 DEF TypeOK
<1> DEFINE joins == connection[j] = NULL /\ share[j] # {}
           starts == joins /\ HasHeader(Sent(net[j], share[j]))
<1>9. /\ link_mode' = mode
      /\ \A c \in Conn : pipeline_requests_sent'[c] <=>
           /\ pipeline_requests_sent[c] \/ share[c] # {}
           /\ ~(c = j /\ starts)
      /\ enabled' = [enabled EXCEPT ![j] = @ \/ starts]
      /\ connection' = [connection EXCEPT ![j] = IF joins THEN t ELSE @]
      /\ \A c \in Conn : last_segment_flag'[c] =>
           \/ last_segment_flag[c]
           \/ c = j /\ joins /\ EndsFile(share[j])
           \/ NextEndsFile(c)
      /\ conn_idle' = [conn_idle EXCEPT ![j] = @ /\ ~starts]
      /\ inorder_offset' = inorder_offset
      /\ pc' = AfterSchedule(i)
      /\ disk' = disk /\ at' = at
      /\ AddsSegment(t, subsegment, share, FALSE, last_seg_offset + n)
  BY <1>3 DEF AddsAndRequests, fileVars, Plain, ReestimatedIdle, Reestimated,
              AssertFails
<1> HIDE DEF t, j, starts
<1>10. NoneIdled'
  <2>1. mode = link_mode
    BY DEF Modes, ChoosesLinkMode, Plain
  <2>2. ASSUME NEW c \in Conn, connection'[c] # NULL PROVE ~conn_idle'[c]
    <3>1. CASE connection[c] # NULL
      BY <1>0, <1>7, <1>8, <1>9, <3>1 DEF NoneIdled
    <3>2. CASE connection[c] = NULL
      <4>1. c = j
        BY <1>7, <3>2
      <4>2. ~enabled[j] /\ enabled'[j]
        BY <2>2, <3>2, <4>1 DEF InFlight, Linked
      <4>3. starts
        BY <1>7, <1>8, <1>9, <4>2
      <4> QED
        BY <1>7, <1>8, <1>9, <4>1, <4>3
    <3> QED
      BY <3>1, <3>2
  <2> QED
    BY <1>0, <1>9, <2>1, <2>2 DEF NoneIdled
<1>11. \A s \in SegId : segment'[s].last <= last_seg_offset'
  <2> SUFFICES ASSUME NEW s \in SegId PROVE segment'[s].last <= last_seg_offset'
    OBVIOUS
  <2>1. \/ segment'[s].last = last_seg_offset + n
        \/ segment'[s] = NoSegment
        \/ segment'[s] = segment[s]
    BY <1>9 DEF AddsSegment
  <2>2. segment[s].last \in Int /\ segment[s].last <= last_seg_offset
    BY <1>0, <1>8 DEF LastIsLast
  <2>3. NoSegment.last = -1 /\ 0 <= last_seg_offset
    BY <1>0, LinkBounds DEF NoSegment, NoByte
  <2> QED
    BY <1>4, <1>6, <2>1, <2>2, <2>3
<1>12. LastIsLast'
  <2> SUFFICES ASSUME NEW c \in Conn, last_segment_flag'[c] PROVE AllScheduled'
    BY <1>11 DEF LastIsLast
  <2>1. CASE last_segment_flag[c]
    BY <1>0, <1>6, <2>1 DEF LastIsLast, AllScheduled
  <2>2. CASE EndsFile(share[j])
    <3>1. PICK k \in share[j] : k.last = Size - 1
      BY <2>2 DEF EndsFile
    <3>2. Size - 1 <= last_seg_offset + n
      BY <1>5, <1>7, <3>1
    <3> QED
      BY <1>4, <1>6, <3>2 DEF AllScheduled
  <2>3. CASE NextEndsFile(c)
    <3> DEFINE sub == subsegment'
               q == connection'[c]
               u == NextSegment(sub, q, c)
    <3>1. NextSegments(sub, q, c) # {} /\ segment'[u].last = Size - 1
      BY <2>3 DEF NextEndsFile
    <3>2. q \in Int
      <4>1. connection' \in [Conn -> SegId \cup {NULL}]
        BY <1>4 DEF TypeOK
      <4>2. q \in SegId \cup {NULL}
        BY <4>1
      <4> QED
        BY <4>2, BoundAssumption DEF SegId, NULL
    <3> HIDE DEF sub, q
    <3>3. u \in SegId
      BY <3>1, <3>2, NextSegmentIsNext
    <3> HIDE DEF u
    <3>4. Size - 1 <= last_seg_offset'
      BY <1>11, <3>1, <3>3
    <3> QED
      BY <1>6, <3>4 DEF AllScheduled
  <2> QED
    BY <1>9, <2>1, <2>2, <2>3
<1>13. InSequence'
  <2>1. \A s \in SegId, c \in Conn : \A k \in subsegment[s][c] :
          s < t /\ k.last <= last_seg_offset /\ k.last \in Int
    <3>1. \A s \in SegId, c \in Conn : \A k \in subsegment[s][c] :
            s <= segment_count /\ k.last <= last_seg_offset /\ k.last \in Int
      <4>1. \A s \in SegId, c \in Conn : subsegment[s][c] \subseteq Chunk
        BY <1>0 DEF TypeOK
      <4> QED
        BY <1>0, <4>1, ChunkBounds DEF Placed
    <3>2. segment_count \in Int /\ \A s \in SegId : s \in Int
      BY <1>0, LinkBounds
    <3> QED
      BY <3>1, <3>2 DEF t
  <2>2. \A c \in Conn : \A m \in share[c] : last_seg_offset < m.first /\ m.first \in Int
    <3>1. \A c \in Conn : share[c] \subseteq Chunk
      BY <1>5
    <3> QED
      BY <1>5, <3>1, ChunkBounds
  <2>3. \A s \in SegId : s \in Int
    BY <1>0, LinkBounds
  <2>4. ASSUME NEW s \in SegId, NEW r \in SegId, NEW c \in Conn, NEW d \in Conn,
               s < r, NEW k \in subsegment'[s][c], NEW m \in subsegment'[r][d]
        PROVE  k.last < m.first
    <3>0. t \in Int
      BY <1>0, LinkBounds DEF t
    <3>1. CASE r = t
      <4>1. k \in subsegment[s][c] /\ m \in share[d]
        BY <1>4, <2>3, <2>4, <3>1
      <4>2. k.last <= last_seg_offset /\ k.last \in Int
        BY <2>1, <4>1
      <4>3. last_seg_offset < m.first /\ m.first \in Int
        BY <2>2, <4>1
      <4> QED
        BY <1>6, <4>2, <4>3
    <3>2. CASE r # t
      <4>1. m \in subsegment[r][d]
        BY <1>4, <3>2
      <4>2. s # t
        BY <2>1, <2>3, <2>4, <3>0, <4>1
      <4>3. k \in subsegment[s][c]
        BY <1>4, <4>2
      <4> QED
        BY <1>0, <2>4, <4>1, <4>3 DEF InSequence
    <3> QED
      BY <3>1, <3>2
  <2> QED
    BY <2>4 DEF InSequence
<1>14. \E c \in Conn : share[c] # {}
  <2>1. last_seg_offset + 1 \in Int /\ last_seg_offset < last_seg_offset + 1
        /\ last_seg_offset + 1 <= last_seg_offset + n
    BY <1>6
  <2>2. \E c \in Conn : In(last_seg_offset + 1, share[c])
    BY <1>5, <2>1
  <2> QED
    BY <2>2 DEF In
<1>15. IdleAtEnd'
  <2>1. connection'[i] = connection[i]
    BY <1>7, <1>8, <1>9
  <2>2. pipeline_requests_sent'[i] \/ connection'[Other(i)] # NULL
    <3>1. CASE share[i] # {}
      BY <1>7, <1>9, <3>1
    <3>2. CASE share[j] # {}
      <4>1. CASE connection[j] # NULL
        BY <1>7, <1>8, <1>9, <4>1 DEF j
      <4>2. CASE connection[j] = NULL
        <5>1. connection'[j] = t /\ t # NULL
          BY <1>0, <1>7, <1>8, <1>9, <3>2, <4>2, NewSegmentIsNew, LinkBounds DEF t
        <5> QED
          BY <5>1 DEF j
      <4> QED
        BY <4>1, <4>2
    <3> QED
      BY <1>7, <1>14, <3>1, <3>2
  <2> QED
    BY <1>7, <1>9, <2>1, <2>2 DEF IdleAtEnd
<1>16. Shown'
  BY <1>0, <1>9, ShownStays DEF Stored
<1>17. Running'
  BY <1>9 DEF Running, AfterSchedule
<1> QED
  BY <1>10, <1>12, <1>13, <1>15, <1>16, <1>17 DEF Orderly

\* The finished chunk leaves its list; the link that goes on keeps a segment,
\* and the one that goes idle leaves the other busy before the end of the file.
LEMMA FinishOrderly ==
  ASSUME Bookkeeping, InFlight, Orderly, NEW i \in Conn, Finish(i)
  PROVE  Orderly'
<1>0. /\ TypeOK /\ Placed /\ InSequence /\ IdleAtEnd /\ Shown /\ LastIsLast
      /\ NoneIdled
  BY DEF Bookkeeping, Orderly
<1>1. /\ Finishing(i) /\ connection[i] \in SegId /\ connection[i] # NULL
  BY FinishFacts DEF Finish, NextChunk, NextSubsegment, GoesIdle
<1>2. /\ subsegment \in [SegId -> [Conn -> SUBSET Chunk]]
      /\ connection \in [Conn -> SegId \cup {NULL}]
      /\ last_segment_flag \in [Conn -> BOOLEAN]
      /\ segment \in [SegId -> [recovery_segment : BOOLEAN, last : -1 .. Size - 1]]
  BY <1>0 DEF TypeOK
<1>3. /\ Size \in Int /\ last_seg_offset \in Int
      /\ 0 <= last_seg_offset /\ last_seg_offset <= Size - 1
  BY <1>0, LinkBounds
<1>4. Shown' /\ link_mode' = link_mode /\ conn_idle' = conn_idle
      /\ last_seg_offset' = last_seg_offset
  <2>1. UNCHANGED <<disk, inorder_offset, link_mode, conn_idle>>
    BY DEF Finish, NextChunk, NextSubsegment, GoesIdle, fileVars
  <2>2. last_seg_offset' = last_seg_offset
    BY DEF Finish, NextChunk, NextSubsegment, GoesIdle, DropsSubsegment, segVars
  <2> QED
    BY <1>0, <2>1, <2>2, ShownStays DEF Stored
<1>5. CASE NextChunk(i)
  <2>1. /\ UNCHANGED <<segment, last_segment_flag, connection>>
        /\ subsegment' = [subsegment EXCEPT ![connection[i]][i] = Remaining(i)]
        /\ pc' = "select"
    BY <1>5 DEF NextChunk
  <2>2. \A s \in SegId, c \in Conn : subsegment'[s][c] \subseteq subsegment[s][c]
    BY <1>1, <1>2, <2>1 DEF Remaining
  <2>3. InSequence'
    BY <1>0, <2>2, ShrinksInSequence
  <2> QED
    BY <1>0, <1>4, <2>1, <2>3 DEF Orderly, LastIsLast, NoneIdled, IdleAtEnd,
                                  AllScheduled, Running
<1> DEFINE sub == [subsegment EXCEPT ![connection[i]][i] = {}]
<1>6. \A s \in SegId, c \in Conn : sub[s][c] \subseteq subsegment[s][c]
  BY <1>1, <1>2
<1>7. sub \in [SegId -> [Conn -> SUBSET Chunk]]
  BY <1>2
<1>8. ASSUME DropsSubsegment(i, sub)
      PROVE  /\ InSequence'
             /\ \A s \in SegId : segment'[s].last <= last_seg_offset'
  <2>1. \A s \in SegId : segment'[s] = NoSegment \/ segment'[s] = segment[s]
    BY <1>8 DEF DropsSubsegment
  <2>2. NoSegment.last = -1
    BY DEF NoSegment, NoByte
  <2>3. \A s \in SegId : segment'[s].last <= last_seg_offset
    BY <1>0, <1>3, <2>1, <2>2 DEF LastIsLast
  <2>4. subsegment' = sub
    BY <1>8 DEF DropsSubsegment
  <2> HIDE DEF sub
  <2> QED
    BY <1>0, <1>4, <1>6, <2>3, <2>4, ShrinksInSequence
<1>9. CASE NextSubsegment(i)
  <2> DEFINE s == NextSegment(sub, connection[i], i)
  <2>1. s # NULL
    BY <1>9, NextSubsegmentInFlight DEF NextSubsegment
  <2>2. s \in SegId
    <3>1. connection[i] \in Int
      BY <1>0, LinkBounds
    <3> HIDE DEF sub
    <3> QED
      BY <2>1, <3>1, NextSegmentIsNext
  <2>3. /\ DropsSubsegment(i, sub)
        /\ connection' = [connection EXCEPT ![i] = s]
        /\ last_segment_flag' = [last_segment_flag EXCEPT
                                   ![i] = @ \/ EndsFile(sub[s][i])]
        /\ pc' = "account"
    BY <1>9, <2>1 DEF NextSubsegment
  <2> HIDE DEF s
  <2>4. EndsFile(sub[s][i]) => AllScheduled
    <3> SUFFICES ASSUME NEW k \in sub[s][i], k.last = Size - 1 PROVE AllScheduled
      BY DEF EndsFile
    <3>1. k \in subsegment[s][i]
      BY <1>6, <2>2
    <3>2. k.last <= last_seg_offset
      BY <1>0, <2>2, <3>1 DEF Placed
    <3> QED
      BY <1>3, <3>2 DEF AllScheduled
  <2> HIDE DEF sub
  <2>5. LastIsLast'
    <3>1. \A c \in Conn : last_segment_flag'[c] => last_segment_flag[c] \/ AllScheduled
      BY <1>2, <2>3, <2>4
    <3> QED
      BY <1>0, <1>4, <1>8, <2>3, <3>1 DEF LastIsLast, AllScheduled
  <2>6. NoneIdled' /\ IdleAtEnd'
    <3>1. \A c \in Conn : connection'[c] # NULL => connection[c] # NULL
      BY <1>1, <1>2, <2>3
    <3>2. connection'[i] # NULL
      BY <1>2, <2>1, <2>3
    <3> QED
      BY <1>0, <1>4, <2>3, <3>1, <3>2 DEF NoneIdled, IdleAtEnd
  <2> QED
    BY <1>4, <1>8, <2>3, <2>5, <2>6 DEF Orderly, Running
<1>10. CASE GoesIdle(i)
  <2>1. /\ DropsSubsegment(i, sub)
        /\ connection' = [connection EXCEPT ![i] = NULL]
        /\ last_segment_flag' = last_segment_flag
        /\ pc' = "account" /\ ~pipeline_requests_sent[i]
    BY <1>10 DEF GoesIdle
  <2> HIDE DEF sub
  <2>2. LastIsLast'
    BY <1>0, <1>4, <1>8, <2>1 DEF LastIsLast, AllScheduled
  <2>3. NoneIdled'
    <3>1. \A c \in Conn : connection'[c] # NULL => connection[c] # NULL
      BY <1>1, <1>2, <2>1
    <3> QED
      BY <1>0, <1>4, <3>1 DEF NoneIdled
  <2>4. IdleAtEnd'
    <3>1. Other(i) \in Conn /\ Other(i) # i
      BY DEF Other, Conn
    <3>2. connection'[Other(i)] = connection[Other(i)]
      BY <1>2, <2>1, <3>1
    <3>3. (\A c \in Conn : connection'[c] = NULL) => AllScheduled
      BY <1>0, <1>1, <2>1, <3>1, <3>2 DEF IdleAtEnd, Finishing
    <3> QED
      BY <1>4, <2>1, <3>3 DEF IdleAtEnd, AllScheduled
  <2> QED
    BY <1>4, <1>8, <2>1, <2>2, <2>3, <2>4 DEF Orderly, Running
<1> QED
  BY <1>5, <1>9, <1>10 DEF Finish

\* gb_start: the first segment, divided between the two links.
LEMMA InitOrderly == ASSUME Plain, Bookkeeping, Init PROVE Orderly
<1>1. PICK cut \in 1 .. InitSegSize - 1 :
        /\ segment = [s \in SegId |->
                        IF s = 1 THEN [recovery_segment |-> FALSE,
                                       last |-> InitSegSize - 1]
                        ELSE NoSegment]
        /\ connection = [c \in Conn |-> 1]
        /\ last_seg_offset = InitSegSize - 1
        /\ conn_idle = [c \in Conn |-> FALSE]
        /\ link_mode = DUAL_LINK_MODE
        /\ inorder_offset = 0
        /\ last_segment_flag = [c \in Conn |-> InitSegSize = Size]
        /\ segment_count = 1
        /\ pc = "select"
  BY DEF Init
<1>2. /\ Size \in Int /\ Size >= 1 /\ InitSegSize \in Int /\ InitSegSize >= 2
  BY SizeAssumption, InitSegAssumption
<1>3. LastIsLast
  <2>1. NoSegment.last = -1
    BY DEF NoSegment, NoByte
  <2>2. \A s \in SegId : segment[s].last = InitSegSize - 1 \/ segment[s].last = -1
    BY <1>1, <2>1
  <2>3. \A s \in SegId : segment[s].last <= last_seg_offset
    BY <1>1, <1>2, <2>2
  <2>4. \A c \in Conn : last_segment_flag[c] => AllScheduled
    BY <1>1, <1>2 DEF AllScheduled
  <2> QED
    BY <2>3, <2>4 DEF LastIsLast
<1>4. NoneIdled
  BY <1>1 DEF NoneIdled
<1>5. InSequence
  <2> SUFFICES ASSUME NEW s \in SegId, NEW t \in SegId, NEW c \in Conn,
                      NEW d \in Conn, s < t, NEW k \in subsegment[s][c],
                      NEW m \in subsegment[t][d]
               PROVE  FALSE
    BY DEF InSequence
  <2>1. t <= 1 /\ TypeOK
    BY <1>1 DEF Bookkeeping, Placed
  <2>2. s \in Int /\ s >= 1 /\ t \in Int
    BY <2>1, LinkBounds
  <2> QED
    BY <2>1, <2>2
<1>6. IdleAtEnd
  <2>1. 0 \in Conn /\ connection[0] # NULL
    BY <1>1 DEF Conn, NULL
  <2> QED
    BY <1>1, <2>1 DEF IdleAtEnd
<1>7. Shown
  BY <1>1, <1>2 DEF Shown, InorderIsStored, Byte
<1> QED
  BY <1>1, <1>3, <1>4, <1>5, <1>6, <1>7 DEF Orderly, Running

LEMMA NextOrderly ==
  ASSUME Plain, Bookkeeping, InFlight, InFlight', Orderly, [Next]_vars
  PROVE  Orderly'
<1>0. Reliable
  BY DEF Plain
<1>1. ASSUME UNCHANGED <<segVars, connVars, disk, link_mode, conn_idle,
                         inorder_offset, at>>,
             pc' = pc \/ pc' = "done"
      PROVE  Orderly'
  <2>1. Shown'
    BY <1>1, ShownStays DEF Orderly, Stored
  <2> QED
    BY <1>1, <2>1 DEF Orderly, LastIsLast, NoneIdled, InSequence, IdleAtEnd,
                      AllScheduled, Running, segVars, connVars
<1>2. CASE Ready
  BY <1>1, <1>2 DEF Ready, fileVars
<1>3. CASE Terminated \/ UNCHANGED vars
  BY <1>1, <1>3 DEF Terminated, vars, fileVars
<1>4. ASSUME NEW i \in Conn
      PROVE  /\ ~ReadFails(i) /\ ~CheckConn(i) /\ ~SetupThread(i)
             /\ ~ServerCloses(i) /\ ~EngineFails
  BY <1>0, NoRestarts
<1>5. ASSUME NEW i \in Conn, Schedule(i) PROVE Orderly'
  BY <1>5, NewSegmentOrderly, NoSegmentOrderly DEF Schedule
<1>6. ASSUME NEW i \in Conn, NEW n \in 1 .. BufferSize, Receive(i, n)
      PROVE  Orderly'
  BY <1>6, ReceiveOrderly
<1>7. ~EngineFails
  BY <1>4 DEF Conn
<1> QED
  BY <1>2, <1>3, <1>4, <1>5, <1>6, <1>7, FinishOrderly, AccountOrderly
     DEF Next, MainLoop, Threads

\* The engine's order, on top of what is in flight.
THEOREM OrderlyHolds == ASSUME Plain PROVE Spec => [](Synchronised /\ Orderly)
<1>0. Reliable
  BY DEF Plain
<1>1. Init /\ Bookkeeping => Orderly
  BY InitOrderly
<1>2. Synchronised /\ Synchronised' /\ Orderly /\ [Next]_vars => Orderly'
  <2>1. Synchronised => Bookkeeping /\ InFlight
    BY DEF Synchronised, InFlight
  <2>2. Synchronised' => InFlight'
    BY DEF Synchronised, InFlight
  <2> QED
    BY <2>1, <2>2, NextOrderly
<1>3. Synchronised => Bookkeeping
  BY DEF Synchronised
<1> QED
  BY <1>0, <1>1, <1>2, <1>3, SynchronisedHolds, PTL DEF Spec

\* update_inorder_offset (gb.c) never reports a byte that is missing, so that
\* the proxy serves only what is in the file.
THEOREM InorderIsStoredHolds == ASSUME Plain PROVE Spec => []InorderIsStored
<1>1. Orderly => InorderIsStored
  BY DEF Orderly, Shown
<1> QED
  BY <1>1, OrderlyHolds, PTL

\* The assertion of update_inorder_offset holds: the offset never shrinks.
THEOREM AssertionsHoldAlways == ASSUME Plain PROVE Spec => []AssertionsHold
<1>1. Orderly => AssertionsHold
  BY DEF Orderly, Running, AssertionsHold
<1> QED
  BY <1>1, OrderlyHolds, PTL

\* What module Session takes the engine for: it never takes back a byte that it
\* stored nor an in-order offset that it published, and it is ready only with
\* the whole file.
Advances == /\ Stored \subseteq Stored'
            /\ inorder_offset <= inorder_offset'
            /\ pc' = "done" => Stored' = Byte

\* send_remote_file may go by the in-order offset it read before: no later
\* update (update_inorder_offset) takes it back, and no byte before it is erased.
THEOREM AdvancesHolds == ASSUME Plain PROVE Spec => [][Advances]_vars
<1>1. ASSUME Synchronised, Orderly, Running', [Next]_vars
      PROVE  Stored \subseteq Stored' /\ inorder_offset <= inorder_offset'
  <2>1. Bookkeeping /\ TypeOK /\ inorder_offset \in Int
    BY <1>1 DEF Synchronised, Bookkeeping, TypeOK
  <2>2. ASSUME disk' = disk, inorder_offset' = inorder_offset
        PROVE  Stored \subseteq Stored' /\ inorder_offset <= inorder_offset'
    BY <2>1, <2>2 DEF Stored
  <2>3. ASSUME NEW i \in Conn, NEW n \in 1 .. BufferSize, Receive(i, n)
        PROVE  Stored \subseteq Stored' /\ inorder_offset <= inorder_offset'
    <3>1. inorder_offset' = inorder_offset
      BY <2>3 DEF Receive
    <3> QED
      BY <2>1, <2>3, <3>1, ReceivedBytes
  <2>4. ASSUME NEW i \in Conn, Schedule(i)
        PROVE  disk' = disk /\ inorder_offset' = inorder_offset
    <3>1. CASE NewSegment(i)
      BY <3>1 DEF NewSegment, AddsAndRequests, Reestimated, fileVars, Plain
    <3>2. ~Recover(i)
      BY DEF Recover, ConsidersRecovery, Plain
    <3>3. CASE NothingLeft(i)
      BY <3>3 DEF NothingLeft, Reestimated, fileVars, Plain
    <3>4. CASE LastSegmentRequested(i) \/ StaysBehind(i) \/ Crash(i) \/ SendFails(i)
      BY <3>4 DEF LastSegmentRequested, StaysBehind, Crash, SendFails, fileVars
    <3> QED
      BY <2>4, <3>1, <3>2, <3>3, <3>4 DEF Schedule
  <2>5. ASSUME NEW i \in Conn, ReadFails(i) \/ CheckConn(i) \/ Finish(i) \/
               SetupThread(i) \/ ServerCloses(i)
        PROVE  disk' = disk /\ inorder_offset' = inorder_offset
    BY <2>5 DEF ReadFails, CheckConn, Finish, NextChunk, NextSubsegment, GoesIdle,
                SetupThread, ServerCloses, fileVars
  <2>6. CASE Ready \/ EngineFails \/ Terminated \/ UNCHANGED vars
    BY <2>2, <2>6 DEF Ready, EngineFails, Terminated, vars, fileVars
  <2>7. CASE Account
    BY <1>1, <2>7 DEF Account, Running, fileVars, Stored
  <2> QED
    BY <1>1, <2>2, <2>3, <2>4, <2>5, <2>6, <2>7 DEF Next, MainLoop, Threads
<1>2. Orderly' => Running'
  BY DEF Orderly
<1>3. Synchronised /\ Orderly /\ Orderly' /\ (pc = "done" => Stored = Byte)'
        /\ [Next]_vars => [Advances]_vars
  BY <1>1, <1>2 DEF Advances
<1> QED
  BY <1>3, OrderlyHolds, ReadyIsFull, PTL DEF Spec
=============================================================================
