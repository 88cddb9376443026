--------------------------- MODULE GreenBagRefines ---------------------------
(***************************************************************************)
(* The download engine implements the ledger of Download: whatever the     *)
(* chunk lists go through, a step of the engine delivers bytes that one    *)
(* link owes, or takes back what one link owes and divides it again with   *)
(* the next bytes of the file, or leaves the ledger alone.  And bytes_done *)
(* counts the bytes in the file.                                           *)
(***************************************************************************)
EXTENDS GreenBagProofs

USE DEF threadVars

\* The ledger is in order: a byte of the segments made so far is stored or
\* owed by one link.
InOrder ==
  /\ last_seg_offset \in Byte
  /\ \A b \in Byte : b <= last_seg_offset <=>
       b \in Stored \/ \E c \in Conn : b \in Owed(c)
  /\ \A c \in Conn : Owed(c) \cap Stored = {}
  /\ \A c, d \in Conn : c # d => Owed(c) \cap Owed(d) = {}

\* Separate chunk lists below last_seg_offset make an orderly ledger.
LEMMA BookkeepingInOrder == Bookkeeping => InOrder
<1> SUFFICES ASSUME Bookkeeping PROVE InOrder
  OBVIOUS
<1>1. TypeOK /\ Covered /\ Disjoint /\ Placed
  BY DEF Bookkeeping, EachByteOnce
<1>2. ASSUME NEW s \in SegId, NEW c \in Conn, NEW k \in subsegment[s][c]
      PROVE  k.first \in Int /\ k.last \in Int
  <2>1. k \in Chunk
    BY <1>1 DEF TypeOK
  <2> QED
    BY <2>1, ChunkBounds
<1>3. ASSUME NEW b \in Byte, NEW c \in Conn, b \in Owed(c)
      PROVE  b <= last_seg_offset
  <2>1. PICK s \in SegId : \E k \in subsegment[s][c] : b \in k.first .. k.last
    BY <1>3 DEF Owed
  <2>1a. PICK k \in subsegment[s][c] : b \in k.first .. k.last
    BY <2>1
  <2>2. k.last <= last_seg_offset
    BY <1>1 DEF Placed
  <2>3. last_seg_offset \in Int /\ b \in Int
    BY <1>1, LinkBounds DEF Byte
  <2> QED
    BY <1>2, <2>1a, <2>2, <2>3
<1>4. ASSUME NEW b \in Byte
      PROVE  b <= last_seg_offset <=>
               b \in Stored \/ \E c \in Conn : b \in Owed(c)
  BY <1>1, <1>3 DEF Covered
<1>5. \A c \in Conn : Owed(c) \cap Stored = {}
  <2>1. \A c \in Conn : Owed(c) \subseteq Byte
    BY DEF Owed
  <2> QED
    BY <1>1, <2>1 DEF Covered
<1>6. ASSUME NEW c \in Conn, NEW d \in Conn, c # d, NEW b \in Owed(c), b \in Owed(d)
      PROVE  FALSE
  <2>1. PICK s \in SegId : \E k \in subsegment[s][c] : b \in k.first .. k.last
    BY DEF Owed
  <2>1a. PICK k \in subsegment[s][c] : b \in k.first .. k.last
    BY <2>1
  <2>2. PICK u \in SegId : \E m \in subsegment[u][d] : b \in m.first .. m.last
    BY <1>6 DEF Owed
  <2>2a. PICK m \in subsegment[u][d] : b \in m.first .. m.last
    BY <2>2
  <2>3. Apart(k, m)
    BY <1>1, <1>6 DEF Disjoint
  <2>4. /\ k.first \in Int /\ k.last \in Int
        /\ m.first \in Int /\ m.last \in Int
    BY <1>2
  <2> QED
    BY <2>1a, <2>2a, <2>3, <2>4 DEF Apart
<1>7. last_seg_offset \in Byte
  BY <1>1 DEF TypeOK
<1> QED
  BY <1>4, <1>5, <1>6, <1>7 DEF InOrder

\* What a link owes, and what is stored, are bytes of the file.
LEMMA OwedBytes == Stored \subseteq Byte /\ \A c \in Conn : Owed(c) \subseteq Byte
BY DEF Stored, Owed

\* The ledger's own view of what the links owe.
LEMMA OwedLedger ==
  /\ [c \in Conn |-> Owed(c)] \in Ledger!Ledger
  /\ [c \in Conn |-> Owed(c)]' \in Ledger!Ledger
BY DEF Owed, Ledger!Ledger, Ledger!Byte, Byte
-----------------------------------------------------------------------------
(* Three ways in which a step maps to one of the ledger                    *)

\* If nothing is stored and one link's debt is the only one that may have
\* changed, it has not: the bytes it owes are those nobody else accounts for.
LEMMA LeavesLedger ==
  ASSUME InOrder, InOrder', NEW c \in Conn,
         Stored' = Stored, last_seg_offset' = last_seg_offset,
         \A d \in Conn \ {c} : Owed(d)' = Owed(d)
  PROVE  UNCHANGED Ledger!vars
<1>1. \A b \in Byte : b \in Owed(c)' <=> b \in Owed(c)
  BY DEF InOrder
<1>2. \A d \in Conn : Owed(d)' = Owed(d)
  BY <1>1, OwedBytes DEF Owed
<1>3. [d \in Conn |-> Owed(d)]' = [d \in Conn |-> Owed(d)]
  BY <1>2
<1> QED
  BY <1>3 DEF Ledger!vars

\* If more is stored and only link c owes less, link c has delivered.
LEMMA DeliversBytes ==
  ASSUME InOrder, InOrder', NEW c \in Conn,
         Stored \subseteq Stored', last_seg_offset' = last_seg_offset,
         Owed(c)' \subseteq Owed(c),
         \A d \in Conn \ {c} : Owed(d)' = Owed(d)
  PROVE  Ledger!Deliver(c)
<1>1. \A b \in Byte : b \in Stored' <=>
        b \in Stored \/ (b \in Owed(c) /\ b \notin Owed(c)')
  BY DEF InOrder
<1>2. Stored' \subseteq Byte
  BY DEF Stored
<1>3. Stored' = Stored \cup (Owed(c) \ Owed(c)')
  BY <1>1, <1>2, OwedBytes
<1> QED
  BY <1>3, OwedLedger DEF Ledger!Deliver

\* If nothing is stored and no link but d owes less, what d owed was divided
\* again with the next bytes of the file.
LEMMA ReassignsBytes ==
  ASSUME InOrder, InOrder', NEW d \in Conn,
         Stored' = Stored, last_seg_offset <= last_seg_offset',
         \A c \in Conn \ {d} : Owed(c) \subseteq Owed(c)'
  PROVE  Ledger!Reassign(d)
<1> DEFINE share == [c \in Conn |-> IF c = d THEN Owed(c)' ELSE Owed(c)' \ Owed(c)]
           B == Owed(d) \cup Ledger!Fresh(last_seg_offset + 1, last_seg_offset' + 1)
<1>1. /\ last_seg_offset \in Int /\ last_seg_offset' \in Int
      /\ 0 <= last_seg_offset /\ last_seg_offset' <= Size - 1
      /\ \A b \in Byte : b \in Int /\ 0 <= b /\ b <= Size - 1
      /\ Size \in Int
  BY SizeAssumption DEF InOrder, Byte
<1>2. \A b \in Byte : b \in B <=>
        \/ b \in Owed(d)
        \/ last_seg_offset < b /\ b <= last_seg_offset'
  BY <1>1 DEF Ledger!Fresh
<1>3. B \subseteq Byte
  BY <1>1, OwedBytes DEF Ledger!Fresh, Byte
<1>4. \A c \in Conn : Owed(c)' \subseteq Byte
  BY DEF Owed
<1>5. \A b \in Byte : b <= last_seg_offset => b <= last_seg_offset'
  BY <1>1
<1>6. ASSUME NEW b \in B PROVE \E c \in Conn : b \in share[c]
  <2>1. b \in Byte /\ b <= last_seg_offset' /\ b \notin Stored
    <3>1. b \in Byte
      BY <1>3
    <3>2. CASE b \in Owed(d)
      BY <1>5, <3>1, <3>2 DEF InOrder
    <3>3. CASE last_seg_offset < b /\ b <= last_seg_offset'
      BY <1>1, <3>1, <3>3 DEF InOrder
    <3> QED
      BY <1>2, <3>1, <3>2, <3>3
  <2>2. PICK c \in Conn : b \in Owed(c)'
    BY <2>1 DEF InOrder
  <2>3. c # d => b \notin Owed(c)
    <3>1. CASE b \in Owed(d)
      BY <3>1 DEF InOrder
    <3>2. CASE last_seg_offset < b
      BY <1>1, <2>1, <3>2 DEF InOrder
    <3> QED
      BY <1>2, <2>1, <3>1, <3>2
  <2> QED
    BY <2>2, <2>3
<1>7. ASSUME NEW c \in Conn, NEW b \in share[c] PROVE b \in B
  <2>1. b \in Byte /\ b \in Owed(c)' /\ (c # d => b \notin Owed(c))
    BY <1>4
  <2>2. b <= last_seg_offset' /\ b \notin Stored
    BY <2>1 DEF InOrder
  <2>3. \A e \in Conn \ {d} : b \notin Owed(e)
    <3> SUFFICES ASSUME NEW e \in Conn \ {d}, b \in Owed(e) PROVE FALSE
      OBVIOUS
    <3>1. b \in Owed(e)'
      OBVIOUS
    <3>2. e = c
      BY <2>1, <3>1 DEF InOrder
    <3> QED
      BY <2>1, <3>2
  <2>4. b \in Owed(d) \/ ~(b <= last_seg_offset)
    BY <2>1, <2>2, <2>3 DEF InOrder
  <2> QED
    BY <1>1, <1>2, <2>1, <2>2, <2>4
<1>8. ASSUME NEW c \in Conn, NEW e \in Conn, c # e
      PROVE  share[c] \cap share[e] = {}
  <2>1. share[c] \subseteq Owed(c)' /\ share[e] \subseteq Owed(e)'
    OBVIOUS
  <2>2. Owed(c)' \cap Owed(e)' = {}
    BY <1>8 DEF InOrder
  <2> QED
    BY <2>1, <2>2
<1> HIDE DEF B
<1>9. Ledger!Divides(share, B)
  BY <1>6, <1>7, <1>8 DEF Ledger!Divides
<1>10. last_seg_offset' + 1 \in last_seg_offset + 1 .. Size
  <2> HIDE DEF share
  <2>1. /\ last_seg_offset \in Int /\ last_seg_offset' \in Int /\ Size \in Int
        /\ last_seg_offset <= last_seg_offset' /\ last_seg_offset' <= Size - 1
    BY <1>1
  <2>2. \A x, y, z \in Int : x <= y /\ y <= z - 1 => y + 1 \in x + 1 .. z
    OBVIOUS
  <2> QED
    BY <2>1, <2>2
<1>11. [c \in Conn |-> IF c = d THEN [e \in Conn |-> Owed(e)]'[c]
                       ELSE [e \in Conn |-> Owed(e)]'[c]
                              \ [e \in Conn |-> Owed(e)][c]] = share
  OBVIOUS
<1> QED
  BY <1>9, <1>10, <1>11, OwedLedger DEF Ledger!Reassign, B
-----------------------------------------------------------------------------
(* The engine's steps                                                      *)

\* Requests, flags, sockets and threads are not part of the ledger.
LEMMA KeepsLedger ==
  ASSUME UNCHANGED <<segVars, disk, currentbyte>>
  PROVE  UNCHANGED Ledger!vars
<1>1. \A c \in Conn : Owed(c)' = Owed(c)
  BY DEF Owed, segVars
<1>2. Stored' = Stored /\ last_seg_offset' = last_seg_offset
  BY DEF Stored, segVars
<1>3. [c \in Conn |-> Owed(c)]' = [c \in Conn |-> Owed(c)]
  BY <1>1
<1> QED
  BY <1>2, <1>3 DEF Ledger!vars

\* The steps of the main loop and of other threads that only look.
LEMMA FrameSteps ==
  ASSUME NEW i \in Conn,
         \/ ReadFails(i) \/ LastSegmentRequested(i) \/ StaysBehind(i)
         \/ NothingLeft(i) \/ Crash(i) \/ SendFails(i) \/ CheckConn(i)
         \/ SetupThread(i) \/ ServerCloses(i) \/ Account \/ Ready
         \/ EngineFails \/ Terminated \/ UNCHANGED vars
  PROVE  /\ UNCHANGED Ledger!vars
         /\ UNCHANGED fileVars
<1>1. UNCHANGED <<segVars, disk, currentbyte>> /\ UNCHANGED fileVars
  BY DEF ReadFails, LastSegmentRequested, StaysBehind, NothingLeft, Crash,
         SendFails, CheckConn, SetupThread, ServerCloses, Account, Ready,
         EngineFails, Terminated, vars, segVars, connVars, fileVars
<1> QED
  BY <1>1, KeepsLedger

\* The bytes a read delivers: asked of link i, and not stored before.
LEMMA ReceivedBytes ==
  ASSUME Bookkeeping, NEW i \in Conn, NEW n \in 1 .. BufferSize, Receive(i, n)
  PROVE  LET R == currentbyte[i] .. currentbyte[i] + n - 1
         IN  /\ R \subseteq Owed(i)
             /\ Stored' = Stored \cup R
             /\ currentbyte'[i] = currentbyte[i] + n
             /\ \A c \in Conn : c # i => currentbyte'[c] = currentbyte[c]
<1> DEFINE x == connection[i]
           h == FirstChunk(subsegment[x][i])
           cb == currentbyte[i]
           R == cb .. cb + n - 1
<1>0. /\ TypeOK /\ n \in Int /\ 1 <= n /\ cb \in Int /\ 0 <= cb
      /\ Size \in Int
  BY ReceiveFacts, LinkBounds
<1>1. /\ x \in SegId /\ h \in subsegment[x][i]
      /\ h.first <= cb /\ cb + n <= h.last + 1
  BY ReceivesInChunk
<1>2. /\ h.first \in Int /\ h.last \in Int /\ h.last <= Size - 1
  <2>1. subsegment[x][i] \subseteq Chunk
    BY <1>0, <1>1 DEF TypeOK
  <2> QED
    BY <1>1, <2>1, ChunkBounds
<1>3. \A b \in R : b \in Byte /\ b \in h.first .. h.last /\ ~(b < cb)
  BY <1>0, <1>1, <1>2 DEF Byte
<1>4. R \subseteq Owed(i)
  BY <1>1, <1>3 DEF Owed
<1>5. \A b \in Byte : b \in R => disk'[b] # NoByte
  <2> SUFFICES ASSUME NEW b \in Byte, b \in R PROVE disk'[b] # NoByte
    OBVIOUS
  <2>1. disk'[b] = IF Left(net[i]) <= 0 THEN Junk
                   ELSE net[i].response.first + (b - cb)
    BY DEF Receive
  <2>2. net[i].response.first \in Int /\ 0 <= net[i].response.first
    BY <1>0, LinkBounds
  <2>3. b - cb \in Int /\ 0 <= b - cb
    BY <1>0
  <2> QED
    BY <2>1, <2>2, <2>3 DEF Junk, NoByte
<1>6. \A b \in Byte : b \notin R => disk'[b] = disk[b]
  BY DEF Receive
<1>7. Stored' = Stored \cup R
  BY <1>3, <1>5, <1>6 DEF Stored
<1>8. /\ currentbyte'[i] = cb + n
      /\ \A c \in Conn : c # i => currentbyte'[c] = currentbyte[c]
  BY <1>0 DEF Receive, TypeOK
<1> QED
  BY <1>4, <1>7, <1>8

\* A read delivers bytes the link owes.
LEMMA ReceiveDelivers ==
  ASSUME Bookkeeping, InOrder, InOrder',
         NEW i \in Conn, NEW n \in 1 .. BufferSize, Receive(i, n)
  PROVE  Ledger!Deliver(i)
<1>1. /\ Stored \subseteq Stored'
      /\ currentbyte'[i] = currentbyte[i] + n
      /\ \A c \in Conn : c # i => currentbyte'[c] = currentbyte[c]
  BY ReceivedBytes
<1>2. UNCHANGED segVars
  BY DEF Receive
<1>3. subsegment' = subsegment /\ connection' = connection
      /\ last_seg_offset' = last_seg_offset
  BY <1>2 DEF segVars
<1>4. currentbyte[i] \in Int /\ n \in Int /\ 1 <= n
  BY ReceiveFacts, LinkBounds
<1>5. ASSUME NEW b \in Byte, b < currentbyte[i] PROVE b < currentbyte[i] + n
  BY <1>4, <1>5 DEF Byte
<1>6. Owed(i)' \subseteq Owed(i)
  BY <1>1, <1>3, <1>5 DEF Owed
<1>7. \A d \in Conn \ {i} : Owed(d)' = Owed(d)
  BY <1>1, <1>3 DEF Owed
<1> QED
  BY <1>1, <1>3, <1>6, <1>7, DeliversBytes

\* Moving on to the next chunk or subsegment, or going idle, leaves the other
\* link and the file alone, so it leaves the ledger alone: the chunk that is
\* dropped was read to its end.
LEMMA FinishKeepsLedger ==
  ASSUME Bookkeeping, InOrder, InOrder', NEW i \in Conn, Finish(i)
  PROVE  /\ UNCHANGED Ledger!vars
         /\ UNCHANGED fileVars
<1>1. /\ connection[i] \in SegId
      /\ connection \in [Conn -> SegId \cup {NULL}]
      /\ currentbyte \in [Conn -> 0 .. Size]
      /\ subsegment \in [SegId -> [Conn -> SUBSET Chunk]]
  BY FinishFacts DEF Finish, NextChunk, NextSubsegment, GoesIdle, TypeOK
<1>2. /\ \A d \in Conn : d # i => /\ connection'[d] = connection[d]
                                  /\ currentbyte'[d] = currentbyte[d]
                                  /\ \A s \in SegId :
                                       subsegment'[s][d] = subsegment[s][d]
      /\ disk' = disk /\ last_seg_offset' = last_seg_offset
      /\ UNCHANGED fileVars
  <2>1. CASE NextChunk(i)
    BY <1>1, <2>1 DEF NextChunk, fileVars
  <2>2. CASE NextSubsegment(i)
    BY <1>1, <2>2 DEF NextSubsegment, DropsSubsegment, fileVars, segVars, connVars
  <2>3. CASE GoesIdle(i)
    BY <1>1, <2>3 DEF GoesIdle, DropsSubsegment, fileVars
  <2> QED
    BY <2>1, <2>2, <2>3 DEF Finish
<1>3. \A d \in Conn \ {i} : Owed(d)' = Owed(d)
  BY <1>2 DEF Owed
<1>4. Stored' = Stored
  BY <1>2 DEF Stored
<1> QED
  BY <1>2, <1>3, <1>4, LeavesLedger

\* A segment is added: the handler's own link i keeps its position and gets
\* a share on top of what it owes; the other link's debt may be taken back.
LEMMA AddingReassigns ==
  ASSUME TypeOK, InOrder, InOrder', NEW i \in Conn, NEW t \in SegId,
         NEW share \in SUBSET Chunk,
         \A s \in SegId : subsegment'[s][i] =
                            IF s = t THEN share ELSE subsegment[s][i],
         subsegment[t][i] = {}, connection[i] # t,
         connection'[i] = connection[i], currentbyte'[i] = currentbyte[i],
         disk' = disk, last_seg_offset <= last_seg_offset'
  PROVE  Ledger!Reassign(Other(i))
<1>1. /\ Other(i) \in Conn
      /\ \A c \in Conn \ {Other(i)} : c = i
  BY DEF Other, Conn
<1>2. \A b \in Byte : b \in Owed(i)' <=> b \in Owed(i) \/ In(b, share)
  BY OwedGrows
<1>3. Owed(i) \subseteq Owed(i)'
  BY <1>2, OwedBytes
<1>4. Stored' = Stored
  BY DEF Stored
<1>5. \A c \in Conn \ {Other(i)} : Owed(c) \subseteq Owed(c)'
  BY <1>1, <1>3
<1> QED
  BY <1>1, <1>4, <1>5, ReassignsBytes

\* gb_setup_next_segment adds a segment.
LEMMA NewSegmentReassigns ==
  ASSUME Bookkeeping, InOrder, InOrder', NEW i \in Conn, NewSegment(i)
  PROVE  /\ Ledger!Reassign(Other(i))
         /\ UNCHANGED fileVars
<1>0. /\ TypeOK /\ Placed /\ Positioned
      /\ segment_count < MaxSegments /\ Scheduling(i)
  BY DEF Bookkeeping, NewSegment, Proceeds
<1>1. PICK n \in NextSizes \ {0}, f \in Conn :
        \E mode \in Modes(n) : \E share \in Divisions(n, f, mode) :
          AddsAndRequests(i, n, share, mode)
  BY DEF NewSegment
<1>2. PICK mode \in Modes(n) :
        \E share \in Divisions(n, f, mode) : AddsAndRequests(i, n, share, mode)
  BY <1>1
<1>3. PICK share \in Divisions(n, f, mode) : AddsAndRequests(i, n, share, mode)
  BY <1>2
<1>4. /\ mode \in LinkMode
      /\ last_seg_offset' = last_seg_offset + n
      /\ \A s \in SegId : subsegment'[s] = IF s = segment_count + 1 THEN share
                                           ELSE subsegment[s]
  BY <1>0, <1>3, NewSegmentTypes
<1>5. share \in [Conn -> SUBSET Chunk]
  BY <1>0, <1>4, DivisionsOnce
<1>6. /\ segment_count + 1 \in SegId
      /\ subsegment[segment_count + 1][i] = {}
      /\ connection[i] # segment_count + 1
  BY <1>0, NewSegmentIsNew
<1>7. last_seg_offset <= last_seg_offset'
  <2>1. n \in Int /\ 1 <= n /\ last_seg_offset \in Int
    BY <1>0, SizesBounded, LinkBounds
  <2> QED
    BY <1>4, <2>1
<1>8. /\ connection'[i] = connection[i] /\ currentbyte'[i] = currentbyte[i]
      /\ disk' = disk /\ UNCHANGED fileVars
  <2>1. Other(i) # i
    BY DEF Other, Conn
  <2>2. /\ connection \in [Conn -> SegId \cup {NULL}]
        /\ currentbyte \in [Conn -> 0 .. Size]
    BY <1>0 DEF TypeOK
  <2> QED
    BY <1>3, <2>1, <2>2 DEF AddsAndRequests, fileVars
<1>9. \A s \in SegId : subsegment'[s][i] =
        IF s = segment_count + 1 THEN share[i] ELSE subsegment[s][i]
  BY <1>4
<1>10. Ledger!Reassign(Other(i))
  BY <1>0, <1>5, <1>6, <1>7, <1>8, <1>9, AddingReassigns
<1> QED
  BY <1>8, <1>10

\* perform_recovery takes back what the other link owes.
LEMMA RecoverReassigns ==
  ASSUME Bookkeeping, InOrder, InOrder', NEW i \in Conn, Recover(i)
  PROVE  /\ Ledger!Reassign(Other(i))
         /\ UNCHANGED fileVars
<1> DEFINE j == Other(i)
           t == segment_count + 1
<1>0. /\ TypeOK /\ Disjoint /\ Placed /\ Positioned
      /\ Scheduling(i) /\ segment_count < MaxSegments
      /\ connection[j] # NULL /\ Handled
  BY DEF Bookkeeping, EachByteOnce, Recover, ConsidersRecovery, Proceeds
<1>1. j \in Conn /\ j # i /\ \A c \in Conn : c = i \/ c = j
  BY DEF Other, Conn
<1>2. ~Done(j)
  BY <1>0, <1>1 DEF Handled, Scheduling, Stopped
<1>3. PICK n \in RecoverySizes :
        \E cut \in Bytes(Outstanding(j) \cup Extra(n)) \cup {Size} :
          Redivides(i, Outstanding(j) \cup Extra(n),
                    Division(Outstanding(j) \cup Extra(n), i, cut))
  BY DEF Recover, Extra
<1> DEFINE all == Outstanding(j) \cup Extra(n)
<1>4. PICK cut \in Bytes(all) \cup {Size} : Redivides(i, all, Division(all, i, cut))
  BY <1>3
<1> DEFINE share == Division(all, i, cut)
<1>5. /\ all \in SUBSET Chunk /\ AllApart(all)
      /\ Reach(all) \in Byte
      /\ (IF Reach(all) > last_seg_offset THEN Reach(all)
          ELSE last_seg_offset) = last_seg_offset + n
  <2> HIDE DEF j
  <2> QED
    BY <1>0, <1>1, <1>2, RecoveredOnce
<1> HIDE DEF all
<1>6. cut \in Int
  <2>1. Bytes(all) \subseteq Byte
    BY <1>5, BytesIn
  <2>2. Byte \subseteq Int /\ Size \in Int
    BY <1>0, LinkBounds DEF Byte
  <2> QED
    BY <2>1, <2>2
<1>7. share \in [Conn -> SUBSET Chunk]
  BY <1>5, <1>6, DivisionOnce
<1> HIDE DEF share
<1>8. Redivides(i, all, share)
  BY <1>4 DEF share
<1>9. /\ last_seg_offset' = last_seg_offset + n
      /\ \A s \in SegId : subsegment'[s][i] =
           IF s = t THEN share[i] ELSE subsegment[s][i]
  BY <1>0, <1>5, <1>7, <1>8, RedividesTypes
<1>10. t \in SegId /\ subsegment[t][i] = {} /\ connection[i] # t
  BY <1>0, NewSegmentIsNew
<1>11. last_seg_offset <= last_seg_offset'
  <2>1. n \in Int /\ 0 <= n /\ last_seg_offset \in Int
    BY <1>0, SizesBounded, LinkBounds
  <2> QED
    BY <1>9, <2>1
<1>12. /\ connection'[i] = connection[i] /\ currentbyte'[i] = currentbyte[i]
       /\ disk' = disk /\ UNCHANGED fileVars
  <2>1. /\ connection \in [Conn -> SegId \cup {NULL}]
        /\ currentbyte \in [Conn -> 0 .. Size]
    BY <1>0 DEF TypeOK
  <2> HIDE DEF j
  <2> QED
    BY <1>1, <1>8, <2>1 DEF Redivides, fileVars, j
<1> HIDE DEF t
<1>13. Ledger!Reassign(Other(i))
  BY <1>0, <1>7, <1>9, <1>10, <1>11, <1>12, AddingReassigns
<1> QED
  BY <1>12, <1>13
-----------------------------------------------------------------------------
(* The refinement                                                          *)

\* gb_open divides the first segment between the links.
LEMMA InitLedger == ASSUME Init, InOrder PROVE Ledger!Init
<1>1. Stored = {}
  BY DEF Init, Stored
<1>2. last_seg_offset = InitSegSize - 1
  BY DEF Init
<1>3. InitSegSize \in Int /\ 2 <= InitSegSize /\ InitSegSize <= Size /\ Size \in Int
  BY SizeAssumption, InitSegAssumption
<1>4. last_seg_offset + 1 \in 1 .. Size
  BY <1>2, <1>3
<1>5. \A b \in Byte :
        b <= last_seg_offset <=> b \in Ledger!Fresh(0, last_seg_offset + 1)
  BY <1>2, <1>3 DEF Ledger!Fresh, Byte
<1>6. Ledger!Fresh(0, last_seg_offset + 1) \subseteq Byte
  BY <1>2, <1>3 DEF Ledger!Fresh, Byte
<1>7. Ledger!Divides([c \in Conn |-> Owed(c)], Ledger!Fresh(0, last_seg_offset + 1))
  BY <1>1, <1>5, <1>6, OwedBytes DEF Ledger!Divides, InOrder
<1> QED
  BY <1>1, <1>4, <1>7, OwedLedger DEF Ledger!Init

\* Every step of the engine is a step of the ledger, or none.
LEMMA NextLedger ==
  ASSUME Bookkeeping, InOrder, InOrder', [Next]_vars
  PROVE  [Ledger!Next]_(Ledger!vars)
<1>1. ASSUME NEW i \in Conn, NEW n \in 1 .. BufferSize, Receive(i, n)
      PROVE  Ledger!Next
  BY <1>1, ReceiveDelivers DEF Ledger!Next
<1>2. ASSUME NEW i \in Conn, Schedule(i)
      PROVE  Ledger!Next \/ UNCHANGED Ledger!vars
  <2>1. Other(i) \in Conn
    BY DEF Other, Conn
  <2>2. CASE NewSegment(i) \/ Recover(i)
    BY <2>1, <2>2, NewSegmentReassigns, RecoverReassigns DEF Ledger!Next
  <2>3. CASE \/ LastSegmentRequested(i) \/ StaysBehind(i) \/ NothingLeft(i)
             \/ Crash(i) \/ SendFails(i)
    BY <2>3, FrameSteps
  <2> QED
    BY <1>2, <2>2, <2>3 DEF Schedule
<1>3. ASSUME NEW i \in Conn, Finish(i) PROVE UNCHANGED Ledger!vars
  BY <1>3, FinishKeepsLedger
<1>4. ASSUME NEW i \in Conn,
             \/ ReadFails(i) \/ CheckConn(i) \/ SetupThread(i) \/ ServerCloses(i)
      PROVE  UNCHANGED Ledger!vars
  BY <1>4, FrameSteps
<1>5. ASSUME Account \/ Ready \/ EngineFails \/ Terminated \/ UNCHANGED vars
      PROVE  UNCHANGED Ledger!vars
  <2>1. 0 \in Conn
    BY DEF Conn
  <2> QED
    BY <1>5, <2>1, FrameSteps
<1> QED
  BY <1>1, <1>2, <1>3, <1>4, <1>5 DEF Next, MainLoop, Threads

\* The engine implements the ledger of bytes: each byte is handed to one link,
\* stays owed until it is stored, and is never asked for again, through
\* pipelining, splits and recovery (offset.c, gb.c, recovery.c), for any file
\* and all modes.
THEOREM Refines == Spec => ImplementsDownload
<1>1. Init => Ledger!Init
  BY InitBookkeeping, BookkeepingInOrder, InitLedger
<1>2. Bookkeeping /\ InOrder /\ InOrder' /\ [Next]_vars
        => [Ledger!Next]_(Ledger!vars)
  BY NextLedger
<1>3. Spec => []Bookkeeping
  BY BookkeepingHolds
<1>4. Bookkeeping => InOrder
  BY BookkeepingInOrder
<1> QED
  BY <1>1, <1>2, <1>3, <1>4, PTL DEF Spec, ImplementsDownload, Ledger!Spec
-----------------------------------------------------------------------------
(* bytes_done                                                              *)

\* What was read at once is n bytes long.
LEMMA ReadCounted ==
  ASSUME NEW f \in Int, NEW n \in Int, 1 <= n
  PROVE  LET R == f .. f + n - 1
         IN  IsFiniteSet(R) /\ Cardinality(R) = n
BY FS_Interval

\* A read adds to bytes_done exactly the bytes it adds to the file.
LEMMA ReceiveCounts ==
  ASSUME Bookkeeping, InOrder, NEW i \in Conn, NEW n \in 1 .. BufferSize,
         Receive(i, n), BytesDoneCounts
  PROVE  BytesDoneCounts'
<1> DEFINE R == currentbyte[i] .. currentbyte[i] + n - 1
<1>1. R \subseteq Owed(i) /\ Stored' = Stored \cup R
  BY ReceivedBytes
<1>2. IsFiniteSet(R) /\ Cardinality(R) = n
  <2>1. currentbyte[i] \in Int /\ n \in Int /\ 1 <= n
    BY ReceiveFacts, LinkBounds
  <2> QED
    BY <2>1, ReadCounted
<1>3. IsFiniteSet(Stored)
  <2>1. IsFiniteSet(Byte)
    BY SizeAssumption, FS_Interval DEF Byte
  <2> QED
    BY <2>1, OwedBytes, FS_Subset
<1> HIDE DEF R
<1>4. Stored \cap R = {}
  BY <1>1 DEF InOrder
<1>5. Cardinality(Stored \cup R) = Cardinality(Stored) + Cardinality(R)
                                     - Cardinality(Stored \cap R)
  BY <1>2, <1>3, FS_Union
<1>6. Cardinality(Stored \cap R) = 0
  BY <1>4, FS_EmptySet
<1>7. Cardinality(Stored) \in Nat /\ n \in Nat
  BY <1>3, FS_CardinalityType
<1>8. bytes_done' = bytes_done + n
  BY DEF Receive
<1> QED
  BY <1>1, <1>2, <1>5, <1>6, <1>7, <1>8 DEF BytesDoneCounts

\* ready = 1 says that every byte was counted.
ReadyCounts == pc = "done" => bytes_done = Size

\* Only a read moves bytes_done; only the main loop, at the end, moves ready.
LEMMA NextCounts ==
  ASSUME Bookkeeping, InOrder, [Next]_vars, BytesDoneCounts, ReadyCounts
  PROVE  BytesDoneCounts' /\ ReadyCounts'
<1>1. UNCHANGED disk /\ UNCHANGED bytes_done => BytesDoneCounts'
  BY DEF BytesDoneCounts, Stored
<1>2. ASSUME NEW i \in Conn, NEW n \in 1 .. BufferSize, Receive(i, n)
      PROVE  BytesDoneCounts' /\ ReadyCounts'
  <2>1. pc' # "done"
    BY <1>2 DEF Receive
  <2> QED
    BY <1>2, <2>1, ReceiveCounts DEF ReadyCounts
<1>3. ASSUME NEW i \in Conn, Schedule(i)
      PROVE  UNCHANGED fileVars /\ pc' # "done"
  <2>1. CASE \/ LastSegmentRequested(i) \/ StaysBehind(i) \/ NothingLeft(i)
             \/ Crash(i) \/ SendFails(i)
    BY <2>1 DEF LastSegmentRequested, StaysBehind, NothingLeft, Crash,
                SendFails, AfterSchedule
  <2>2. CASE NewSegment(i)
    BY <2>2 DEF NewSegment, AddsAndRequests, AfterSchedule
  <2>3. CASE Recover(i)
    BY <2>3 DEF Recover, Redivides, AfterSchedule
  <2> QED
    BY <1>3, <2>1, <2>2, <2>3 DEF Schedule
<1>4. ASSUME NEW i \in Conn, Finish(i)
      PROVE  UNCHANGED fileVars /\ pc' # "done"
  BY <1>4 DEF Finish, NextChunk, NextSubsegment, GoesIdle
<1>5. ASSUME NEW i \in Conn,
             \/ ReadFails(i) \/ CheckConn(i) \/ SetupThread(i) \/ ServerCloses(i)
      PROVE  UNCHANGED fileVars /\ pc' # "done"
  BY <1>5 DEF ReadFails, CheckConn, SetupThread, ConnSetup, SendsRequest,
              ReadsHeader, SetupFails, ServerCloses, Stopped
<1>6. ASSUME Account \/ EngineFails PROVE UNCHANGED fileVars /\ pc' # "done"
  BY <1>6 DEF Account, EngineFails
<1>7. ASSUME Ready PROVE UNCHANGED fileVars /\ bytes_done = Size
  BY <1>7 DEF Ready
<1>8. ASSUME Terminated \/ UNCHANGED vars PROVE UNCHANGED fileVars /\ pc' = pc
  BY <1>8 DEF Terminated, vars
<1>9. ASSUME UNCHANGED fileVars,
             \/ pc' # "done" \/ pc' = pc \/ bytes_done = Size
      PROVE  BytesDoneCounts' /\ ReadyCounts'
  BY <1>1, <1>9 DEF fileVars, ReadyCounts
<1>10. CASE MainLoop
  BY <1>2, <1>3, <1>4, <1>5, <1>6, <1>7, <1>9, <1>10 DEF MainLoop
<1>11. CASE Threads \/ \E c \in Conn : ServerCloses(c)
  BY <1>5, <1>9, <1>11 DEF Threads
<1>12. CASE EngineFails \/ Terminated \/ UNCHANGED vars
  BY <1>6, <1>8, <1>9, <1>12
<1> QED
  BY <1>10, <1>11, <1>12 DEF Next

\* Nothing was received before the main loop starts.
LEMMA InitCounts == Init => BytesDoneCounts /\ ReadyCounts
<1> SUFFICES ASSUME Init PROVE BytesDoneCounts /\ ReadyCounts
  OBVIOUS
<1>1. bytes_done = 0 /\ pc = "select" /\ Stored = {}
  BY DEF Init, Stored
<1> QED
  BY <1>1, FS_EmptySet DEF BytesDoneCounts, ReadyCounts

\* bytes_done is the number of bytes in the file, and the engine is ready
\* only when it is the file's size.
THEOREM Counts == Spec => [](BytesDoneCounts /\ ReadyCounts)
<1>1. Init => BytesDoneCounts /\ ReadyCounts
  BY InitCounts
<1>2. /\ Bookkeeping /\ InOrder /\ BytesDoneCounts /\ ReadyCounts /\ [Next]_vars
      => (BytesDoneCounts /\ ReadyCounts)'
  BY NextCounts
<1>3. Bookkeeping => InOrder
  BY BookkeepingInOrder
<1> QED
  BY <1>1, <1>2, <1>3, BookkeepingHolds, PTL DEF Spec

\* bytes_done, which ends the download, neither misses a byte nor counts one
\* twice, whatever is retried, split or recovered.
THEOREM BytesDoneCountsHolds == Spec => []BytesDoneCounts
BY Counts, PTL

\* A file of Size bytes, all counted, has no hole.
LEMMA CountedIsStored ==
  ASSUME BytesDoneCounts, bytes_done = Size
  PROVE  Stored = Byte
<1>1. IsFiniteSet(Byte) /\ Cardinality(Byte) = Size
  BY SizeAssumption, FS_Interval DEF Byte
<1>2. Stored \subseteq Byte /\ Cardinality(Stored) = Cardinality(Byte)
  BY <1>1, OwedBytes DEF BytesDoneCounts
<1> QED
  BY <1>1, <1>2, FS_Subset

\* The engine is ready (gb.c, gb->ready = 1) only when no offset of the file
\* is left unwritten.
THEOREM ReadyIsFull == Spec => [](pc = "done" => Stored = Byte)
<1>1. BytesDoneCounts /\ ReadyCounts => (pc = "done" => Stored = Byte)
  BY CountedIsStored DEF ReadyCounts
<1> QED
  BY <1>1, Counts, PTL
=============================================================================
