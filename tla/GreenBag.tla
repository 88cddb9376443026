------------------------------ MODULE GreenBag ------------------------------
(***************************************************************************)
(* The download engine of GreenBag: the main loop (algo_general), the      *)
(* segment and chunk bookkeeping (offset.c, gb.c), recovery (recovery.c),  *)
(* the pipelined requests, and the set-up threads that (re)open a link.    *)
(*                                                                         *)
(* One handler of the main loop runs over several steps of pc:             *)
(*   select    waiting for data; check_conn runs here                      *)
(*   schedule  gb_setup_next_segment and the requests it leads to          *)
(*   finish    the link `at' has received the last byte of its chunk       *)
(*   account   update_inorder_offset                                       *)
(*   done      gb->ready = 1                                               *)
(*   failed    gb->ready = -1                                              *)
(*   crashed   a NULL pointer was dereferenced                             *)
(*   exited    an assert failed or the code called exit(1)                 *)
(* The set-up threads and the server run between these steps.              *)
(*                                                                         *)
(* Abstractions.  Goodputs, player position and QoS estimates are not      *)
(* modelled: which link is fast, how large a policy segment is, where a    *)
(* segment is cut and whether the player would stall are free choices.     *)
(* A chunk list is the set of its chunks, since the code keeps each list   *)
(* sorted by start byte (sorting_chunks); a NULL subsegment is {}.         *)
(***************************************************************************)
EXTENDS Integers, Sequences, FiniteSets

CONSTANTS
  Size,               \* gb->size, the length of the file
  InitSegSize,        \* offset_info.init_seg_size
  BufferSize,         \* conf->buffer_size, the most one read() returns
  PipelineFactor,     \* SEND_PIPELINE_REQ_THRS_FACTOR
  FixedSegmentMode,   \* conf->fixed_segment_mode
  RecoveryMode,       \* conf->recovery_mode # 0
  MinimumEnergyMode,  \* conf->minimum_energy_mode
  Connected,          \* start after, or before, the first set-up threads ran
  MaxSegments,        \* bound: segments created in a run
  MaxFailures         \* bound: connections lost or refused in a run

ASSUME SizeAssumption == Size \in Nat \ {0}
ASSUME InitSegAssumption == InitSegSize \in 2 .. Size
ASSUME BufferAssumption == BufferSize \in Nat \ {0}
ASSUME FactorAssumption == PipelineFactor \in Nat \ {0}
ASSUME ModeAssumption == /\ FixedSegmentMode \in BOOLEAN
                         /\ RecoveryMode \in BOOLEAN
                         /\ MinimumEnergyMode \in BOOLEAN
                         /\ Connected \in BOOLEAN
ASSUME BoundAssumption == MaxSegments \in Nat \ {0} /\ MaxFailures \in Nat

Conn == {0, 1}
INDEX_LTE == 0
Other(c) == 1 - c

Byte == 0 .. Size - 1
Chunk == {k \in [first : Byte, last : Byte] : k.first <= k.last}

\* Segment identifiers; 0 stands for a NULL segment pointer.
SegId == 1 .. MaxSegments
NULL == 0

DUAL_LINK_MODE == 0
LinkMode == 0 .. 2      \* 1 + c: only link c is used

NoByte == -1            \* nothing was written at this offset
Junk == -2              \* something that is not file data was written

VARIABLES
  segment_count,            \* the id of the tail segment
  completed_segment_count,  \* segments deleted; the head is the next one
  segment,                  \* recovery flag and last byte of each segment
  subsegment,               \* chunk list of each segment's two subsegments
  subseg_size,              \* size each subsegment was created with
  connection,               \* the segment each link is downloading
  last_seg_offset,          \* the last byte put into a segment
  conn_idle,                \* offset_info.conn_idle
  link_mode,                \* current_link_mode; single_link_mode_flag = (# 0)
  inorder_offset,           \* gb->inorder_offset
  bytes_done,               \* gb->bytes_done
  currentbyte, lastbyte,    \* the range each link is receiving
  enabled, state,           \* conn->enabled, conn->state
  pipeline_requests_sent,   \* conn->pipeline_requests_sent
  last_segment_flag,        \* conn->last_segment_flag
  disk,                     \* which byte of the file is stored at each offset
  net,                      \* the socket of each link and what is in flight
  thread,                   \* the step of the link's set-up thread, or none
  range,                    \* the range that thread builds its request from
  pc, at,                   \* the step of the main loop, and its link
  failures                  \* connections lost or refused so far

segVars == <<segment_count, completed_segment_count, segment, subsegment,
             subseg_size, connection, last_seg_offset>>
connVars == <<currentbyte, lastbyte, enabled, state, pipeline_requests_sent,
              last_segment_flag>>
fileVars == <<bytes_done, disk>>
threadVars == <<thread, range>>
vars == <<segVars, connVars, fileVars, conn_idle, link_mode, inorder_offset,
          net, threadVars, pc, at, failures>>
-----------------------------------------------------------------------------
(* Chunk lists                                                             *)

Bytes(C) == UNION {k.first .. k.last : k \in C}

\* The head of the chunk list.
FirstChunk(C) == CHOOSE k \in C : \A m \in C : k.first <= m.first

\* add_new_subsegment: the fast link gets the chunks before a cut, the slow
\* link those after it; a chunk that spans the cut is split in two.
Below(C, cut) == {[first |-> k.first,
                   last |-> IF k.last < cut THEN k.last ELSE cut - 1] :
                    k \in {m \in C : m.first < cut}}
\* Faulty: a chunk that spans the cut keeps its first byte in both parts.
Above_Whole(C, cut) == {k \in C : k.last >= cut}

Above(C, cut) == {[first |-> IF k.first < cut THEN cut ELSE k.first,
                   last |-> k.last] : k \in {m \in C : m.last >= cut}}

EndsFile(C) == \E k \in C : k.last = Size - 1

\* get_first_next_segment_assigned_to_conn
NextSegments(sub, s, c) == {t \in SegId : t > s /\ sub[t][c] # {}}
NextSegment(sub, s, c) ==
  IF NextSegments(sub, s, c) = {} THEN NULL
  ELSE CHOOSE t \in NextSegments(sub, s, c) :
         \A u \in NextSegments(sub, s, c) : t <= u

NoSegment == [recovery_segment |-> FALSE, last |-> NoByte]
NoSubsegment == [c \in Conn |-> {}]

\* delete_finished_head_segment, called n times: heads without subsegments.
DeletesHeads(sub, n) ==
  \E d \in completed_segment_count .. segment_count :
    /\ \A s \in completed_segment_count + 1 .. d : sub[s] = NoSubsegment
    /\ d - completed_segment_count <= n
    /\ \/ d = segment_count
       \/ d - completed_segment_count = n
       \/ sub[d + 1] # NoSubsegment
    /\ completed_segment_count' = d
-----------------------------------------------------------------------------
(* Sockets.  requests: the ranges asked for whose header was not read, one *)
(* set per subsegment, since a subsegment's chunks are requested in order. *)
(* response: the rest of the body whose header was read.                   *)

NoResponse == [first |-> 0, last |-> -1]
Socket(f) == [fd |-> f, requests |-> <<>>, response |-> NoResponse]
Closed == Socket("closed")   \* fd = -1
Unset == Socket("unset")     \* fd = 0 before the first connect
Open == Socket("open")
Gone == Socket("gone")       \* closed by the server, not yet noticed

Left(w) == w.response.last - w.response.first + 1

\* conn_disconnect: what was in flight is lost.
Disconnected_Not(w) == w
Disconnected(w) == Closed

\* Requests written to a socket; writes to any other descriptor are lost.
Requested(w, C) ==
  IF w.fd = "open" /\ C # {} THEN [w EXCEPT !.requests = Append(@, C)] ELSE w

\* Faulty: a link that was closed is not opened again.
Sent_NoReconnect(w, C) == Requested(w, C)

\* send_http_request_for_subsegment: reconnects when fd is -1.
Sent(w, C) == Requested(IF C # {} /\ w.fd = "closed" THEN Open ELSE w, C)

\* gb_receive_http_header_response returns 1 when the next thing on the
\* socket is a header.  Otherwise it reads until the connection is gone.
HasHeader(w) == w.fd = "open" /\ w.requests # <<>> /\ Left(w) <= 0
\* Faulty: the chunks of a subsegment are asked for last one first.
HeaderRead_Unsorted(w) ==
  IF HasHeader(w)
  THEN LET C == Head(w.requests)
           k == CHOOSE k \in C : \A m \in C : k.last >= m.last
       IN  [w EXCEPT !.response = k,
                     !.requests = IF C = {k} THEN Tail(@)
                                  ELSE <<C \ {k}>> \o Tail(@)]
  ELSE IF w.fd = "open" THEN Gone ELSE w

HeaderRead(w) ==
  IF HasHeader(w)
  THEN LET C == Head(w.requests)
           k == FirstChunk(C)
       IN  [w EXCEPT !.response = k,
                     !.requests = IF C = {k} THEN Tail(@)
                                  ELSE <<C \ {k}>> \o Tail(@)]
  ELSE IF w.fd = "open" THEN Gone ELSE w
-----------------------------------------------------------------------------
(* Positions                                                               *)

num_segments == segment_count - completed_segment_count
UsingOneLink == conn_idle[0] # conn_idle[1]
Done(c) == currentbyte[c] > lastbyte[c]

\* Faulty: the whole chunk being received is taken back.
Outstanding_Whole(c) ==
  UNION {subsegment[t][c] : t \in {u \in SegId : u >= connection[c]}}

\* The chunks of link c that are not stored yet.
Outstanding(c) ==
  LET s == connection[c]
      h == FirstChunk(subsegment[s][c])
  IN  {[first |-> currentbyte[c], last |-> h.last]}
        \cup (subsegment[s][c] \ {h})
        \cup UNION {subsegment[t][c] : t \in {u \in SegId : u > s}}

\* update_inorder_offset: both links idle, one link idle, both in use.
Idle == [c \in Conn |-> currentbyte[c] = lastbyte[c] + 1]
Earliest(S) == CHOOSE m \in S : \A b \in S : m <= b
Starts(sub, c) ==
  {FirstChunk(sub[s][c]).first :
     s \in {t \in SegId : t # connection[c] /\ sub[t][c] # {}}}
\* Faulty: the later of the two positions is reported.
FoundInorder_Latest(sub) ==
  IF Idle[0] # Idle[1] THEN currentbyte[IF Idle[0] THEN 1 ELSE 0]
  ELSE IF currentbyte[0] > currentbyte[1] THEN currentbyte[0] ELSE currentbyte[1]

FoundInorder(sub) ==
  IF Idle[0] /\ Idle[1] THEN Size - 1
  ELSE IF Idle[0] # Idle[1] THEN currentbyte[IF Idle[0] THEN 1 ELSE 0]
  ELSE Earliest(UNION {{currentbyte[c]} \cup Starts(sub, c) : c \in Conn})

\* gb_determine_next_segment_policy re-estimates the in-order offset first;
\* a fixed segment size is taken without it.
Reestimated(sub) ==
  inorder_offset' = IF FixedSegmentMode THEN inorder_offset
                    ELSE FoundInorder(sub)
ReestimatedIdle == IF FixedSegmentMode THEN conn_idle ELSE Idle
AssertFails(sub) == ~FixedSegmentMode /\ inorder_offset > FoundInorder(sub)

\* get_bn_chunk_info dereferences the chunk that blocks in-order delivery;
\* here there is none.
NextChunks(c) == {k \in UNION {subsegment[s][c] : s \in SegId} :
                    k.first > currentbyte[c]}
BeingDownloaded(c) ==
  LET s == NextSegment(subsegment, NULL, c)
  IN  IF s = NULL THEN {}
      ELSE {k \in subsegment[s][c] : k.last > currentbyte[c]}
NoBottleneck(i, idle) ==
  IF idle[0] # idle[1] THEN BeingDownloaded(i) = {}
  ELSE BeingDownloaded(Other(i)) = {} /\ NextChunks(i) = {}
\* The range of a set-up thread that has no request to send.
NoRange == [first |-> 0, last |-> 0]
-----------------------------------------------------------------------------
(* gb_open, and gb_start up to the main loop.  Neither goodput is known    *)
(* yet, so link 0 is the fast one.  Both links get part of the first       *)
(* segment (conf->initial_chunk_rate).                                     *)

Init ==
  \E cut \in 1 .. InitSegSize - 1 :
    LET all == {[first |-> 0, last |-> InitSegSize - 1]}
        share == [c \in Conn |-> IF c = 0 THEN Below(all, cut)
                                 ELSE Above(all, cut)]
        from(c) == IF c = 0 THEN 0 ELSE cut
        upto(c) == IF c = 0 THEN cut - 1 ELSE InitSegSize - 1
    IN  /\ segment_count = 1
        /\ completed_segment_count = 0
        /\ segment = [s \in SegId |->
                        IF s = 1 THEN [recovery_segment |-> FALSE,
                                       last |-> InitSegSize - 1]
                        ELSE NoSegment]
        /\ subsegment = [s \in SegId |-> IF s = 1 THEN share ELSE NoSubsegment]
        /\ subseg_size = [s \in SegId |-> [c \in Conn |->
                            IF s = 1 THEN upto(c) - from(c) + 1 ELSE 0]]
        /\ connection = [c \in Conn |-> 1]
        /\ last_seg_offset = InitSegSize - 1
        /\ conn_idle = [c \in Conn |-> FALSE]
        /\ link_mode = DUAL_LINK_MODE
        /\ inorder_offset = 0
        /\ bytes_done = 0
        /\ currentbyte = [c \in Conn |-> from(c)]
        /\ lastbyte = [c \in Conn |-> upto(c)]
        /\ enabled = [c \in Conn |-> Connected]
        /\ state = [c \in Conn |-> IF Connected THEN 0 ELSE 1]
        /\ pipeline_requests_sent = [c \in Conn |-> FALSE]
        /\ last_segment_flag = [c \in Conn |-> InitSegSize = Size]
        /\ disk = [b \in Byte |-> NoByte]
        /\ net = [c \in Conn |->
                    IF Connected
                    THEN [Open EXCEPT !.response = [first |-> from(c),
                                                    last |-> upto(c)]]
                    ELSE IF c = 0 THEN Closed ELSE Unset]
        /\ thread = [c \in Conn |-> IF Connected THEN "none" ELSE "setup"]
        /\ range = [c \in Conn |-> NoRange]
        /\ pc = "select"
        /\ at = 0
        /\ failures = 0
-----------------------------------------------------------------------------
(* algo_general: data arrives on link i and is written at its position.    *)

\* Faulty: a short chunk is over before its threshold is ever met.
PipelineDue_Early(i, n) ==
  /\ subseg_size[connection[i]][i] \div PipelineFactor >
       lastbyte[i] - currentbyte[i] + 1
  /\ ~pipeline_requests_sent[i]
  /\ ~conn_idle[i]

PipelineDue(i, n) ==
  LET remaining == lastbyte[i] - currentbyte[i] + 1
  IN  /\ \/ subseg_size[connection[i]][i] \div PipelineFactor > remaining
         \/ remaining <= n
      /\ ~pipeline_requests_sent[i]
      /\ ~conn_idle[i]

Receive(i, n) ==
  /\ pc = "select"
  /\ enabled[i]
  /\ net[i].fd = "open"
  /\ n <= lastbyte[i] - currentbyte[i] + 1
  /\ \/ n <= Left(net[i])
     \/ Left(net[i]) <= 0 /\ net[i].requests # <<>>
  /\ disk' = [b \in Byte |->
                IF b \in currentbyte[i] .. currentbyte[i] + n - 1
                THEN IF Left(net[i]) <= 0 THEN Junk
                     ELSE net[i].response.first + (b - currentbyte[i])
                ELSE disk[b]]
  /\ net' = IF Left(net[i]) <= 0 THEN net
            ELSE [net EXCEPT ![i].response.first = @ + n]
  /\ currentbyte' = [currentbyte EXCEPT ![i] = @ + n]
  /\ bytes_done' = bytes_done + n
  /\ at' = i
  /\ pc' = IF PipelineDue(i, n) THEN "schedule"
           ELSE IF n = lastbyte[i] - currentbyte[i] + 1 THEN "finish"
           ELSE "account"
  /\ UNCHANGED <<segVars, conn_idle, link_mode, inorder_offset, lastbyte,
                 enabled, state, pipeline_requests_sent, last_segment_flag,
                 threadVars, failures>>

\* Faulty: the link starts again from the beginning of its chunk.
ReadFails_Restart(i) ==
  /\ pc = "select"
  /\ enabled[i]
  /\ net[i].fd = "gone"
  /\ enabled' = [enabled EXCEPT ![i] = FALSE]
  /\ net' = [net EXCEPT ![i] = Closed]
  /\ currentbyte' = [currentbyte EXCEPT
       ![i] = FirstChunk(subsegment[connection[i]][i]).first]
  /\ UNCHANGED <<segVars, lastbyte, state, pipeline_requests_sent,
                 last_segment_flag, fileVars, conn_idle, link_mode,
                 inorder_offset, threadVars, pc, at, failures>>

\* exception_for_read: read() returns 0 or -1.
ReadFails(i) ==
  /\ pc = "select"
  /\ enabled[i]
  /\ \/ net[i].fd = "gone"
     \/ net[i].fd = "open" /\ Done(i) /\ Left(net[i]) > 0
  /\ enabled' = [enabled EXCEPT ![i] = FALSE]
  /\ net' = [net EXCEPT ![i] = Disconnected(@)]
  /\ UNCHANGED <<segVars, currentbyte, lastbyte, state,
                 pipeline_requests_sent, last_segment_flag, fileVars,
                 conn_idle, link_mode, inorder_offset, threadVars, pc, at,
                 failures>>
-----------------------------------------------------------------------------
(* gb_setup_next_segment(gb, i), called by the handler of link i.          *)

OneSegment == num_segments = 1
Ahead(i) == ~OneSegment /\ connection[i] = segment_count
Behind(i) == ~OneSegment /\ connection[i] # segment_count

\* Faulty: the handler forgets that it read the last byte of the chunk.
AfterSchedule_Unfinished(i) == "account"

\* The handler goes on with the chunk, or with the in-order offset.
AfterSchedule(i) == IF Done(i) THEN "finish" ELSE "account"

Scheduling(i) == pc = "schedule" /\ at = i

\* The last segment was already requested.
LastSegmentRequested(i) ==
  /\ Scheduling(i)
  /\ last_segment_flag[i]
  /\ pc' = AfterSchedule(i)
  /\ UNCHANGED <<segVars, connVars, fileVars, conn_idle, link_mode,
                 inorder_offset, net, threadVars, at, failures>>

\* A link that is behind gets no more work in single-link mode.
StaysBehind(i) ==
  /\ Scheduling(i)
  /\ ~last_segment_flag[i]
  /\ Behind(i)
  /\ link_mode # DUAL_LINK_MODE
  /\ conn_idle' = [conn_idle EXCEPT ![i] = TRUE]
  /\ pc' = AfterSchedule(i)
  /\ UNCHANGED <<segVars, connVars, fileVars, link_mode, inorder_offset,
                 net, threadVars, at, failures>>

Proceeds(i) ==
  /\ Scheduling(i)
  /\ ~last_segment_flag[i]
  /\ ~(Behind(i) /\ link_mode # DUAL_LINK_MODE)

\* decide_recovery_mode up to the QoS estimate, if link i is the fast one.
ConsidersRecovery(i) ==
  LET j == Other(i)
  IN  /\ Proceeds(i)
      /\ RecoveryMode
      /\ Ahead(i) \/ (OneSegment /\ currentbyte[i] < currentbyte[j])
      /\ link_mode = DUAL_LINK_MODE
      /\ connection[j] # NULL
      /\ subsegment[connection[j]][j] # {}
      /\ ~(/\ segment[connection[i]].recovery_segment
           /\ segment[connection[j]].recovery_segment)

\* No recovery with f as the fast link: a segment may be added.
MayExtend(i, f) ==
  /\ Proceeds(i)
  /\ ~(ConsidersRecovery(i) /\ f = i /\ NoBottleneck(i, conn_idle))
  /\ ~(/\ Ahead(i)
       /\ MinimumEnergyMode
       /\ segment[segment_count].last = Size - 1)

\* Faulty: the end of the file is not looked at.
Clipped_Never(n) == n

\* gb_determine_next_segment_size: a remainder smaller than the initial
\* segment size joins the segment.
Clipped(n) == IF Size - 1 - (last_seg_offset + n) < InitSegSize
              THEN Size - 1 - last_seg_offset ELSE n
NextSizes ==
  {Clipped(n) : n \in IF ~FixedSegmentMode THEN InitSegSize .. Size
                      ELSE {IF UsingOneLink THEN InitSegSize \div 2
                            ELSE InitSegSize}}

\* gb_setup_next_segment returns 0 for lack of bytes to schedule.
NothingLeft(i) ==
  /\ Proceeds(i)
  /\ \/ /\ Ahead(i)
        /\ MinimumEnergyMode
        /\ segment[segment_count].last = Size - 1
        /\ UNCHANGED <<conn_idle, inorder_offset>>
        /\ pc' = AfterSchedule(i)
     \/ /\ \E f \in Conn : MayExtend(i, f)
        /\ 0 \in NextSizes
        /\ conn_idle' = ReestimatedIdle
        /\ Reestimated(subsegment)
        /\ pc' = IF AssertFails(subsegment) THEN "exited"
                 ELSE AfterSchedule(i)
  /\ UNCHANGED <<segVars, connVars, fileVars, link_mode, net, threadVars, at,
                 failures>>

\* add_new_segment and add_new_subsegment: segment t, made of the chunks
\* all, is divided as share.
AddsSegment(t, sub, share, recovery, reach) ==
  /\ segment_count' = t
  /\ subsegment' = [sub EXCEPT ![t] = share]
  /\ subseg_size' = [s \in SegId |-> [c \in Conn |->
                       IF s = t THEN Cardinality(Bytes(share[c]))
                       ELSE IF sub[s][c] = {} THEN 0 ELSE subseg_size[s][c]]]
  /\ last_seg_offset' = IF reach > last_seg_offset THEN reach
                        ELSE last_seg_offset
  /\ segment' = [s \in SegId |->
                   IF s = t THEN [recovery_segment |-> recovery,
                                  last |-> reach]
                   ELSE IF s <= completed_segment_count' THEN NoSegment
                   ELSE segment[s]]

\* checking_last_segment
NextEndsFile(c) ==
  /\ connection'[c] # NULL
  /\ NextSegments(subsegment', connection'[c], c) # {}
  /\ segment'[NextSegment(subsegment', connection'[c], c)].last = Size - 1

\* choose_link_mode decides again while bytes are left for later segments.
ChoosesLinkMode(n) == /\ MinimumEnergyMode
                      /\ completed_segment_count > 0
                      /\ last_seg_offset + n < Size - 1

\* A segment of n bytes is added behind the last one, divided as share and
\* requested on both links; an idle link starts on it at once
\* (return_downloading_for_idle_conn).
AddsAndRequests(i, n, share, mode) ==
  LET j == Other(i)
      t == segment_count + 1
      asked == Sent(net[j], share[j])
      joins == connection[j] = NULL /\ share[j] # {}
      starts == joins /\ HasHeader(asked)
  IN  /\ UNCHANGED completed_segment_count
      /\ AddsSegment(t, subsegment, share, FALSE, last_seg_offset + n)
      /\ link_mode' = mode
      /\ net' = [c \in Conn |-> IF c = i THEN Sent(net[i], share[i])
                                ELSE IF joins THEN HeaderRead(asked)
                                ELSE asked]
      /\ state' = [c \in Conn |-> IF share[c] = {} THEN state[c]
                                  ELSE IF c = j /\ starts THEN 0 ELSE 1]
      /\ pipeline_requests_sent' =
           [c \in Conn |-> /\ pipeline_requests_sent[c] \/ share[c] # {}
                           /\ ~(c = j /\ starts)]
      /\ enabled' = [enabled EXCEPT ![j] = @ \/ starts]
      /\ connection' = [connection EXCEPT ![j] = IF joins THEN t ELSE @]
      /\ currentbyte' = [currentbyte EXCEPT
           ![j] = IF joins THEN FirstChunk(share[j]).first ELSE @]
      /\ lastbyte' = [lastbyte EXCEPT
           ![j] = IF joins THEN FirstChunk(share[j]).last ELSE @]
      /\ last_segment_flag' =
           [c \in Conn |-> \/ last_segment_flag[c]
                           \/ c = j /\ joins /\ EndsFile(share[j])
                           \/ NextEndsFile(c)]
      /\ conn_idle' = [ReestimatedIdle EXCEPT ![j] = @ /\ ~starts]
      /\ Reestimated(subsegment)
      /\ pc' = IF AssertFails(subsegment) THEN "exited" ELSE AfterSchedule(i)
      /\ UNCHANGED <<fileVars, threadVars, at, failures>>

\* gb_determine_next_subsegment: in dual-link mode the front part goes to
\* the fast link, in a single-link mode everything to that link.
Division(all, front, cut) ==
  [c \in Conn |-> IF c = front THEN Below(all, cut) ELSE Above(all, cut)]

Modes(n) == IF ChoosesLinkMode(n) THEN LinkMode ELSE {link_mode}
Divisions(n, f, mode) ==
  LET first == last_seg_offset + 1
      all == {[first |-> first, last |-> last_seg_offset + n]}
  IN  IF mode = DUAL_LINK_MODE
      THEN {Division(all, f, cut) : cut \in first .. first + n}
      ELSE {Division(all, mode - 1, first + n)}

NewSegment(i) ==
  /\ Proceeds(i)
  /\ segment_count < MaxSegments
  /\ \E n \in NextSizes \ {0}, f \in Conn :
       /\ MayExtend(i, f)
       /\ \E mode \in Modes(n) : \E share \in Divisions(n, f, mode) :
            AddsAndRequests(i, n, share, mode)

\* perform_recovery and return_downloading_for_recovered_conn: the other
\* link is disconnected and loses its chunks; it reconnects for its part of
\* the chunks all, if there is any.
Redivides(i, all, share) ==
  LET j == Other(i)
      t == segment_count + 1
      without == [s \in SegId |-> [subsegment[s] EXCEPT ![j] = {}]]
      resumes == share[j] # {}
      h == FirstChunk(share[j])
      reach == CHOOSE b \in Bytes(all) : \A k \in all : k.last <= b
  IN  /\ DeletesHeads(without, Cardinality({s \in SegId : subsegment[s][j] # {}}))
      /\ AddsSegment(t, without, share, TRUE, reach)
      /\ net' = [c \in Conn |-> IF c = i THEN Sent(net[i], share[i])
                                ELSE IF resumes
                                THEN HeaderRead(Sent(Disconnected(net[j]), share[j]))
                                ELSE Disconnected(net[j])]
      /\ state' = [c \in Conn |-> IF share[c] = {} THEN state[c]
                                  ELSE IF c = j THEN 0 ELSE 1]
      /\ pipeline_requests_sent' =
           [c \in Conn |-> IF c = j THEN pipeline_requests_sent[j] /\ ~resumes
                           ELSE pipeline_requests_sent[c] \/ share[c] # {}]
      /\ enabled' = [enabled EXCEPT ![j] = resumes]
      /\ connection' = [connection EXCEPT ![j] = IF resumes THEN t ELSE NULL]
      /\ currentbyte' = [currentbyte EXCEPT ![j] = IF resumes THEN h.first ELSE 1]
      /\ lastbyte' = [lastbyte EXCEPT ![j] = IF resumes THEN h.last ELSE 0]
      /\ last_segment_flag' =
           [c \in Conn |-> \/ last_segment_flag[c]
                           \/ c = j /\ resumes /\ EndsFile(share[j])
                           \/ NextEndsFile(c)]
      /\ conn_idle' = ReestimatedIdle
      /\ Reestimated(without)
      /\ pc' = IF AssertFails(without) THEN "exited" ELSE AfterSchedule(i)
      /\ UNCHANGED <<fileVars, link_mode, threadVars, at, failures>>

\* recover_outorder_portion_and_next_segment: what the other link owes is
\* divided again together with the next bytes of the file; the fast link i
\* gets the front part.
RecoverySizes == IF FixedSegmentMode THEN {Clipped(InitSegSize)} ELSE NextSizes

Recover(i) ==
  /\ ConsidersRecovery(i)
  /\ ~NoBottleneck(i, conn_idle)
  /\ segment_count < MaxSegments
  /\ \E n \in RecoverySizes :
       LET all == Outstanding(Other(i)) \cup
                    (IF n = 0 THEN {}
                     ELSE {[first |-> last_seg_offset + 1,
                            last |-> last_seg_offset + n]})
       IN  \E cut \in Bytes(all) \cup {Size} :
             Redivides(i, all, Division(all, i, cut))

\* get_bn_chunk_info dereferences a NULL chunk.  decide_recovery_mode asks it
\* before the in-order offset is re-estimated, choose_link_mode after that.
Crash(i) ==
  /\ \/ ConsidersRecovery(i) /\ NoBottleneck(i, conn_idle)
     \/ /\ link_mode = DUAL_LINK_MODE
        /\ NoBottleneck(i, ReestimatedIdle)
        /\ ~AssertFails(subsegment)
        /\ \E n \in NextSizes \ {0}, f \in Conn :
             MayExtend(i, f) /\ ChoosesLinkMode(n)
  /\ pc' = "crashed"
  /\ UNCHANGED <<segVars, connVars, fileVars, conn_idle, link_mode,
                 inorder_offset, net, threadVars, at, failures>>

\* A new segment brings requests for a link whose socket is in status st.
Asks(i, st) ==
  \E n \in NextSizes \ {0}, f \in Conn :
    /\ MayExtend(i, f)
    /\ \E mode \in Modes(n) : \E share \in Divisions(n, f, mode), c \in Conn :
         share[c] # {} /\ net[c].fd = st

\* The process ends while it sends requests: a link that is closed cannot
\* be reopened, exit(1), or a connection the server has reset is written to,
\* SIGPIPE.
SendFails(i) ==
  /\ Proceeds(i)
  /\ \/ /\ failures < MaxFailures
        /\ failures' = failures + 1
        /\ \/ ConsidersRecovery(i) /\ ~NoBottleneck(i, conn_idle)
           \/ Asks(i, "closed")
     \/ /\ Asks(i, "gone")
        /\ UNCHANGED failures
  /\ pc' = "exited"
  /\ UNCHANGED <<segVars, connVars, fileVars, conn_idle, link_mode,
                 inorder_offset, net, threadVars, at>>

Schedule(i) ==
  \/ LastSegmentRequested(i)
  \/ StaysBehind(i)
  \/ NothingLeft(i)
  \/ NewSegment(i)
  \/ Recover(i)
  \/ Crash(i)
  \/ SendFails(i)
-----------------------------------------------------------------------------
(* The chunk of link i is complete.                                        *)

Finishing(i) == pc = "finish" /\ at = i

Remaining(i) == LET C == subsegment[connection[i]][i]
                IN  C \ {FirstChunk(C)}

\* finish_last_chunk_of_subseg: the subsegment has another chunk.
NextChunk(i) ==
  LET h == FirstChunk(Remaining(i))
      ok == HasHeader(net[i])
  IN  /\ Finishing(i)
      /\ Remaining(i) # {}
      /\ subsegment' = [subsegment EXCEPT ![connection[i]][i] = Remaining(i)]
      /\ currentbyte' = [currentbyte EXCEPT ![i] = h.first]
      /\ lastbyte' = [lastbyte EXCEPT ![i] = h.last]
      /\ enabled' = [enabled EXCEPT ![i] = ok]
      /\ state' = [state EXCEPT ![i] = IF ok THEN 0 ELSE @]
      /\ net' = [net EXCEPT ![i] = HeaderRead(@)]
      /\ pc' = "select"
      /\ UNCHANGED <<segment_count, completed_segment_count, segment,
                     subseg_size, connection, last_seg_offset,
                     pipeline_requests_sent, last_segment_flag, fileVars,
                     conn_idle, link_mode, inorder_offset, threadVars, at,
                     failures>>

\* delete_subsegment, and finished segments at the head of the list.
DropsSubsegment(i, sub) ==
  /\ subsegment' = sub
  /\ subseg_size' = [subseg_size EXCEPT ![connection[i]][i] = 0]
  /\ DeletesHeads(sub, num_segments)
  /\ segment' = [s \in SegId |-> IF s <= completed_segment_count'
                                 THEN NoSegment ELSE segment[s]]
  /\ UNCHANGED <<segment_count, last_seg_offset>>

\* The flag stays set while yet another subsegment was requested.
StillQueued_Always(sub, s, i) == TRUE
StillQueued_Never(sub, s, i) == FALSE
StillQueued(sub, s, i) == NextSegments(sub, s, i) # {}

\* finish_downloading_subseg: the link goes on with its next subsegment.
\* With the flag set and no such subsegment, a NULL segment is used.
NextSubsegment(i) ==
  LET sub == [subsegment EXCEPT ![connection[i]][i] = {}]
      s == NextSegment(sub, connection[i], i)
      h == FirstChunk(sub[s][i])
      ok == HasHeader(net[i])
  IN  /\ Finishing(i)
      /\ Remaining(i) = {}
      /\ pipeline_requests_sent[i]
      /\ net' = [net EXCEPT ![i] = HeaderRead(@)]
      /\ IF s = NULL
         THEN /\ pc' = "crashed"
              /\ UNCHANGED <<segVars, connVars>>
         ELSE /\ DropsSubsegment(i, sub)
              /\ connection' = [connection EXCEPT ![i] = s]
              /\ currentbyte' = [currentbyte EXCEPT ![i] = h.first]
              /\ lastbyte' = [lastbyte EXCEPT ![i] = h.last]
              /\ enabled' = [enabled EXCEPT ![i] = ok]
              /\ state' = [state EXCEPT ![i] = IF ok THEN 0 ELSE @]
              /\ last_segment_flag' = [last_segment_flag EXCEPT
                   ![i] = @ \/ EndsFile(sub[s][i])]
              /\ pipeline_requests_sent' = [pipeline_requests_sent EXCEPT
                   ![i] = StillQueued(sub, s, i)]
              /\ pc' = "account"
      /\ UNCHANGED <<fileVars, conn_idle, link_mode, inorder_offset, threadVars,
                     at, failures>>

\* finish_downloading_subseg: nothing was requested for later; the link is
\* closed when no more work can come for it.
GoesIdle(i) ==
  LET sub == [subsegment EXCEPT ![connection[i]][i] = {}]
      closes == \/ \E c \in Conn : lastbyte[c] = Size - 1
                \/ link_mode # DUAL_LINK_MODE /\ i = INDEX_LTE
  IN  /\ Finishing(i)
      /\ Remaining(i) = {}
      /\ ~pipeline_requests_sent[i]
      /\ DropsSubsegment(i, sub)
      /\ connection' = [connection EXCEPT ![i] = NULL]
      /\ enabled' = [enabled EXCEPT ![i] = FALSE]
      /\ net' = [net EXCEPT ![i] = IF closes THEN Disconnected(@) ELSE @]
      /\ pc' = "account"
      /\ UNCHANGED <<currentbyte, lastbyte, state, pipeline_requests_sent,
                     last_segment_flag, fileVars, conn_idle, link_mode,
                     inorder_offset, threadVars, at, failures>>

Finish(i) == NextChunk(i) \/ NextSubsegment(i) \/ GoesIdle(i)

\* update_inorder_offset, with its assertion that the offset never shrinks.
Account ==
  /\ pc = "account"
  /\ inorder_offset' = FoundInorder(subsegment)
  /\ conn_idle' = Idle
  /\ pc' = IF inorder_offset <= FoundInorder(subsegment) THEN "select"
           ELSE "exited"
  /\ UNCHANGED <<segVars, connVars, fileVars, link_mode, net, threadVars, at,
                 failures>>
-----------------------------------------------------------------------------
(* check_conn, the end of a turn of the main loop, and the set-up threads. *)

\* Faulty: a link that is left in state 1 stays there.
CheckConn_Once(c) ==
  /\ pc = "select"
  /\ ~enabled[c]
  /\ currentbyte[c] < lastbyte[c]
  /\ thread[c] = "none"
  /\ state[c] = 0
  /\ state' = [state EXCEPT ![c] = 1]
  /\ thread' = [thread EXCEPT ![c] = "setup"]
  /\ UNCHANGED <<segVars, currentbyte, lastbyte, enabled,
                 pipeline_requests_sent, last_segment_flag, fileVars,
                 conn_idle, link_mode, inorder_offset, net, range, pc, at,
                 failures>>

\* An aborted link gets a set-up thread once the previous one is joined; a
\* link left in state 1 is first put back to 0, after reconnect_delay.
CheckConn(c) ==
  /\ pc = "select"
  /\ ~enabled[c]
  /\ currentbyte[c] < lastbyte[c]
  /\ thread[c] = "none"
  /\ state' = [state EXCEPT ![c] = 1 - @]
  /\ thread' = [thread EXCEPT ![c] = IF state[c] = 0 THEN "setup" ELSE "none"]
  /\ UNCHANGED <<segVars, currentbyte, lastbyte, enabled,
                 pipeline_requests_sent, last_segment_flag, fileVars,
                 conn_idle, link_mode, inorder_offset, net, range, pc, at,
                 failures>>

\* gb->ready = -1: select fails, or the write of what was read from a link, or
\* check_conn cannot create a thread.  The loop ends with that turn, and what
\* is left of the turn is not followed.
EngineFails ==
  /\ pc = "select"
  /\ failures < MaxFailures
  /\ failures' = failures + 1
  /\ \E c \in Conn :
       \/ net[c].fd \in {"open", "gone"}
       \/ ~enabled[c] /\ currentbyte[c] < lastbyte[c] /\ thread[c] = "none"
  /\ pc' = "failed"
  /\ UNCHANGED <<segVars, connVars, fileVars, conn_idle, link_mode,
                 inorder_offset, net, threadVars, at>>

\* Faulty: the in-order offset decides, which may stand at a byte not stored.
Ready_Inorder ==
  /\ pc = "select"
  /\ inorder_offset >= Size - 1
  /\ pc' = "done"
  /\ UNCHANGED <<segVars, connVars, fileVars, conn_idle, link_mode,
                 inorder_offset, net, threadVars, at, failures>>

Ready ==
  /\ pc = "select"
  /\ bytes_done = Size
  /\ pc' = "done"
  /\ UNCHANGED <<segVars, connVars, fileVars, conn_idle, link_mode,
                 inorder_offset, net, threadVars, at, failures>>

Stopped == pc \in {"done", "failed", "crashed", "exited"}

\* setup_thread.  Its steps, between which the main loop may schedule, recover
\* or reconnect the same link: conn_setup connects a link without a socket and
\* builds the request from the link's position; conn_exec sends the request,
\* then reads the header.  A range that is no range is answered with data
\* nobody reads.
RequestRange(c) == IF Done(c) THEN [first |-> 0, last |-> Size - 1]
            ELSE [first |-> currentbyte[c], last |-> lastbyte[c]]

ConnSetup(c) ==
  /\ thread[c] = "setup"
  /\ net' = [net EXCEPT ![c] = IF @.fd \in {"closed", "unset"} THEN Open ELSE @]
  /\ range' = [range EXCEPT ![c] = RequestRange(c)]
  /\ thread' = [thread EXCEPT ![c] = "send"]
  /\ UNCHANGED <<enabled, state, failures, pc>>

\* The text of a request is kept in http->request, where the main loop puts
\* its own requests to the link, chunk by chunk of a subsegment.
RequestText(c) ==
  LET q == net[c].requests
  IN  {range[c]} \cup IF q = <<>> THEN {} ELSE q[Len(q)]

\* A write to a socket that the server closed and the link did not: SIGPIPE.
SendsRequest(c) ==
  /\ thread[c] = "send"
  /\ IF net[c].fd = "gone"
     THEN /\ pc' = "exited"
          /\ UNCHANGED <<net, thread>>
     ELSE /\ \E k \in RequestText(c) :
               net' = [net EXCEPT ![c] = Requested(@, {k})]
          /\ thread' = [thread EXCEPT ![c] = "header"]
          /\ UNCHANGED pc
  /\ range' = [range EXCEPT ![c] = NoRange]
  /\ UNCHANGED <<enabled, state, failures>>

\* Without a header to read, the thread reads until the connection is gone.
ReadsHeader(c) ==
  /\ thread[c] = "header"
  /\ net' = [net EXCEPT ![c] = IF HasHeader(@) THEN HeaderRead(@)
                               ELSE Disconnected(@)]
  /\ enabled' = [enabled EXCEPT ![c] = @ \/ HasHeader(net[c])]
  /\ thread' = [thread EXCEPT ![c] = "none"]
  /\ state' = [state EXCEPT ![c] = 0]
  /\ UNCHANGED <<range, failures, pc>>

\* The connection is refused, or the reply, or it is lost before the reply:
\* the link is closed again.
SetupFails(c) ==
  /\ \/ thread[c] = "setup" /\ net[c].fd \in {"closed", "unset"}
     \/ thread[c] = "header"
  /\ failures < MaxFailures
  /\ failures' = failures + 1
  /\ net' = [net EXCEPT ![c] = Disconnected(@)]
  /\ thread' = [thread EXCEPT ![c] = "none"]
  /\ state' = [state EXCEPT ![c] = 0]
  /\ UNCHANGED <<range, enabled, pc>>

SetupThread(c) ==
  /\ ~Stopped
  /\ ConnSetup(c) \/ SendsRequest(c) \/ ReadsHeader(c) \/ SetupFails(c)
  /\ UNCHANGED <<segVars, currentbyte, lastbyte, pipeline_requests_sent,
                 last_segment_flag, fileVars, conn_idle, link_mode,
                 inorder_offset, at>>

\* The server, or the network, ends a connection.
ServerCloses(c) ==
  /\ ~Stopped
  /\ net[c].fd = "open"
  /\ failures < MaxFailures
  /\ failures' = failures + 1
  /\ net' = [net EXCEPT ![c] = Gone]
  /\ UNCHANGED <<segVars, connVars, fileVars, conn_idle, link_mode,
                 inorder_offset, threadVars, pc, at>>

Terminated == Stopped /\ UNCHANGED vars

MainLoop ==
  \/ \E i \in Conn : \/ \E n \in 1 .. BufferSize : Receive(i, n)
                     \/ ReadFails(i)
                     \/ Schedule(i)
                     \/ Finish(i)
                     \/ CheckConn(i)
  \/ Account
  \/ Ready

Threads == \E c \in Conn : SetupThread(c)

Next ==
  \/ MainLoop
  \/ EngineFails
  \/ Threads
  \/ \E c \in Conn : ServerCloses(c)
  \/ Terminated

Spec == Init /\ [][Next]_vars

\* The main loop is a loop without waiting for anything but data, which the
\* server keeps sending; a set-up thread runs until it ends.
FairSpec == Spec /\ WF_vars(MainLoop) /\ \A c \in Conn : WF_vars(SetupThread(c))
-----------------------------------------------------------------------------
(* Properties                                                              *)

Socketed == [fd : {"closed", "unset", "open", "gone"},
             requests : Seq((SUBSET Chunk) \ {{}}),
             response : [first : 0 .. Size, last : -1 .. Size - 1]]

\* The types of the engine's state.
TypeOK ==
  /\ segment_count \in SegId
  /\ completed_segment_count \in 0 .. segment_count
  /\ segment \in [SegId -> [recovery_segment : BOOLEAN, last : -1 .. Size - 1]]
  /\ subsegment \in [SegId -> [Conn -> SUBSET Chunk]]
  /\ subseg_size \in [SegId -> [Conn -> Nat]]
  /\ connection \in [Conn -> SegId \cup {NULL}]
  /\ last_seg_offset \in Byte
  /\ conn_idle \in [Conn -> BOOLEAN]
  /\ link_mode \in LinkMode
  /\ inorder_offset \in 0 .. Size
  /\ bytes_done \in Nat
  /\ currentbyte \in [Conn -> 0 .. Size]
  /\ lastbyte \in [Conn -> 0 .. Size - 1]
  /\ enabled \in [Conn -> BOOLEAN]
  /\ state \in [Conn -> {0, 1}]
  /\ pipeline_requests_sent \in [Conn -> BOOLEAN]
  /\ last_segment_flag \in [Conn -> BOOLEAN]
  /\ disk \in [Byte -> Byte \cup {NoByte, Junk}]
  /\ net \in [Conn -> Socketed]
  /\ thread \in [Conn -> {"none", "setup", "send", "header"}]
  /\ range \in [Conn -> Chunk]
  /\ pc \in {"select", "schedule", "finish", "account",
             "done", "failed", "crashed", "exited"}
  /\ at \in Conn
  /\ failures \in 0 .. MaxFailures

\* The bytes in the output file, and those link c still has to deliver.
Stored == {b \in Byte : disk[b] # NoByte}
Owed(c) == {b \in Byte : \E s \in SegId : \E k \in subsegment[s][c] :
              /\ b \in k.first .. k.last
              /\ ~(s = connection[c] /\ b < currentbyte[c])}

\* Every byte of the file is stored, or owed by one link in one chunk, or
\* not yet part of a segment: splitting, finishing and recovering chunks
\* neither lose a byte nor ask for one twice.
Covered == \A b \in Byte : (b \in Stored) <=> /\ b <= last_seg_offset
                                             /\ \A c \in Conn : b \notin Owed(c)
Apart(k, m) == k.last < m.first \/ m.last < k.first
Disjoint ==
  \A s, t \in SegId, c, d \in Conn :
    \A k \in subsegment[s][c], m \in subsegment[t][d] :
      <<s, c, k>> = <<t, d, m>> \/ Apart(k, m)
EachByteOnce == Covered /\ Disjoint

\* Why it holds.  Chunks lie in the segments made so far; a link with a
\* segment is inside the first chunk of that segment's subsegment, and has
\* chunks in later segments only while the flag is set that
\* finish_downloading_subseg goes by; a link is behind its chunk's last byte
\* only while its own handler runs.
Placed == \A s \in SegId, c \in Conn : \A k \in subsegment[s][c] :
            s <= segment_count /\ k.last <= last_seg_offset
AtItsChunk(c) ==
  IF connection[c] = NULL
  THEN /\ currentbyte[c] = lastbyte[c] + 1
       /\ \A s \in SegId : subsegment[s][c] = {}
  ELSE /\ \A s \in SegId : s < connection[c] => subsegment[s][c] = {}
       /\ subsegment[connection[c]][c] # {}
       /\ LET h == FirstChunk(subsegment[connection[c]][c])
          IN  /\ lastbyte[c] = h.last
              /\ currentbyte[c] \in h.first .. h.last + 1
Positioned == \A c \in Conn : AtItsChunk(c)
Flagged ==
  \A c \in Conn :
    connection[c] # NULL /\ ~pipeline_requests_sent[c] =>
      NextSegments(subsegment, connection[c], c) = {}
Handled ==
  /\ pc \in {"schedule", "finish"} => connection[at] # NULL
  /\ pc = "finish" => Done(at)
  /\ \A c \in Conn : connection[c] # NULL /\ Done(c) =>
       Stopped \/ (at = c /\ pc \in {"schedule", "finish"})
Bookkeeping == /\ TypeOK
               /\ EachByteOnce
               /\ Placed
               /\ Positioned
               /\ Flagged
               /\ Handled

\* bytes_done, which decides when the download is complete, counts the bytes
\* in the file.
BytesDoneCounts == bytes_done = Cardinality(Stored)

\* A byte of the file is only ever written at its own offset.
DataAtItsOffset == \A b \in Byte : disk[b] \in {NoByte, b}

\* The chunks of each segment that link c has to ask for and does not receive
\* yet, and the segments of which there are any.
Batches(c) ==
  [s \in SegId |->
     IF s = connection[c] THEN subsegment[s][c] \ {FirstChunk(subsegment[s][c])}
                          ELSE subsegment[s][c]]
Awaited(c) == {s \in SegId : s >= connection[c] /\ Batches(c)[s] # {}}

\* The queue q holds the batches B of the segments S, in the order of these.
Lists(q, S, B) ==
  /\ {q[n] : n \in DOMAIN q} = {B[s] : s \in S}
  /\ \A m, n \in DOMAIN q, s, t \in S :
       m < n /\ q[m] = B[s] /\ q[n] = B[t] => s < t

\* What is in flight on a link, in order, is exactly what the link's chunk
\* lists expect: the rest of the chunk being received, the other chunks of its
\* subsegment, then one batch for each later subsegment.  Batches differ, since
\* no byte is in two chunks, so that there is only one such queue.
InFlightMatches ==
  pc = "select" =>
    \A c \in Conn : connection[c] # NULL =>
      /\ Lists(net[c].requests, Awaited(c), Batches(c))
      /\ net[c].response = [first |-> currentbyte[c], last |-> lastbyte[c]]

\* pipeline_requests_sent of a busy link is set exactly when a later
\* subsegment of it is queued; finish_downloading_subseg relies on it, both
\* to go on and to let the link go idle.
PipelineFlagMeansQueued ==
  pc = "select" =>
    \A c \in Conn : connection[c] # NULL =>
      (pipeline_requests_sent[c] <=>
         NextSegments(subsegment, connection[c], c) # {})

\* No byte is scheduled on a link that is not going to ask for it.
NothingStranded ==
  pc = "select" =>
    \A c \in Conn : Owed(c) # {} => net[c].fd = "open" /\ enabled[c]

\* Every byte before the in-order offset, which the player's proxy may
\* already serve, is stored.
InorderIsStored == \A b \in Byte : b < inorder_offset => b \in Stored

\* gb->ready = 1 only for a complete file.
ReadyIsComplete == pc = "done" => \A b \in Byte : disk[b] = b

\* get_bn_chunk_info always finds a chunk, and finish_downloading_subseg a
\* next segment: no NULL pointer is dereferenced.
NeverCrashes == pc # "crashed"

\* The assertion of update_inorder_offset holds: the offset never shrinks.
AssertionsHold == pc # "exited"

\* The download completes.
Completes == <>(pc = "done")

\* Whatever links, segments and recovery do, the engine comes to an end.
Ends == <>Stopped

\* check_conn restarts an aborted connection that has two bytes or more left
\* of its chunk, unless recovery hands its bytes to the other link first:
\* however the abort, the reconnect delay, the steps of the set-up thread and
\* what the main loop does to the same link meanwhile fall together.
Interrupted(c) == pc = "select" /\ ~enabled[c] /\ currentbyte[c] < lastbyte[c]
InterruptedIsRestarted ==
  \A c \in Conn :
    Interrupted(c) ~> (enabled[c] \/ connection[c] = NULL \/ Stopped)

\* check_conn restarts an aborted connection that still has bytes to fetch.
Aborted(c) == /\ pc = "select"
              /\ connection[c] # NULL
              /\ ~enabled[c]
              /\ ~Done(c)
AbortedIsRestarted == \A c \in Conn : Aborted(c) ~> (enabled[c] \/ Stopped)

\* What the engine promises as a ledger of bytes.
Ledger == INSTANCE Download WITH
  stored <- Stored,
  owed <- [c \in Conn |-> Owed(c)],
  frontier <- last_seg_offset + 1
ImplementsDownload == Ledger!Spec
=============================================================================
