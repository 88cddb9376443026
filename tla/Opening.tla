------------------------------- MODULE Opening -------------------------------
(***************************************************************************)
(* The opening of a download: what gb_process (gbsession.c) does before    *)
(* its main loop.  The configuration is read (conf.c, parse_args), gb_new  *)
(* asks the server for the size of the file, following redirections        *)
(* (conn.c, http.c), gb_open schedules the first segment, and gb_start     *)
(* creates a set-up thread for each link.  The engine (module GreenBag)    *)
(* starts from what is reached here.                                       *)
(*                                                                         *)
(* One thread takes these steps, but the network, the server, the disk and *)
(* the system can fail each of them.  By which name and path the file is   *)
(* asked for is left out; so are the headers that are not looked at.       *)
(***************************************************************************)
EXTENDS Integers, FiniteSets

CONSTANTS
  Files,         \* sizes of the file on the server
  Options,       \* what the configuration files and the arguments may say
  KB,            \* 1024
  DEFAULT_SEGMENT,  \* conf->fixed_segment_size_KB, 10240 by default
  MAX_REDIR,     \* exchanges with the server at most
  INT_MAX        \* the size of a file whose size is not known

NotSet == -1
Conn == {0, 1}

\* num_connections and the options -i, -S, -1 and -2.
Option == [n : {1, 2, 3}, i : Nat \cup {NotSet}, S : Nat \cup {NotSet},
           rate : [Conn -> Nat]]

ASSUME FilesAssumption == Files \subseteq Nat \ {0}
ASSUME OptionsAssumption == Options \subseteq Option
ASSUME KBAssumption == KB \in Nat \ {0, 1}
ASSUME SegmentAssumption == DEFAULT_SEGMENT \in Nat \ {0}
ASSUME RedirAssumption == MAX_REDIR \in Nat \ {0}
ASSUME UnknownAssumption == INT_MAX \in Nat /\ \A f \in Files : INT_MAX > f

VARIABLES
  at,            \* how far gb_process is
  options,       \* what this run was told
  file_size,     \* the file on the server
  num_connections, num_of_segments, segment_size,   \* gb->conf
  fd, status,    \* the connection of conn_info, and the last status code
  redirects,     \* redirections followed
  supported, size,
  init_seg_size, currentbyte, lastbyte,
  gb,            \* what the global gb points to
  threads,       \* the links whose set-up thread was created
  state, ready

confVars == <<num_connections, num_of_segments, segment_size>>
infoVars == <<fd, status, redirects, supported, size>>
segVars == <<init_seg_size, currentbyte, lastbyte>>
startVars == <<threads, state>>
vars == <<at, options, file_size, confVars, infoVars, segVars, gb, startVars,
          ready>>

\* The values of conf_init.
Init ==
  /\ at = "conf"
  /\ options \in Options
  /\ file_size \in Files
  /\ num_connections = 2 /\ num_of_segments = 0
  /\ segment_size = DEFAULT_SEGMENT * KB
  /\ fd = "closed" /\ status = 0 /\ redirects = 0
  /\ supported = FALSE /\ size = 0
  /\ init_seg_size = 0
  /\ currentbyte = [c \in Conn |-> 0] /\ lastbyte = [c \in Conn |-> 0]
  /\ gb = "NULL"
  /\ threads = {} /\ state = [c \in Conn |-> 0]
  /\ ready = 0

Goes(place) == at' = place /\ UNCHANGED <<options, file_size>>
-----------------------------------------------------------------------------
(* The configuration                                                       *)

\* conf_init: a line of gbrc that is not understood ends gb_process.
conf_init ==
  /\ at = "conf"
  /\ Goes("args") \/ Goes("returned")
  /\ UNCHANGED <<confVars, infoVars, segVars, gb, startVars, ready>>

\* parse_args: so does an option that is not a number.  A number of segments
\* is ignored when a segment size is given as well.
parse_args ==
  /\ at = "args"
  /\ \/ /\ Goes("new")
        /\ num_connections' = options.n
        /\ num_of_segments' = IF options.i = NotSet \/ options.S # NotSet
                              THEN 0 ELSE options.i
        /\ segment_size' = IF options.S = NotSet THEN segment_size
                           ELSE options.S * KB
     \/ Goes("returned") /\ UNCHANGED confVars
  /\ UNCHANGED <<infoVars, segVars, gb, startVars, ready>>
-----------------------------------------------------------------------------
(* gb_new                                                                  *)

\* The gb_t is allocated and the URL parsed, by conn_set; http_connect then
\* opens the first connection.
gb_new ==
  /\ at = "new"
  /\ gb' = "live"
  /\ \/ Goes("unparsed") /\ ready' = -1 /\ UNCHANGED fd
     \/ Goes("failed") /\ ready' = -1 /\ UNCHANGED fd
     \/ Goes("info") /\ fd' = "open" /\ UNCHANGED ready
  /\ UNCHANGED <<confVars, status, redirects, supported, size, segVars,
                 startVars>>

Fails == Goes("failed") /\ ready' = -1

\* What the server may answer to a request for all bytes from byte 1 on: the
\* part, which a file of one byte does not have; the whole file, when it
\* ignores the range; another location; an error; nothing at all.
NoLength == -2
Reply == [status : {206}, length : IF file_size > 1
                                   THEN {file_size - 1, NoLength} ELSE {},
          location : {FALSE}]
   \cup [status : {200}, length : {file_size, NoLength}, location : {FALSE}]
   \cup [status : {302}, length : {NoLength}, location : BOOLEAN]
   \cup [status : {404, 416}, length : {NoLength}, location : {FALSE}]
   \cup [status : {status}, length : {NoLength}, location : {FALSE}] \* gone

\* Faulty: one redirection too many is followed.
MoreRedirects_OneMore(i) == i <= MAX_REDIR
MoreRedirects(i) == i < MAX_REDIR

\* Faulty: redirections are not counted.
Counted_Not(i) == i
Counted(i) == i + 1

\* Faulty: the byte before the first that was asked for is left out.
WholeSize_Part(length) == length
\* The request began with byte 1.
WholeSize(length) == length + 1

\* A turn of conn_info begins: the connection is made if there is none, and
\* the request is written.
conn_setup ==
  /\ at = "info"
  /\ \/ fd' = "open" /\ Goes("exec") /\ UNCHANGED ready
     \/ fd = "closed" /\ Fails /\ UNCHANGED fd
  /\ UNCHANGED <<confVars, status, redirects, supported, size, segVars, gb,
                 startVars>>

\* A reply 3xx: its location is asked next.
Redirected(r) ==
  /\ r.status \div 100 = 3
  /\ \/ /\ r.location
        /\ redirects' = Counted(redirects)
        /\ IF MoreRedirects(Counted(redirects))
           THEN Goes("info") /\ UNCHANGED ready
           ELSE Fails
     \/ ~r.location /\ Fails /\ UNCHANGED redirects
  /\ UNCHANGED <<supported, size>>

\* Any other reply: the size of the file, known if the server sends a part.
Answered(r) ==
  /\ r.status \div 100 # 3
  /\ \/ /\ r.status = 206 /\ r.length >= 0
        /\ supported' = TRUE /\ size' = WholeSize(r.length)
        /\ Goes("open") /\ UNCHANGED ready
     \/ /\ r.status = 200 \/ (r.status = 206 /\ r.length < 0)
        /\ supported' = FALSE /\ size' = INT_MAX
        /\ Goes("open") /\ UNCHANGED ready
     \/ /\ r.status \notin {200, 206}
        /\ Fails
        /\ UNCHANGED <<supported, size>>
  /\ UNCHANGED redirects

\* The rest of the turn: the headers are read and the connection is closed.
\* If the server closed it before, the status code is that of the answer
\* before, but no header is found.
conn_exec ==
  /\ at = "exec"
  /\ fd' = "closed"
  /\ \E r \in Reply : status' = r.status /\ (Redirected(r) \/ Answered(r))
  /\ UNCHANGED <<confVars, segVars, gb, startVars>>

\* gb_process after gb_new: an assertion, then gb_close, which frees the
\* local_if of link 0.  Once the URL was parsed that is no allocated block but
\* the middle of an interface record, and free() ends the process.
AfterNew ==
  /\ \/ at \in {"unparsed", "failed", "open"} /\ num_connections > 2 /\ Goes("killed")
        /\ UNCHANGED gb
     \/ at = "failed" /\ num_connections <= 2 /\ Goes("killed") /\ UNCHANGED gb
     \/ at = "unparsed" /\ num_connections <= 2 /\ Goes("returned") /\ gb' = "freed"
  /\ UNCHANGED <<confVars, infoVars, segVars, startVars, ready>>
-----------------------------------------------------------------------------
(* gb_open                                                                 *)

Least(m, n) == IF m <= n THEN m ELSE n

\* Faulty: a segment may be longer than the file.
FirstSize_NoMin(n) == IF n = 0 THEN IF segment_size = 0 THEN size ELSE segment_size
                      ELSE size \div n
\* gb_init_segment_setup: the size of the first segment, when n segments are
\* asked for, or any number (n = 0).
FirstSize(n) == IF n = 0
                THEN IF segment_size = 0 THEN size ELSE Least(size, segment_size)
                ELSE size \div n

\* The number of segments that it leaves in gb->conf.
SegmentCount(n) == IF n = 0
                   THEN size \div segment_size +
                        IF size % segment_size = 0 THEN 0 ELSE 1
                   ELSE n

\* A remainder by zero ends the process, and so does a segment of no byte
\* (add_new_subsegment).
SetupFails(n) == \/ n = 0 /\ segment_size = 0
                 \/ FirstSize(n) = 0
                 \/ options.rate[0] + options.rate[1] = 0

\* add_new_subsegment: the share of link 0, by the initial rates.  The fast
\* link has its share in front; with one element in gb->conn, the speed of the
\* other is whatever follows it in memory.
Share(n) == (n * options.rate[0]) \div (options.rate[0] + options.rate[1])
FastLink == IF num_connections' = 2 THEN {0} ELSE Conn

\* The range of a link: the fast link is in front, and a link without a share
\* is parked behind the file.
SizeOf(c, n) == IF c = 0 THEN Share(n) ELSE n - Share(n)
First(c, n, fast) == IF c = fast THEN 0 ELSE SizeOf(fast, n)
FirstByte(c, n, fast) == IF SizeOf(c, n) = 0 THEN size ELSE First(c, n, fast)
LastByte(c, n, fast) == IF SizeOf(c, n) = 0 THEN size + 1
                        ELSE First(c, n, fast) + SizeOf(c, n) - 1

\* If the server does not support ranges the set-up is done twice; the second
\* time it finds a number of segments.
Opens(n, fast) ==
  /\ init_seg_size' = FirstSize(n)
  /\ currentbyte' = [c \in Conn |-> IF c < num_connections'
                                    THEN FirstByte(c, FirstSize(n), fast) ELSE 0]
  /\ lastbyte' = [c \in Conn |-> IF c < num_connections'
                                 THEN LastByte(c, FirstSize(n), fast) ELSE 0]

gb_open ==
  LET n == num_of_segments
  IN  /\ at = "open"
      /\ num_connections <= 2
      /\ num_connections' = IF supported THEN num_connections ELSE 1
      /\ UNCHANGED segment_size
      /\ \/ /\ SetupFails(n)
            /\ Goes("killed")
            /\ UNCHANGED <<num_of_segments, segVars>>
         \/ /\ ~SetupFails(n)
            /\ num_of_segments' = SegmentCount(n)
            /\ \E fast \in FastLink :
                 Opens(IF supported THEN n ELSE SegmentCount(n), fast)
            /\ Goes("start") \/ Goes("killed")    \* the file cannot be opened
      /\ UNCHANGED <<infoVars, gb, startVars, ready>>
-----------------------------------------------------------------------------
(* gb_start                                                                *)

\* Links with a range, though it may be the meaningless one of a link without
\* a share.
HasRange(c) == currentbyte[c] <= lastbyte[c]
Links == {c \in Conn : c < num_connections /\ HasRange(c)}

\* A thread that cannot be created sets ready to -1, and the end of gb_start
\* sets it to 0 again.
gb_start ==
  /\ at = "start"
  /\ threads' \in SUBSET Links
  /\ state' = [c \in Conn |-> IF c \in Links THEN 1 ELSE state[c]]
  /\ ready' = 0
  /\ Goes("loop")
  /\ UNCHANGED <<confVars, infoVars, segVars, gb>>

gb_process ==
  \/ conf_init \/ parse_args \/ gb_new \/ conn_setup \/ conn_exec
  \/ AfterNew \/ gb_open \/ gb_start

\* The engine has taken over, gb_process has returned, or the process is gone.
Over == at \in {"loop", "returned", "killed"}
Rests == Over /\ UNCHANGED vars

Next == gb_process \/ Rests

\* The thread runs, and the server answers or closes the connection: the code
\* reads the headers without a timeout.
FairSpec == Init /\ [][Next]_vars /\ WF_vars(gb_process)
-----------------------------------------------------------------------------
TypeOK ==
  /\ at \in {"conf", "args", "new", "unparsed", "info", "exec", "failed", "open",
             "start", "loop", "returned", "killed"}
  /\ options \in Options /\ file_size \in Files
  /\ num_connections \in 1 .. 3
  /\ num_of_segments \in Nat /\ segment_size \in Nat \ {1}
  /\ fd \in {"open", "closed"} /\ status \in {0, 200, 206, 302, 404, 416}
  /\ redirects \in 0 .. MAX_REDIR
  /\ supported \in BOOLEAN /\ size \in 0 .. INT_MAX
  /\ init_seg_size \in 0 .. INT_MAX
  /\ currentbyte \in [Conn -> 0 .. INT_MAX]
  /\ lastbyte \in [Conn -> 0 .. INT_MAX + 1]
  /\ gb \in {"NULL", "live", "freed"}
  /\ threads \subseteq Conn
  /\ state \in [Conn -> {0, 1}]
  /\ ready \in {-1, 0}

\* The engine downloads as many bytes as the file has, when the server can
\* say: a request for part of the file answers for all of it.  Otherwise it is
\* left with one link and the largest size there is.
SizeIsTrue ==
  at = "loop" => IF supported THEN size = file_size
                 ELSE size = INT_MAX /\ num_connections = 1

Range(c) == currentbyte[c] .. lastbyte[c]

\* What the engine starts from with two links: they share the first segment,
\* which does not go beyond the file, and a link without a share asks for
\* bytes behind it.  With equal rates and no more segments than every other
\* byte, both have a share, as module GreenBag assumes.
EngineCanStart ==
  at = "loop" /\ num_connections = 2 =>
    LET served == {c \in Conn : currentbyte[c] < size}
    IN  /\ init_seg_size \in 1 .. size
        /\ UNION {Range(c) : c \in served} = 0 .. init_seg_size - 1
        /\ served = Conn => Range(0) \cap Range(1) = {}
        /\ options.rate[0] = options.rate[1] /\ 2 * num_of_segments <= size =>
             served = Conn /\ init_seg_size >= 2

\* Whatever the server answers, the opening comes to an end.
OpeningEnds == <>Over

\* A failed start is an error: ready is -1 when the main loop tests it.
FailedStartIsError ==
  at = "loop" /\ threads # Links => ready = -1
=============================================================================
