------------------------------- MODULE Session -------------------------------
(***************************************************************************)
(* A streaming session: the player's request, served by a thread of the    *)
(* proxy (ahttpd.c), the thread that runs the download for it              *)
(* (gb_process, gbsession.c), and a periodic thread (periodic_tasks.c).    *)
(* They share the global pointer gb and the buffer file on disk.           *)
(*                                                                         *)
(* The download engine is what module GreenBag shows it to be: it stores   *)
(* bytes in any order, every byte before the in-order offset is stored,    *)
(* and gb->ready = 1 once all are; after an error it may also stall.  The  *)
(* player asks for one file, and asks again after it was answered.  Since  *)
(* gb_process reads the global gb afresh at every step, two downloads that *)
(* overlap work on the same gb.                                            *)
(***************************************************************************)
EXTENDS Integers, Sequences

CONSTANTS
  Size,             \* gb->size
  SendSize,         \* BUF_FILE_BUF_SIZE
  PeriodicThreads,  \* config.h enables a thread that join_periodic_tasks joins
  PatientPlayer,    \* environment: the player does not ask again while the
                    \* download of its last request has not opened its file
  MaxRequests,      \* bound: requests of the player
  MaxTimeouts,      \* bound: requests that wait TIMEOUT_WAIT_COUNT in vain
  MaxErrors         \* bound: failures of the download

ASSUME SizeAssumption == Size \in Nat \ {0, 1}
ASSUME SendAssumption == SendSize \in Nat \ {0}
ASSUME ThreadsAssumption == PeriodicThreads \in BOOLEAN
ASSUME PlayerAssumption == PatientPlayer \in BOOLEAN
ASSUME BoundAssumption == /\ MaxRequests \in Nat \ {0}
                          /\ MaxTimeouts \in Nat
                          /\ MaxErrors \in Nat

Request == 1 .. MaxRequests
NULL == 0
Byte == 0 .. Size - 1
Hole == -1            \* what a reader finds where no byte was stored

VARIABLES
  handler,     \* accept_request and send_remote_file, one for each request
  sent,        \* first_not_sent_byte of each request
  played,      \* the bytes each player got
  source,      \* the file each handler has open
  engine,      \* gb_process, one for each request that started it
  logger,      \* log_goodput, likewise
  log_goodput_tid,  \* the last periodic thread that was started
  gb,          \* the global pointer: the session it points to, or NULL
  session,     \* the gb_t of each session, allocated or not
  file,        \* the file with the name of the buffer file, or NULL
  content,     \* the bytes stored in each file
  crashed, timeouts, errors

vars == <<handler, sent, played, source, engine, logger, log_goodput_tid, gb,
          session, file, content, crashed, timeouts, errors>>
playVars == <<sent, played, source>>
diskVars == <<file, content>>
downloadVars == <<engine, logger, log_goodput_tid, gb, session>>
countVars == <<crashed, timeouts, errors>>

\* gb_new: memory is zeroed, and gb->run = 1 set last.
Unallocated == [memory |-> "none", ready |-> 0, run |-> FALSE,
                finish |-> FALSE, stalled |-> FALSE, outfd |-> NULL,
                inorder_offset |-> 0, last_downloaded_byte |-> 0]
Fresh == [Unallocated EXCEPT !.memory = "live", !.run = TRUE]
\* gb_new does not parse the URL; gb_close frees what it allocated.
Unparsed == [Unallocated EXCEPT !.memory = "freed", !.ready = -1]

\* A thread that follows gb may fault unless the session is live.  Memory
\* that was freed, but not reused yet, still reads as before.
Faults == gb # NULL => session[gb].memory = "freed"
Crashes == Faults /\ crashed' = TRUE

Init ==
  /\ handler = [r \in Request |-> "idle"]
  /\ sent = [r \in Request |-> 0]
  /\ played = [r \in Request |-> <<>>]
  /\ source = [r \in Request |-> NULL]
  /\ engine = [r \in Request |-> "none"]
  /\ logger = [r \in Request |-> "none"]
  /\ log_goodput_tid = NULL
  /\ gb = NULL
  /\ session = [r \in Request |-> Unallocated]
  /\ file = NULL
  /\ content = [r \in Request |-> {}]
  /\ crashed = FALSE
  /\ timeouts = 0
  /\ errors = 0
-----------------------------------------------------------------------------
(* The proxy: main accepts a request, accept_request answers it.           *)

PlayerAsks(r) ==
  /\ handler[r] = "idle"
  /\ \A q \in Request : q < r => handler[q] = "done"
  /\ PatientPlayer => \A q \in Request : engine[q] \notin {"new", "open"}
  /\ handler' = [handler EXCEPT ![r] = "lookup"]
  /\ UNCHANGED <<playVars, downloadVars, diskVars, countVars>>

\* A file that exists is sent as it is; otherwise a download is started.
Lookup(r) ==
  /\ handler[r] = "lookup"
  /\ IF file # NULL
     THEN /\ handler' = [handler EXCEPT ![r] = "local"]
          /\ UNCHANGED engine
     ELSE /\ handler' = [handler EXCEPT ![r] = "wait"]
          /\ engine' = [engine EXCEPT ![r] = "new"]
  /\ UNCHANGED <<playVars, logger, log_goodput_tid, gb, session, diskVars,
                 countVars>>

\* A file is as long as its last byte requires; reading it gives the bytes
\* stored, and zeroes in between.
EndOf(f) == IF content[f] = {} THEN 0
            ELSE 1 + CHOOSE b \in content[f] : \A a \in content[f] : a <= b
Slice(f, from, n) ==
  [k \in 1 .. n |-> IF from + k - 1 \in content[f] THEN from + k - 1 ELSE Hole]
\* Faulty: the larger of the two sizes is read.
Least_Larger(m, n) == IF m <= n THEN n ELSE m

Least(m, n) == IF m <= n THEN m ELSE n

Plays(r, n) ==
  /\ played' = [played EXCEPT ![r] = @ \o Slice(source[r], sent[r], n)]
  /\ sent' = [sent EXCEPT ![r] = @ + n]
  /\ UNCHANGED source

\* send_local_file: 404 if the path of the URL is not that of the file.
SendLocal(r) ==
  /\ \/ /\ handler[r] = "local"
        /\ file # NULL
        /\ handler' = [handler EXCEPT ![r] = "copy"]
        /\ source' = [source EXCEPT ![r] = file]
        /\ UNCHANGED <<sent, played>>
     \/ /\ handler[r] = "local"
        /\ handler' = [handler EXCEPT ![r] = "done"]
        /\ UNCHANGED playVars
     \/ LET n == Least(SendSize, EndOf(source[r]) - sent[r])
        IN  /\ handler[r] = "copy"
            /\ n > 0
            /\ Plays(r, n)
            /\ UNCHANGED handler
     \/ /\ handler[r] = "copy"    \* the end of the file, or the player left
        /\ handler' = [handler EXCEPT ![r] = "done"]
        /\ UNCHANGED playVars
  /\ UNCHANGED <<downloadVars, diskVars, countVars>>

\* send_remote_file waits until the download has some data.
DataDownloaded == gb # NULL /\ session[gb].last_downloaded_byte > 0

Wait(r) ==
  /\ handler[r] = "wait"
  /\ \/ /\ DataDownloaded
        /\ IF file # NULL
           THEN /\ handler' = [handler EXCEPT ![r] = "send"]
                /\ source' = [source EXCEPT ![r] = file]
                /\ UNCHANGED crashed
           ELSE /\ crashed' = TRUE     \* perror_die
                /\ UNCHANGED <<handler, source>>
        /\ UNCHANGED <<sent, played, timeouts>>
     \/ /\ gb # NULL
        /\ Crashes
        /\ UNCHANGED <<handler, playVars, timeouts>>
     \/ /\ ~DataDownloaded
        /\ timeouts < MaxTimeouts
        /\ timeouts' = timeouts + 1
        /\ handler' = [handler EXCEPT ![r] = "done"]
        /\ UNCHANGED <<playVars, crashed>>
  /\ UNCHANGED <<downloadVars, diskVars, errors>>

\* Faulty: the bytes asked for are not limited to those downloaded.
SendLimit_File(r) == Size

\* How far the bytes downloaded allow to send.
SendLimit(r) == session[gb].last_downloaded_byte

\* The loop of send_remote_file, up to and including send(), in which the
\* thread may wait for long.
Send(r) ==
  LET n == Least(SendSize, Least(SendLimit(r), EndOf(source[r])) - sent[r])
  IN  /\ handler[r] = "send"
      /\ \/ /\ Crashes
            /\ UNCHANGED <<handler, playVars>>
         \/ /\ gb # NULL
            /\ sent[r] <= session[gb].last_downloaded_byte
            /\ n > 0
            /\ Plays(r, n)
            /\ handler' = [handler EXCEPT ![r] = "check"]
            /\ UNCHANGED crashed
         \/ /\ gb # NULL
            /\ sent[r] <= session[gb].last_downloaded_byte
            /\ n <= 0
            /\ handler' = [handler EXCEPT
                 ![r] = IF sent[r] = Size THEN "finish" ELSE "check"]
            /\ UNCHANGED <<playVars, crashed>>
         \/ /\ gb # NULL    \* send() fails: the player left
            /\ sent[r] <= session[gb].last_downloaded_byte
            /\ n > 0
            /\ handler' = [handler EXCEPT ![r] = "finish"]
            /\ UNCHANGED <<playVars, crashed>>
      /\ UNCHANGED <<downloadVars, diskVars, timeouts, errors>>

\* The assertion at the end of the loop's body, in front of the next round.
Check(r) ==
  /\ handler[r] = "check"
  /\ \/ /\ Crashes
        /\ UNCHANGED handler
     \/ /\ gb # NULL
        /\ IF sent[r] <= session[gb].last_downloaded_byte
           THEN /\ handler' = [handler EXCEPT ![r] = "send"]
                /\ UNCHANGED crashed
           ELSE /\ crashed' = TRUE
                /\ UNCHANGED handler
  /\ UNCHANGED <<playVars, downloadVars, diskVars, timeouts, errors>>

\* The end of send_remote_file: assert(gb), gb->run = 0, gb->finish = 1.
Finish(r) ==
  /\ handler[r] = "finish"
  /\ \/ /\ Crashes
        /\ UNCHANGED <<handler, session>>
     \/ /\ gb # NULL
        /\ session' = [session EXCEPT ![gb].run = FALSE, ![gb].finish = TRUE]
        /\ handler' = [handler EXCEPT ![r] = "join"]
        /\ UNCHANGED crashed
  /\ UNCHANGED <<playVars, engine, logger, log_goodput_tid, gb, diskVars,
                 timeouts, errors>>

\* Faulty: the download is not waited for.
Joined_Not(r) == TRUE
\* pthread_join(gb_thread)
Joined(r) == engine[r] = "done"

\* The buffer file is removed once the download has come to its end.
Unlink(r) ==
  /\ handler[r] = "join"
  /\ Joined(r)
  /\ file' = NULL
  /\ handler' = [handler EXCEPT ![r] = "done"]
  /\ UNCHANGED <<playVars, downloadVars, content, countVars>>

Handler(r) ==
  \/ Lookup(r)
  \/ SendLocal(r)
  \/ Wait(r)
  \/ Send(r)
  \/ Check(r)
  \/ Finish(r)
  \/ Unlink(r)
-----------------------------------------------------------------------------
(* gb_process                                                              *)

\* gb_new, after conf_init and parse_args.
New(r) ==
  /\ engine[r] = "new"
  /\ session' = [session EXCEPT ![r] = Fresh]
  /\ gb' = r
  /\ engine' = [engine EXCEPT ![r] = "open"]
  /\ UNCHANGED <<handler, playVars, logger, log_goodput_tid, diskVars, countVars>>

\* gb_process returns early: without a gb, when an option is refused, or with
\* gb pointing to what gb_close has freed, when the URL is not parsed.  When
\* the server does not answer, gb_close frees what was never allocated
\* (gb->conn[0].local_if), which ends the process.
NewFails(r) ==
  /\ engine[r] = "new"
  /\ errors < MaxErrors
  /\ errors' = errors + 1
  /\ \/ /\ engine' = [engine EXCEPT ![r] = "done"]
        /\ UNCHANGED <<session, gb, crashed>>
     \/ /\ engine' = [engine EXCEPT ![r] = "done"]
        /\ session' = [session EXCEPT ![r] = Unparsed]
        /\ gb' = r
        /\ UNCHANGED crashed
     \/ /\ crashed' = TRUE
        /\ UNCHANGED <<session, gb, engine>>
  /\ UNCHANGED <<handler, playVars, logger, log_goodput_tid, diskVars,
                 timeouts>>

\* gb_open, start_periodic_tasks and gb_start.  gb_open uses the file that is
\* there, or creates it; a failure to open it ends the process.
Open(r) ==
  /\ engine[r] = "open"
  /\ \/ /\ Crashes
        /\ UNCHANGED <<session, file, logger, log_goodput_tid, engine, errors>>
     \/ /\ gb # NULL
        /\ file' = IF file = NULL THEN r ELSE file
        /\ session' = [session EXCEPT ![gb].outfd = file']
        /\ logger' = [logger EXCEPT ![r] = IF PeriodicThreads THEN "test" ELSE @]
        /\ log_goodput_tid' = IF PeriodicThreads THEN r ELSE log_goodput_tid
        /\ engine' = [engine EXCEPT ![r] = "loop"]
        /\ UNCHANGED <<crashed, errors>>
     \/ /\ errors < MaxErrors
        /\ errors' = errors + 1
        /\ crashed' = TRUE
        /\ UNCHANGED <<session, file, logger, log_goodput_tid, engine>>
  /\ UNCHANGED <<handler, playVars, gb, content, timeouts>>

\* Faulty: the last update is left out.
Published_Inorder(s) == s.inorder_offset

\* update_last_downloaded_byte
Published(s) == IF s.ready = 0 /\ s.run THEN s.inorder_offset ELSE Size

Updates(s) == session' = [session EXCEPT ![gb] = [s EXCEPT
                              !.last_downloaded_byte = Published(s)]]

\* Another main loop works on the same gb, or will.
Overlaps(r) ==
  gb # r \/ \E q \in Request \ {r} : engine[q] \in {"open", "loop"}

\* algo_general stores further bytes; two of them at once, on one gb without
\* a lock, leave its offsets and its end to chance.
Stores(r) ==
  LET s == session[gb]
  IN  /\ s.ready = 0 /\ s.run
      /\ ~s.stalled
      /\ s.outfd # NULL
      /\ \E C \in SUBSET Byte, o \in 0 .. Size, d \in {-1, 0, 1} :
           /\ content[s.outfd] \subseteq C
           /\ \/ Overlaps(r)
              \/ /\ content[s.outfd] # C
                 /\ s.inorder_offset <= o
                 /\ 0 .. o - 1 \subseteq C
                 /\ d = IF C = Byte THEN 1 ELSE 0
           /\ content' = [content EXCEPT ![s.outfd] = C]
           /\ Updates([s EXCEPT !.inorder_offset = o, !.ready = d])
      /\ UNCHANGED <<engine, crashed, errors>>

\* select or a write fails, which sets ready = -1; or what is missing is left
\* with a link that is not restarted, and no more bytes come.
Fails ==
  LET s == session[gb]
  IN  /\ s.ready = 0 /\ s.run
      /\ errors < MaxErrors
      /\ errors' = errors + 1
      /\ Updates([s EXCEPT !.ready = -1]) \/ Updates([s EXCEPT !.stalled = TRUE])
      /\ UNCHANGED <<engine, content, crashed>>

\* The main loop ends.
Leaves(r) ==
  LET s == session[gb]
  IN  /\ s.ready # 0 \/ ~s.run
      /\ Updates(s)
      /\ engine' = [engine EXCEPT ![r] = "join"]
      /\ UNCHANGED <<content, crashed, errors>>

\* A turn of the main loop.
Turn(r) ==
  /\ engine[r] = "loop"
  /\ \/ /\ crashed' = TRUE
        /\ Faults \/ Overlaps(r)
        /\ UNCHANGED <<session, content, engine, errors>>
     \/ gb # NULL /\ (Stores(r) \/ Fails \/ Leaves(r))
  /\ UNCHANGED <<handler, playVars, logger, log_goodput_tid, gb, file,
                 timeouts>>

\* Faulty: the periodic thread is not joined.
JoinsPeriodic_Not(r) == TRUE
\* Faulty: the download is kept until gb->finish is set.
JoinsPeriodic_UntilFinish(r) == session[r].finish

\* join_periodic_tasks
JoinsPeriodic(r) == PeriodicThreads => logger[log_goodput_tid] = "done"

\* gb_close: the set-up threads run to their end, then gb is freed.
Close(r) ==
  /\ engine[r] = "join"
  /\ JoinsPeriodic(r)
  /\ \/ /\ Crashes
        /\ UNCHANGED <<session, engine>>
     \/ /\ gb # NULL
        /\ session' = [session EXCEPT ![gb].memory = "freed"]
        /\ engine' = [engine EXCEPT ![r] = "clear"]
        /\ UNCHANGED crashed
  /\ UNCHANGED <<handler, playVars, logger, log_goodput_tid, gb, diskVars,
                 timeouts, errors>>

\* gb = NULL
Clear(r) ==
  /\ engine[r] = "clear"
  /\ gb' = NULL
  /\ engine' = [engine EXCEPT ![r] = "done"]
  /\ UNCHANGED <<handler, playVars, logger, log_goodput_tid, session, diskVars,
                 countVars>>

Engine(r) == New(r) \/ NewFails(r) \/ Open(r) \/ Turn(r) \/ Close(r) \/ Clear(r)
-----------------------------------------------------------------------------
(* log_goodput stands for the periodic threads that are joined: it tests   *)
(* gb and gb->finish, waits for initiate_periodic_tasks to signal, which   *)
(* it does while gb is set, and then reads gb.                             *)

LoggerTests(r) == logger' = [logger EXCEPT
  ![r] = IF gb = NULL \/ session[gb].finish THEN "done" ELSE "wait"]

Logger(r) ==
  /\ \/ logger[r] = "test" /\ LoggerTests(r) /\ UNCHANGED crashed
     \/ /\ logger[r] = "wait"
        /\ gb # NULL
        /\ logger' = [logger EXCEPT ![r] = "read"]
        /\ UNCHANGED crashed
     \/ /\ logger[r] = "read"
        /\ IF gb = NULL THEN UNCHANGED logger ELSE LoggerTests(r)
        /\ crashed' \in {gb = NULL, Faults}
  /\ UNCHANGED <<handler, playVars, engine, log_goodput_tid, gb, session,
                 diskVars, timeouts, errors>>

Answered == crashed \/ \A r \in Request : handler[r] = "done"
Terminated == Answered /\ UNCHANGED vars

Next ==
  \/ ~crashed /\ \E r \in Request :
       PlayerAsks(r) \/ Handler(r) \/ Engine(r) \/ Logger(r)
  \/ Terminated

\* Threads run until they wait; the player may never ask again.
FairSpec ==
  /\ Init
  /\ [][Next]_vars
  /\ \A r \in Request : /\ WF_vars(~crashed /\ Handler(r))
                        /\ WF_vars(~crashed /\ Engine(r))
                        /\ WF_vars(~crashed /\ Logger(r))
-----------------------------------------------------------------------------
TypeOK ==
  /\ handler \in [Request -> {"idle", "lookup", "local", "copy", "wait", "send",
                             "check", "finish", "join", "done"}]
  /\ sent \in [Request -> 0 .. Size]
  /\ played \in [Request -> Seq(Byte \cup {Hole})]
  /\ source \in [Request -> Request \cup {NULL}]
  /\ engine \in [Request -> {"none", "new", "open", "loop", "join", "clear",
                            "done"}]
  /\ logger \in [Request -> {"none", "test", "wait", "read", "done"}]
  /\ log_goodput_tid \in Request \cup {NULL}
  /\ gb \in Request \cup {NULL}
  /\ session \in [Request ->
       [memory : {"none", "live", "freed"}, ready : {-1, 0, 1}, run : BOOLEAN,
        finish : BOOLEAN, stalled : BOOLEAN, outfd : Request \cup {NULL},
        inorder_offset : 0 .. Size, last_downloaded_byte : 0 .. Size]]
  /\ file \in Request \cup {NULL}
  /\ content \in [Request -> SUBSET Byte]
  /\ crashed \in BOOLEAN
  /\ timeouts \in 0 .. MaxTimeouts
  /\ errors \in 0 .. MaxErrors

\* What a player gets is the file, from its first byte on and in order:
\* send_remote_file reads no byte of the buffer file that is not stored yet,
\* though the engine stores them out of order.
PlayedInOrder ==
  \A r \in Request : \A n \in DOMAIN played[r] : played[r][n] = n - 1

\* While send_remote_file sends, and when it stops the download, the global
\* gb is its own session, which has not been freed.
OwnSession ==
  \A r \in Request : handler[r] \in {"send", "check", "finish"} =>
    gb = r /\ session[r].memory = "live"

\* The buffer file is not removed under a download that still writes it, if
\* the player is patient.
RemovedWhenClosed ==
  [][file # NULL /\ file' = NULL =>
       \A r \in Request : engine[r] \notin {"open", "loop", "join"}]_vars

\* The assertion of send_remote_file, that it never sends more than what was
\* downloaded: gb->last_downloaded_byte may change while send() waits.
SentIsDownloaded ==
  \A r \in Request : handler[r] = "check" /\ gb # NULL =>
    sent[r] <= session[gb].last_downloaded_byte

\* Once a request is answered nothing of its session is left: no thread, no
\* global gb and no buffer file, which the next request would meet.
NothingLeft ==
  (\A r \in Request : handler[r] \in {"idle", "done"}) =>
    /\ gb = NULL
    /\ file = NULL
    /\ \A r \in Request : /\ engine[r] \in {"none", "done"}
                           /\ logger[r] \in {"none", "done"}

\* No pointer of a session that is gone is followed.
NeverFaults == ~crashed

\* Every request is answered in the end.
EveryRequestEnds ==
  \A r \in Request : handler[r] = "lookup" ~> (handler[r] = "done" \/ crashed)

\* A download that was started comes to its end and gives up its memory, also
\* one that nobody waits for since its request timed out, unless it stalls and
\* nobody stops it.
Stalled(r) == session[r].stalled /\ session[r].run
DownloadEnds ==
  \A r \in Request :
    engine[r] = "new" ~> (engine[r] = "done" \/ crashed \/ []Stalled(r))
=============================================================================
