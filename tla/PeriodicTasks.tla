---------------------------- MODULE PeriodicTasks ----------------------------
(***************************************************************************)
(* The periodic tasks of a session (periodic_tasks.c): threads that wait   *)
(* on a condition variable each, the timer that signals them, and          *)
(* gb_process (gbsession.c), which starts them, joins all but the timer    *)
(* and then frees the session that they all reach through the global gb.   *)
(*                                                                         *)
(* Sessions follow one another: a handler of the proxy joins gb_process    *)
(* before it removes the buffer file and answers the next request.  The    *)
(* timer is not joined, so that one of an earlier session may still run.   *)
(* A condition is waited for without a predicate: a signal that comes too  *)
(* early is lost, and a wait may end without one.                          *)
(***************************************************************************)
EXTENDS Integers, Sequences

CONSTANTS
  Built,                  \* the tasks whose ENABLE_ flag config.h sets to 1
  SEND_PROBE_MULTIPLIER,  \* update_rtt is signalled once in so many rounds
  MaxSessions,            \* bound: sessions
  MaxFailures             \* bound: failures of pthread_create and fopen

\* In the order in which start_periodic_tasks creates the threads, and
\* join_periodic_tasks joins them.
Order == <<"update_rtt", "measure_rtt", "log_goodput",
           "initiate_periodic_tasks", "log_goodput_to_client">>
Place == 1 .. 5
Timer == "initiate_periodic_tasks"
Task == {"update_rtt", "measure_rtt", "log_goodput", "log_goodput_to_client"}
Thread == Task \cup {Timer}

ASSUME BuiltAssumption == Built \subseteq Task
ASSUME MultiplierAssumption == SEND_PROBE_MULTIPLIER \in Nat \ {0}
ASSUME BoundAssumption == MaxSessions \in Nat \ {0} /\ MaxFailures \in Nat

Session == 1 .. MaxSessions
NULL == 0

VARIABLES
  session,   \* the sessions so far, the last of them is the present one
  at, place, \* how far gb_process is, and where in Order
  gb,        \* the global pointer: a session or NULL
  memory,    \* the gb_t of each session
  finish,    \* gb->finish of each
  thread,    \* the threads of each session
  beat,      \* the place in Order each timer signals next
  counter,   \* the rounds of all timers, modulo SEND_PROBE_MULTIPLIER
  tid,       \* the session whose thread each global thread id names
  failures, exited

vars == <<session, at, place, gb, memory, finish, thread, beat, counter, tid,
          failures, exited>>
processVars == <<session, at, place, gb, memory, tid>>
timerVars == <<beat, counter>>

Init ==
  /\ session = 0
  /\ at = "idle" /\ place = 1
  /\ gb = NULL
  /\ memory = [s \in Session |-> "none"]
  /\ finish = [s \in Session |-> FALSE]
  /\ thread = [s \in Session |-> [t \in Thread |-> "none"]]
  /\ beat = [s \in Session |-> 1]
  /\ counter = 0
  /\ tid = [t \in Thread |-> NULL]
  /\ failures = 0 /\ exited = FALSE
-----------------------------------------------------------------------------
(* gb_process, of the present session                                      *)

New ==
  /\ at = "idle"
  /\ session < MaxSessions
  /\ session' = session + 1
  /\ gb' = session + 1
  /\ memory' = [memory EXCEPT ![session + 1] = "live"]
  /\ at' = "start" /\ place' = 1
  /\ UNCHANGED <<finish, thread, timerVars, tid, failures, exited>>

\* Faulty: the timer is created with the function of a task.
Begins_AsTask(t) == "setup"
\* The first thing the function of a thread does.
Begins(t) == IF t = Timer THEN "test" ELSE "setup"

\* On to the next thread of Order; after the last, gb_process goes on.
Next_place(next) == IF place = Len(Order)
                    THEN at' = next /\ place' = 1
                    ELSE at' = at /\ place' = place + 1

\* start_periodic_tasks.  When a thread cannot be created the rest are not
\* tried, and gb_process goes on all the same.
Start ==
  LET t == Order[place]
  IN  /\ at = "start"
      /\ \/ /\ t \in Built \cup {Timer}
            /\ thread' = [thread EXCEPT ![session][t] = Begins(t)]
            /\ tid' = [tid EXCEPT ![t] = session]
            /\ Next_place("run")
            /\ UNCHANGED failures
         \/ /\ t \in Built \cup {Timer}
            /\ failures < MaxFailures
            /\ failures' = failures + 1
            /\ at' = "run" /\ place' = 1
            /\ UNCHANGED <<thread, tid>>
         \/ /\ t \notin Built \cup {Timer}
            /\ Next_place("run")
            /\ UNCHANGED <<thread, tid, failures>>
      /\ UNCHANGED <<session, gb, memory, finish, timerVars, exited>>

\* gb_start and the main loop, which ends when the file is ready, when the
\* download fails, or with gb->run = 0.
Run ==
  /\ at = "run"
  /\ at' = "join" /\ place' = 1
  /\ UNCHANGED <<session, gb, memory, finish, thread, timerVars, tid, failures,
                 exited>>

\* Faulty: the last task is left out.
Joined_NotLast == Built \ {"log_goodput_to_client"}
\* Faulty: the timer is joined as well, as the line that is commented out does.
Joined_Timer == Built \cup {Timer}
\* The threads that join_periodic_tasks joins.
Joined == Built

\* When a thread was not created, its id is that of a thread joined before,
\* which pthread_join may refuse, or none at all: it may also end the process.
Join ==
  LET t == Order[place]
  IN  /\ at = "join"
      /\ \/ /\ \/ t \notin Joined
               \/ tid[t] = session /\ thread[session][t] = "done"
               \/ tid[t] \notin {session, NULL}
            /\ Next_place("close")
            /\ UNCHANGED exited
         \/ /\ t \in Joined
            /\ tid[t] # session
            /\ exited' = TRUE
            /\ UNCHANGED <<at, place>>
      /\ UNCHANGED <<session, gb, memory, finish, thread, timerVars, tid,
                     failures>>

\* gb_close
Close ==
  /\ at = "close"
  /\ memory' = [memory EXCEPT ![session] = "freed"]
  /\ at' = "clear"
  /\ UNCHANGED <<session, place, gb, finish, thread, timerVars, tid, failures,
                 exited>>

\* gb = NULL
Cleared == NULL

Clear ==
  /\ at = "clear"
  /\ gb' = Cleared
  /\ at' = "idle"
  /\ UNCHANGED <<session, place, memory, finish, thread, timerVars, tid,
                 failures, exited>>

gb_process == Start \/ Run \/ Join \/ Close \/ Clear

\* The end of send_remote_file, a thread of the proxy: gb->finish = 1.
Finish ==
  /\ at \in {"run", "join"}
  /\ ~finish[gb]
  /\ finish' = [finish EXCEPT ![gb] = TRUE]
  /\ UNCHANGED <<processVars, thread, timerVars, failures, exited>>
-----------------------------------------------------------------------------
(* The tasks                                                               *)

Becomes(s, t, state) == thread' = [thread EXCEPT ![s][t] = state]

\* update_rtt waits until gb_start has given every connection its interface.
\* The others open their log; only log_goodput_to_client survives a failure.
SetUp(s, t) ==
  /\ thread[s][t] = "setup"
  /\ \/ /\ t = "update_rtt" => at # "start"
        /\ Becomes(s, t, "test")
        /\ UNCHANGED <<failures, exited>>
     \/ /\ t # "update_rtt"
        /\ failures < MaxFailures
        /\ failures' = failures + 1
        /\ IF t = "log_goodput_to_client"
           THEN Becomes(s, t, "done") /\ UNCHANGED exited
           ELSE exited' = TRUE /\ UNCHANGED thread

\* while (gb && !gb->finish)
Tests(s, t) ==
  /\ thread[s][t] = "test"
  /\ Becomes(s, t, IF gb # NULL /\ ~finish[gb] THEN "wait" ELSE "done")
  /\ UNCHANGED <<failures, exited>>

\* pthread_cond_wait returns though nobody signalled.
WakesUp(s, t) ==
  /\ thread[s][t] = "wait"
  /\ Becomes(s, t, "woken")
  /\ UNCHANGED <<failures, exited>>

\* The rest of the loop, which follows gb without testing it again.
Works(s, t) ==
  /\ thread[s][t] = "woken"
  /\ Becomes(s, t, "test")
  /\ UNCHANGED <<failures, exited>>

Runs(s, t) == /\ SetUp(s, t) \/ Tests(s, t) \/ Works(s, t)
              /\ UNCHANGED <<processVars, finish, timerVars>>
Spurious(s, t) == WakesUp(s, t) /\ UNCHANGED <<processVars, finish, timerVars>>
-----------------------------------------------------------------------------
(* initiate_periodic_tasks, the timer                                      *)

\* Faulty: the timer stops with the session, as the tasks do.
Beats_UntilFinish == gb # NULL /\ ~finish[gb]
\* while (gb)
Beats == gb # NULL

TimerTests(s) ==
  /\ thread[s][Timer] = "test"
  /\ Becomes(s, Timer, IF Beats THEN "signal" ELSE "done")
  /\ UNCHANGED timerVars

\* The conditions of one round.  update_rtt has its turn only once in so many;
\* log_fps_cond, which no thread of this program waits on, is left out.
SignalOrder == <<"update_rtt", "measure_rtt", "log_goodput",
                 "log_goodput_to_client">>
Signalled(t) == t \in Built /\ (t = "update_rtt" => counter = 0)

\* pthread_cond_signal wakes one thread that waits, if there is one.
Wakes(t) ==
  \/ \E r \in Session : thread[r][t] = "wait" /\ Becomes(r, t, "woken")
  \/ /\ \A r \in Session : thread[r][t] # "wait"
     /\ UNCHANGED thread

Signals(s) ==
  LET t == SignalOrder[beat[s]]
  IN  /\ thread[s][Timer] = "signal"
      /\ beat[s] <= Len(SignalOrder)
      /\ IF Signalled(t) THEN Wakes(t) ELSE UNCHANGED thread
      /\ beat' = [beat EXCEPT ![s] = @ + 1]
      /\ UNCHANGED counter

\* Two timers that add to the counter at once may lose a round, which only
\* delays update_rtt; the addition is one step here.
EndsRound(s) ==
  /\ thread[s][Timer] = "signal"
  /\ beat[s] > Len(SignalOrder)
  /\ Becomes(s, Timer, "test")
  /\ beat' = [beat EXCEPT ![s] = 1]
  /\ counter' = (counter + 1) % SEND_PROBE_MULTIPLIER

initiate_periodic_tasks(s) ==
  /\ TimerTests(s) \/ Signals(s) \/ EndsRound(s)
  /\ UNCHANGED <<processVars, finish, failures, exited>>
-----------------------------------------------------------------------------
\* No session is under way and every thread has come to its end.
Quiet == at = "idle" /\ \A s \in Session : \A t \in Thread :
                          thread[s][t] \in {"none", "done"}
Rests == (exited \/ Quiet) /\ UNCHANGED vars

Next ==
  \/ /\ ~exited
     /\ \/ New
        \/ gb_process
        \/ Finish
        \/ \E s \in Session : \/ \E t \in Task : Runs(s, t) \/ Spurious(s, t)
                              \/ initiate_periodic_tasks(s)
  \/ Rests

\* Every thread that can go on does, and the player's request comes to its
\* end (module Session); nothing is assumed of spurious wake-ups or of a next
\* session.
FairSpec ==
  /\ Init
  /\ [][Next]_vars
  /\ WF_vars(~exited /\ gb_process)
  /\ WF_vars(~exited /\ Finish)
  /\ \A s \in Session :
       /\ WF_vars(~exited /\ initiate_periodic_tasks(s))
       /\ \A t \in Task : WF_vars(~exited /\ Runs(s, t))
-----------------------------------------------------------------------------
TypeOK ==
  /\ session \in 0 .. MaxSessions
  /\ at \in {"idle", "start", "run", "join", "close", "clear"}
  /\ place \in Place
  /\ gb \in Session \cup {NULL}
  /\ memory \in [Session -> {"none", "live", "freed"}]
  /\ finish \in [Session -> BOOLEAN]
  /\ thread \in [Session -> [Thread ->
       {"none", "setup", "test", "wait", "woken", "signal", "done"}]]
  /\ \A s \in Session : /\ thread[s][Timer] \notin {"setup", "wait", "woken"}
                        /\ \A t \in Task : thread[s][t] # "signal"
  /\ beat \in [Session -> 1 .. Len(SignalOrder) + 1]
  /\ counter \in 0 .. SEND_PROBE_MULTIPLIER - 1
  /\ tid \in [Thread -> Session \cup {NULL}]
  /\ failures \in 0 .. MaxFailures
  /\ exited \in BOOLEAN

Alive(s, t) == thread[s][t] \notin {"none", "done"}

\* A task that still runs finds its own session behind gb, and its memory not
\* freed: the tasks follow gb without testing it after they were woken, and
\* log_goodput before its first test.
TasksSeeTheirSession ==
  \A s \in Session, t \in Task : Alive(s, t) => gb = s /\ memory[s] = "live"

\* While gb_process waits for tasks there is a timer to wake them, for they
\* see gb->finish only between two waits.  After a failed pthread_create there
\* may be none.
JoinHasATimer ==
  at = "join" /\ failures = 0 => \E s \in Session : Alive(s, Timer)

\* A session whose threads were all created gives up its memory in the end:
\* no lost signal keeps a task, and with it the join, from ending.  With two
\* timers in step the shared counter may pass over the rounds of update_rtt,
\* so that a session with this task is promised nothing beside an older timer.
SessionsEnd ==
  \A s \in Session :
    /\ session = s
    /\ "update_rtt" \in Built => \A r \in 1 .. s - 1 : ~Alive(r, Timer)
    ~> memory[s] = "freed" \/ failures > 0

=============================================================================
