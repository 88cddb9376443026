------------------------- MODULE PeriodicTasksProofs -------------------------
(***************************************************************************)
(* Proofs about the periodic tasks, for any set of tasks that are built,   *)
(* any number of sessions and any number of failures.  The invariant says  *)
(* where gb_process is while a task of its session can still run.          *)
(***************************************************************************)
EXTENDS PeriodicTasks, TLAPS

\* gb is the present session until it is over, and its memory is not freed
\* before the last step.
GbIsPresent ==
  /\ at = "idle" => gb = NULL
  /\ at # "idle" => session \in Session /\ gb = session
  /\ at \in {"start", "run", "join", "close"} => memory[session] = "live"

\* A task that runs is of the present session, its thread id is the one that
\* is joined, and the join has not passed it.
TasksAreAhead ==
  \A s \in Session, t \in Task : Alive(s, t) =>
    /\ s = session /\ t \in Built /\ tid[t] = session
    /\ at \in {"start", "run", "join"}
    /\ at = "join" => \E i \in place .. 5 : Order[i] = t

\* Unless a thread could not be created, the session's own timer runs from its
\* place in Order on until gb is cleared.
TimerRuns ==
  failures = 0 /\ (at \in {"run", "join"} \/ (at = "start" /\ place = 5)) =>
    Alive(session, Timer)

Lives == TypeOK /\ GbIsPresent /\ TasksAreAhead /\ TimerRuns

-----------------------------------------------------------------------------
\* The places of the threads in Order, all of which are threads.
LEMMA OrderIs ==
  /\ Order[1] = "update_rtt" /\ Order[2] = "measure_rtt"
  /\ Order[3] = "log_goodput" /\ Order[4] = "initiate_periodic_tasks"
  /\ Order[5] = "log_goodput_to_client" /\ Len(Order) = 5
  /\ Len(SignalOrder) = 4
  /\ \A i \in Place : Order[i] \in Thread
  /\ \A i \in 1 .. 4 : SignalOrder[i] \in Task
BY DEF Order, SignalOrder, Place, Thread, Task, Timer

\* Nothing runs, and there is no session, at the start.
LEMMA InitLives == Init => Lives
<1> SUFFICES ASSUME Init PROVE Lives
  OBVIOUS
<1>a. /\ thread \in [Session -> [Thread ->
           {"none", "setup", "test", "wait", "woken", "signal", "done"}]]
      /\ \A s \in Session : \A t \in Thread : thread[s][t] = "none"
  BY DEF Init
<1>b. /\ Timer \in Thread /\ Task \subseteq Thread
      /\ beat \in [Session -> 1 .. Len(SignalOrder) + 1]
      /\ counter \in 0 .. SEND_PROBE_MULTIPLIER - 1
  BY OrderIs, MultiplierAssumption DEF Init, Thread
<1>1. TypeOK
  <2>1. /\ session \in 0 .. MaxSessions /\ place \in Place
        /\ failures \in 0 .. MaxFailures
    BY BoundAssumption DEF Init, Place
  <2>2. /\ memory \in [Session -> {"none", "live", "freed"}]
        /\ finish \in [Session -> BOOLEAN]
        /\ tid \in [Thread -> Session \cup {NULL}]
        /\ gb \in Session \cup {NULL} /\ exited \in BOOLEAN /\ at = "idle"
    BY DEF Init
  <2>3. \A s \in Session : /\ thread[s][Timer] \notin {"setup", "wait", "woken"}
                           /\ \A t \in Task : thread[s][t] # "signal"
    BY <1>a, <1>b
  <2> QED BY <1>a, <1>b, <2>1, <2>2, <2>3 DEF TypeOK
<1>2. GbIsPresent /\ TimerRuns
  BY DEF Init, GbIsPresent, TimerRuns
<1>3. TasksAreAhead
  BY DEF Init, TasksAreAhead, Alive, Thread
<1> QED BY <1>1, <1>2, <1>3 DEF Lives

\* gb_new comes when every thread but timers is over.
LEMMA NewLives == Lives /\ New => Lives'
<1> SUFFICES ASSUME Lives, New PROVE Lives'
  OBVIOUS
<1> USE OrderIs, BoundAssumption
<1>1. TypeOK'
  BY DEF New, Lives, TypeOK, Session, Place, NULL, timerVars, Alive
<1>2. session' \in Session /\ gb' = session' /\ memory'[session'] = "live"
  BY DEF New, Lives, TypeOK, Session
<1>3. GbIsPresent'
  BY <1>2 DEF New, GbIsPresent
<1>4. TasksAreAhead'
  BY DEF New, Lives, TasksAreAhead, Alive
<1>5. TimerRuns'
  BY DEF New, TimerRuns
<1> QED BY <1>1, <1>3, <1>4, <1>5 DEF Lives

\* A thread that is created is of the present session and stored in its id.
LEMMA StartLives == Lives /\ Start => Lives'
<1> SUFFICES ASSUME Lives, Start PROVE Lives'
  OBVIOUS
<1> DEFINE t == Order[place]
<1>0. /\ session \in Session /\ session' = session
      /\ place \in Place /\ t \in Thread /\ at = "start"
      /\ place' \in Place /\ at' \in {"start", "run"}
      /\ gb = session /\ memory[session] = "live"
  BY OrderIs, BuiltAssumption DEF Start, Lives, TypeOK, GbIsPresent, Place,
     Next_place
<1> USE OrderIs, BuiltAssumption, BoundAssumption
<1>1. GbIsPresent'
  BY <1>0 DEF Start, GbIsPresent
<1>2. CASE /\ t \in Built \cup {Timer}
           /\ thread' = [thread EXCEPT ![session][t] = Begins(t)]
           /\ tid' = [tid EXCEPT ![t] = session]
           /\ Next_place("run")
           /\ UNCHANGED failures
  <2>1. TypeOK'
    BY <1>0, <1>2 DEF Start, Lives, TypeOK, Begins, Task, Timer, timerVars,
       Thread
  <2>2. TasksAreAhead'
    <3> SUFFICES ASSUME NEW s \in Session, NEW u \in Task, Alive(s, u)'
                 PROVE  /\ s = session' /\ u \in Built /\ tid'[u] = session'
                        /\ at' \in {"start", "run", "join"}
                        /\ at' # "join"
      BY DEF TasksAreAhead
    <3>1. CASE u = t /\ s = session
      BY <3>1, <1>0, <1>2 DEF Start, Lives, TypeOK, Task, Timer
    <3>2. CASE ~(u = t /\ s = session)
      <4>1. Alive(s, u)
        BY <3>2, <1>0, <1>2 DEF Alive, Lives, TypeOK, Thread
      <4>2. s = session /\ u \in Built /\ tid[u] = session
        BY <4>1 DEF Lives, TasksAreAhead
      <4> QED BY <4>2, <3>2, <1>0, <1>2 DEF Start, Lives, TypeOK, Thread
    <3> QED BY <3>1, <3>2
  <2>3. TimerRuns'
    <3> SUFFICES ASSUME failures' = 0,
                        at' = "run" \/ (at' = "start" /\ place' = 5)
                 PROVE  Alive(session, Timer)'
      BY <1>0 DEF TimerRuns, Alive
    <3>1. CASE place = 4
      BY <3>1, <1>0, <1>2 DEF Start, Alive, Begins, Lives, TypeOK, Timer, Thread
    <3>2. CASE place = 5
      <4>1. Alive(session, Timer) /\ t # Timer
        BY <3>2, <1>0, <1>2 DEF Lives, TimerRuns, Start, Timer
      <4> QED BY <4>1, <1>0, <1>2 DEF Alive, Lives, TypeOK, Thread
    <3>3. place \in {4, 5}
      BY <1>0, <1>2 DEF Next_place, Place
    <3> QED BY <3>1, <3>2, <3>3, <1>0 DEF Start, Alive
  <2> QED BY <1>1, <2>1, <2>2, <2>3 DEF Lives
<1>3. CASE /\ failures < MaxFailures
           /\ failures' = failures + 1
           /\ at' = "run" /\ place' = 1
           /\ UNCHANGED <<thread, tid>>
  <2>1. TypeOK'
    BY <1>0, <1>3 DEF Start, Lives, TypeOK, timerVars, Place
  <2>2. TasksAreAhead'
    BY <1>3 DEF Start, Lives, TasksAreAhead, Alive
  <2>3. TimerRuns'
    BY <1>3 DEF TimerRuns, Lives, TypeOK
  <2> QED BY <1>1, <2>1, <2>2, <2>3 DEF Lives
<1>4. CASE /\ t \notin Built \cup {Timer}
           /\ Next_place("run")
           /\ UNCHANGED <<thread, tid, failures>>
  <2>1. TypeOK'
    BY <1>0, <1>4 DEF Start, Lives, TypeOK, timerVars
  <2>2. TasksAreAhead'
    BY <1>0, <1>4 DEF Start, Lives, TasksAreAhead, Alive
  <2>3. place # 4
    BY <1>4 DEF Timer
  <2>4. TimerRuns'
    BY <2>3, <1>0, <1>4 DEF Start, Lives, TimerRuns, Alive, Next_place, Place
  <2> QED BY <1>1, <2>1, <2>2, <2>4 DEF Lives
<1> QED BY <1>2, <1>3, <1>4 DEF Start

\* The main loop ends and the join begins: every thread is still ahead of it.
LEMMA RunLives == Lives /\ Run => Lives'
<1> SUFFICES ASSUME Lives, Run PROVE Lives'
  OBVIOUS
<1> USE OrderIs
<1>1. TypeOK'
  BY DEF Run, Lives, TypeOK, timerVars, Place
<1>2. GbIsPresent'
  BY DEF Run, Lives, GbIsPresent
<1>3. TasksAreAhead'
  <2> SUFFICES ASSUME NEW s \in Session, NEW t \in Task, Alive(s, t)
               PROVE  /\ s = session /\ t \in Built /\ tid[t] = session
                      /\ \E i \in 1 .. 5 : Order[i] = t
    BY DEF Run, TasksAreAhead, Alive
  <2>1. \E i \in 1 .. 5 : Order[i] = t
    BY DEF Task
  <2> QED BY <2>1 DEF Lives, TasksAreAhead
<1>4. TimerRuns'
  BY DEF Run, Lives, TimerRuns, Alive
<1> QED BY <1>1, <1>2, <1>3, <1>4 DEF Lives

\* The join passes a place when its thread is over, was not built, or was never
\* created in this session: then no such task runs.
LEMMA JoinLives == Lives /\ Join => Lives'
<1> SUFFICES ASSUME Lives, Join PROVE Lives'
  OBVIOUS
<1> DEFINE t == Order[place]
<1>0. /\ session \in Session /\ session' = session /\ gb' = gb
      /\ place \in Place /\ t \in Thread /\ at = "join" /\ failures' = failures
      /\ gb = session /\ memory[session] = "live" /\ thread' = thread
      /\ memory' = memory /\ tid' = tid
  BY OrderIs DEF Join, Lives, TypeOK, GbIsPresent
<1> USE OrderIs
<1>1. CASE /\ t \in Joined
           /\ tid[t] # session
           /\ exited' = TRUE
           /\ UNCHANGED <<at, place>>
  BY <1>0, <1>1 DEF Join, Lives, TypeOK, timerVars, GbIsPresent, TasksAreAhead,
     TimerRuns, Alive
<1>2. CASE /\ \/ t \notin Joined
              \/ tid[t] = session /\ thread[session][t] = "done"
              \/ tid[t] \notin {session, NULL}
           /\ Next_place("close")
           /\ UNCHANGED exited
  <2>1. \/ at' = "close" /\ place = 5 /\ place' = 1
        \/ at' = "join" /\ place \in 1 .. 4 /\ place' = place + 1
    BY <1>0, <1>2 DEF Next_place, Place
  <2>2. TypeOK'
    BY <2>1, <1>0, <1>2 DEF Join, Lives, TypeOK, timerVars, Place
  <2>3. GbIsPresent'
    BY <2>1, <1>0 DEF GbIsPresent
  <2>4. ASSUME NEW s \in Session, NEW u \in Task, Alive(s, u)
        PROVE  /\ s = session /\ u \in Built /\ tid[u] = session
               /\ at' = "join" /\ \E i \in place' .. 5 : Order[i] = u
    <3>1. /\ s = session /\ u \in Built /\ tid[u] = session
          /\ \E i \in place .. 5 : Order[i] = u
      BY <2>4, <1>0 DEF Lives, TasksAreAhead
    <3>2. u # t
      BY <3>1, <2>4, <1>2 DEF Alive, Joined
    <3>3. PICK i \in place .. 5 : Order[i] = u /\ i # place
      BY <3>1, <3>2
    <3> QED BY <3>1, <3>3, <2>1, <1>0 DEF Place
  <2>5. TasksAreAhead'
    BY <2>4, <1>0 DEF TasksAreAhead, Alive
  <2>6. TimerRuns'
    BY <2>1, <1>0 DEF Lives, TimerRuns, Alive
  <2> QED BY <2>2, <2>3, <2>5, <2>6 DEF Lives
<1> QED BY <1>1, <1>2 DEF Join

\* gb_close and gb = NULL come when no task of the session runs.
LEMMA CloseLives == Lives /\ Close => Lives'
BY OrderIs DEF Close, Lives, TypeOK, timerVars, GbIsPresent, TasksAreAhead,
   TimerRuns, Alive

LEMMA ClearLives == Lives /\ Clear => Lives'
BY OrderIs DEF Clear, Cleared, Lives, TypeOK, timerVars, GbIsPresent,
   TasksAreAhead, TimerRuns, Alive, NULL

LEMMA FinishLives == Lives /\ Finish => Lives'
BY OrderIs DEF Finish, Lives, TypeOK, timerVars, processVars, GbIsPresent,
   TasksAreAhead, TimerRuns, Alive

-----------------------------------------------------------------------------
\* A step of a thread keeps the invariant if no task comes to life by it, and
\* the session's timer does not end.
LEMMA ThreadStep ==
  ASSUME Lives, TypeOK', UNCHANGED processVars, failures' >= failures,
         \A s \in Session, t \in Task : Alive(s, t)' => Alive(s, t),
         session \in Session /\ gb # NULL /\ Alive(session, Timer) =>
           thread'[session][Timer] \notin {"none", "done"}
  PROVE  Lives'
<1>1. GbIsPresent'
  BY DEF Lives, GbIsPresent, processVars
<1>2. TasksAreAhead'
  BY DEF Lives, TasksAreAhead, processVars
<1>3. TimerRuns'
  <2> SUFFICES ASSUME failures' = 0,
                      at \in {"run", "join"} \/ (at = "start" /\ place = 5)
               PROVE  thread'[session][Timer] \notin {"none", "done"}
    BY DEF TimerRuns, processVars, Alive
  <2>1. failures = 0
    BY DEF Lives, TypeOK
  <2>2. Alive(session, Timer) /\ session \in Session /\ gb = session
    BY <2>1 DEF Lives, TimerRuns, GbIsPresent
  <2> QED BY <2>2 DEF Session, NULL
<1> QED BY <1>1, <1>2, <1>3 DEF Lives

\* A task goes on only if it was running.
LEMMA TaskLives ==
  ASSUME NEW s \in Session, NEW t \in Task, Lives, Runs(s, t) \/ Spurious(s, t)
  PROVE  Lives'
<1>1. t \in Thread /\ t # Timer
  BY DEF Task, Thread, Timer
<1>2. /\ UNCHANGED <<processVars, finish, timerVars>>
      /\ SetUp(s, t) \/ Tests(s, t) \/ Works(s, t) \/ WakesUp(s, t)
  BY DEF Runs, Spurious
<1>a. /\ Alive(s, t)
      /\ failures' \in {failures, failures + 1} /\ failures' \in 0 .. MaxFailures
      /\ exited' \in BOOLEAN
  <2>0. failures \in 0 .. MaxFailures /\ exited \in BOOLEAN
    BY DEF Lives, TypeOK
  <2>1. Alive(s, t)
    BY <1>2 DEF SetUp, Tests, Works, WakesUp, Alive
  <2>2. CASE SetUp(s, t)
    <3>1. failures' \in {failures, failures + 1} /\ failures' \in 0 .. MaxFailures
      BY <2>0, <2>2, BoundAssumption DEF SetUp
    <3>2. exited' \in BOOLEAN
      BY <2>0, <2>2, Zenon DEF SetUp
    <3> QED BY <2>1, <3>1, <3>2
  <2>3. CASE Tests(s, t) \/ Works(s, t) \/ WakesUp(s, t)
    BY <2>0, <2>1, <2>3 DEF Tests, Works, WakesUp
  <2> QED BY <1>2, <2>2, <2>3
<1>b. \/ thread' = thread
      \/ \E st \in {"test", "wait", "woken", "done"} :
           thread' = [thread EXCEPT ![s][t] = st]
  BY <1>2 DEF SetUp, Tests, Works, WakesUp, Becomes
<1>3. TypeOK'
  <2>1. CASE thread' = thread
    BY <2>1, <1>2, <1>a DEF Lives, TypeOK, processVars, timerVars
  <2>2. ASSUME NEW st \in {"test", "wait", "woken", "done"},
               thread' = [thread EXCEPT ![s][t] = st]
        PROVE  TypeOK'
    BY <2>2, <1>1, <1>2, <1>a DEF Lives, TypeOK, processVars, timerVars, Thread
  <2> QED BY <2>1, <2>2, <1>b
<1>4. \A r \in Session, u \in Task : Alive(r, u)' => Alive(r, u)
  <2>1. CASE thread' = thread
    BY <2>1 DEF Alive
  <2>2. ASSUME NEW st \in {"test", "wait", "woken", "done"},
               thread' = [thread EXCEPT ![s][t] = st],
               NEW r \in Session, NEW u \in Task, Alive(r, u)'
        PROVE  Alive(r, u)
    <3>1. CASE r = s /\ u = t
      BY <3>1, <1>a
    <3>2. CASE ~(r = s /\ u = t)
      BY <3>2, <2>2, <1>1 DEF Alive, Lives, TypeOK, Thread
    <3> QED BY <3>1, <3>2
  <2> QED BY <2>1, <2>2, <1>b
<1>5. session \in Session => thread'[session][Timer] = thread[session][Timer]
  BY <1>1, <1>b DEF Lives, TypeOK, Thread
<1>6. failures' >= failures
  BY <1>a DEF Lives, TypeOK
<1> QED BY <1>2, <1>3, <1>4, <1>5, <1>6, ThreadStep DEF Alive

\* The timer wakes who waits, and ends only when gb is NULL.
LEMMA TimerLives ==
  ASSUME NEW s \in Session, Lives, initiate_periodic_tasks(s)
  PROVE  Lives'
<1> USE OrderIs
<1>0. /\ UNCHANGED processVars /\ failures' = failures
      /\ Timer \in Thread /\ Timer \notin Task /\ Task \subseteq Thread
      /\ failures \in Nat
  BY BoundAssumption DEF initiate_periodic_tasks, Timer, Task, Thread, Lives,
     TypeOK
<1>1. CASE TimerTests(s)
  <2>1. TypeOK'
    BY <1>0, <1>1 DEF initiate_periodic_tasks, TimerTests, Becomes, Lives, TypeOK,
       processVars, timerVars
  <2>2. \A r \in Session, u \in Task : Alive(r, u)' => Alive(r, u)
    BY <1>0, <1>1 DEF TimerTests, Becomes, Alive, Lives, TypeOK
  <2>3. session \in Session /\ gb # NULL /\ Alive(session, Timer) =>
          thread'[session][Timer] \notin {"none", "done"}
    BY <1>0, <1>1 DEF TimerTests, Becomes, Beats, Alive, Lives, TypeOK
  <2> QED BY <1>0, <2>1, <2>2, <2>3, ThreadStep
<1>2. CASE Signals(s)
  <2> DEFINE t == SignalOrder[beat[s]]
  <2>1. /\ t \in Task /\ beat[s] \in 1 .. 4
        /\ beat' = [beat EXCEPT ![s] = @ + 1] /\ counter' = counter
    BY <1>2 DEF Signals, Lives, TypeOK
  <2>2. \/ \E r \in Session : /\ thread[r][t] = "wait"
                             /\ thread' = [thread EXCEPT ![r][t] = "woken"]
        \/ thread' = thread
    BY <1>2 DEF Signals, Wakes, Becomes
  <2>3. TypeOK'
    <3>1. beat' \in [Session -> 1 .. Len(SignalOrder) + 1]
      BY <2>1 DEF Lives, TypeOK
    <3>2. /\ thread' \in [Session -> [Thread ->
               {"none", "setup", "test", "wait", "woken", "signal", "done"}]]
          /\ \A r \in Session :
               /\ thread'[r][Timer] \notin {"setup", "wait", "woken"}
               /\ \A u \in Task : thread'[r][u] # "signal"
      <4>1. CASE thread' = thread
        BY <4>1 DEF Lives, TypeOK
      <4>2. ASSUME NEW r \in Session, thread' = [thread EXCEPT ![r][t] = "woken"]
            PROVE  <3>2!:
        BY <4>2, <1>0, <2>1 DEF Lives, TypeOK
      <4> QED BY <4>1, <4>2, <2>2
    <3> QED BY <3>1, <3>2, <2>1, <1>0
            DEF initiate_periodic_tasks, Lives, TypeOK, processVars
  <2>4. \A r \in Session, u \in Task : Alive(r, u)' => Alive(r, u)
    <3>1. CASE thread' = thread
      BY <3>1 DEF Alive
    <3>2. ASSUME NEW q \in Session, thread[q][t] = "wait",
                 thread' = [thread EXCEPT ![q][t] = "woken"],
                 NEW r \in Session, NEW u \in Task, Alive(r, u)'
          PROVE  Alive(r, u)
      <4>1. CASE <<r, u>> = <<q, t>>
        BY <4>1, <3>2 DEF Alive
      <4>2. CASE <<r, u>> # <<q, t>>
        <5>1. thread'[r][u] = thread[r][u]
          BY <3>2, <4>2 DEF Lives, TypeOK
        <5> QED BY <5>1, <3>2 DEF Alive
      <4> QED BY <4>1, <4>2
    <3> QED BY <1>0, <2>2, <3>1, <3>2
  <2>5. session \in Session => thread'[session][Timer] = thread[session][Timer]
    BY <1>0, <2>1, <2>2 DEF Lives, TypeOK
  <2> QED BY <1>0, <2>3, <2>4, <2>5, ThreadStep DEF Alive
<1>3. CASE EndsRound(s)
  <2>1. (counter + 1) % SEND_PROBE_MULTIPLIER \in 0 .. SEND_PROBE_MULTIPLIER - 1
    BY MultiplierAssumption DEF Lives, TypeOK
  <2>2. TypeOK'
    BY <1>0, <1>3, <2>1 DEF initiate_periodic_tasks, EndsRound, Becomes, Lives,
       TypeOK, processVars
  <2>3. \A r \in Session, u \in Task : Alive(r, u)' => Alive(r, u)
    BY <1>0, <1>3 DEF EndsRound, Becomes, Alive, Lives, TypeOK
  <2>4. session \in Session /\ gb # NULL /\ Alive(session, Timer) =>
          thread'[session][Timer] \notin {"none", "done"}
    BY <1>0, <1>3 DEF EndsRound, Becomes, Alive, Lives, TypeOK
  <2> QED BY <1>0, <2>2, <2>3, <2>4, ThreadStep
<1> QED BY <1>1, <1>2, <1>3 DEF initiate_periodic_tasks

\* A step that changes nothing.
LEMMA StutterLives == Lives /\ UNCHANGED vars => Lives'
BY DEF vars, Lives, TypeOK, GbIsPresent, TasksAreAhead, TimerRuns, Alive

-----------------------------------------------------------------------------
\* The invariant holds in every state of every behaviour.
THEOREM Invariance == FairSpec => []Lives
<1>1. Lives /\ [Next]_vars => Lives'
  BY NewLives, StartLives, RunLives, JoinLives, CloseLives, ClearLives,
     FinishLives, TaskLives, TimerLives, StutterLives
     DEF Next, gb_process, Rests
<1> QED BY <1>1, InitLives, PTL DEF FairSpec

\* Type correctness.
THEOREM TypeCorrect == FairSpec => []TypeOK
BY Invariance, PTL DEF Lives

\* No task reaches a session that is not its own, or whose memory was freed.
THEOREM OwnSessions == FairSpec => []TasksSeeTheirSession
<1>1. Lives => TasksSeeTheirSession
  BY DEF Lives, TasksAreAhead, GbIsPresent, TasksSeeTheirSession
<1> QED BY <1>1, Invariance, PTL

\* Whoever is waited for by gb_process has a timer to wake him.
THEOREM JoinsAreTimed == FairSpec => []JoinHasATimer
<1>1. Lives => JoinHasATimer
  BY DEF Lives, TimerRuns, GbIsPresent, JoinHasATimer
<1> QED BY <1>1, Invariance, PTL
=============================================================================
