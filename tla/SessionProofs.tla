---------------------------- MODULE SessionProofs ----------------------------
(***************************************************************************)
(* A session in which the download does not fail and no request times out: *)
(* the player gets the file, and nothing is left of the session afterwards.*)
(* With a periodic thread for join_periodic_tasks to wait for, gb is also  *)
(* that of the request being answered, and no pointer to a freed one is    *)
(* followed; as config.h is, without one, the proxy may fault on gb, but   *)
(* sends nothing wrong.  For a file of any size and any number of requests.*)
(* Sound is the inductive invariant.                                       *)
(*                                                                         *)
(* In any session, with failures, time-outs and downloads that overlap:    *)
(* variables keep their types (Typed is the invariant).  If no request     *)
(* times out, or the player is patient, the buffer file is not removed     *)
(* under a download (OneWriter), also when downloads fail.                 *)
(***************************************************************************)
EXTENDS Session, FiniteSetTheorems, SequenceTheorems, WellFoundedInduction,
        TLAPS

\* Nothing goes wrong on the way.
Quiet == MaxTimeouts = 0 /\ MaxErrors = 0

\* The conditions under which session.cfg checks the properties.
Healthy == Quiet /\ PeriodicThreads

\* The gb_t of a session.
Gb == [memory : {"none", "live", "freed"}, ready : {-1, 0, 1}, run : BOOLEAN,
       finish : BOOLEAN, stalled : BOOLEAN, outfd : Request \cup {NULL},
       inorder_offset : 0 .. Size, last_downloaded_byte : 0 .. Size]

\* The types that the threads of a session change, and the others.
ThreadTypes ==
  /\ handler \in [Request -> {"idle", "lookup", "local", "copy", "wait", "send",
                             "check", "finish", "join", "done"}]
  /\ engine \in [Request -> {"none", "new", "open", "loop", "join", "clear",
                            "done"}]
  /\ session \in [Request -> Gb]
OtherTypes ==
  /\ sent \in [Request -> 0 .. Size]
  /\ played \in [Request -> Seq(Byte \cup {Hole})]
  /\ source \in [Request -> Request \cup {NULL}]
  /\ logger \in [Request -> {"none", "test", "wait", "read", "done"}]
  /\ log_goodput_tid \in Request \cup {NULL}
  /\ gb \in Request \cup {NULL}
  /\ file \in Request \cup {NULL}
  /\ content \in [Request -> SUBSET Byte]
  /\ crashed \in BOOLEAN
  /\ timeouts \in 0 .. MaxTimeouts
  /\ errors \in 0 .. MaxErrors

LEMMA Types == /\ TypeOK <=> ThreadTypes /\ OtherTypes
               /\ TypeOK' <=> ThreadTypes' /\ OtherTypes'
BY DEF TypeOK, ThreadTypes, OtherTypes, Gb

\* The updates of a gb_t.
LEMMA GbUpdates ==
  ASSUME NEW s \in Gb
  PROVE  /\ [s EXCEPT !.run = FALSE, !.finish = TRUE] \in Gb
         /\ [s EXCEPT !.memory = "freed"] \in Gb
BY DEF Gb

\* Requests are answered one after the other.
OneByOne ==
  \A q, r \in Request : q < r /\ handler[r] # "idle" => handler[q] = "done"

\* The proxy's thread and gb_process keep step.
InStep(r) ==
  /\ handler[r] \notin {"local", "copy"}
  /\ handler[r] \in {"idle", "lookup"} => engine[r] = "none"
  /\ handler[r] = "wait" => engine[r] # "none"
  /\ handler[r] \in {"send", "check", "finish", "join"} =>
       engine[r] \in {"loop", "join", "clear", "done"}
  /\ handler[r] = "done" => engine[r] = "done"

\* The periodic thread runs until gb->finish is set, and gb_process waits for
\* it, so that it is not through before its request is.
Joinable(r) ==
  IF PeriodicThreads
  THEN /\ engine[r] \in {"none", "new", "open"} => logger[r] = "none"
       /\ engine[r] \in {"loop", "join"} => logger[r] # "none" /\ log_goodput_tid = r
       /\ engine[r] \in {"clear", "done"} => logger[r] = "done"
       /\ logger[r] = "done" => handler[r] \in {"join", "done"}
  ELSE logger[r] = "none"

\* gb_process has a gb_t.
Busy == {"open", "loop", "join", "clear"}

\* The global pointer, the session and the buffer file of a request.
Owns(r) ==
  /\ engine[r] \in Busy => gb = r
  /\ engine[r] \in Busy \ {"clear"} => session[r].memory = "live"
  /\ engine[r] \in {"loop", "join"} => session[r].outfd = r
  /\ handler[r] \in {"wait", "send", "check", "finish"} /\ engine[r] # "new" =>
       session[r].run /\ ~session[r].finish
  /\ engine[r] \in {"loop", "join", "clear", "done"} /\ handler[r] # "done" =>
       file = r
  /\ engine[r] \in {"none", "new", "open"} => session[r].last_downloaded_byte = 0

\* gb and the buffer file are those of a request being answered.
NoneOther ==
  /\ gb # NULL => engine[gb] \in Busy
  /\ file # NULL => /\ engine[file] \in {"loop", "join", "clear", "done"}
                    /\ handler[file] # "done"

\* What was published is stored, and what was played is the file so far: of
\* what was published, which never shrinks.
Delivered(r) ==
  /\ Len(played[r]) = sent[r]
  /\ \A n \in DOMAIN played[r] : played[r][n] = n - 1
  /\ handler[r] \in {"send", "check"} => source[r] = r
  /\ sent[r] <= session[r].last_downloaded_byte
  /\ session[r].ready = 0 /\ session[r].run =>
       session[r].last_downloaded_byte <= session[r].inorder_offset
  /\ \A b \in Byte : b < session[r].inorder_offset => b \in content[r]
  /\ session[r].ready \in {0, 1}
  /\ session[r].ready = 1 => content[r] = Byte
  /\ session[r].run => \A b \in Byte :
       b < session[r].last_downloaded_byte => b \in content[r]

InOrder(r) == InStep(r) /\ Joinable(r) /\ Owns(r) /\ Delivered(r)

Sound ==
  /\ TypeOK
  /\ OneByOne
  /\ NoneOther
  /\ \A r \in Request : InOrder(r)
  /\ PeriodicThreads => ~crashed
-----------------------------------------------------------------------------
(* Steps of the request being answered                                     *)

\* The request that is answered, or comes next.
Current(r) == /\ handler[r] # "done"
              /\ \A q \in Request : q < r => handler[q] = "done"

\* Requests are numbers.
LEMMA RequestType == \A r \in Request : r \in Int /\ r # NULL
BY BoundAssumption DEF Request, NULL

\* A request that was asked and not answered yet is the current one.
LEMMA BeingAnswered ==
  ASSUME Sound, NEW r \in Request, handler[r] \notin {"idle", "done"}
  PROVE  Current(r)
BY DEF Sound, OneByOne, Current

\* No other request is being answered, and none has a thread.
LEMMA Alone ==
  ASSUME Sound, NEW r \in Request, Current(r), NEW q \in Request \ {r}
  PROVE  /\ handler[q] \in {"idle", "done"}
         /\ engine[q] \in {"none", "done"}
<1>1. q \in Int /\ r \in Int
  BY RequestType
<1>2. q < r \/ r < q
  BY <1>1
<1>3. handler[q] \in {"idle", "done"}
  BY <1>2 DEF Sound, OneByOne, Current
<1> QED
  BY <1>3 DEF Sound, InOrder, InStep

\* gb and the buffer file belong to no other request.
LEMMA OwnOrNone ==
  ASSUME Sound, NEW r \in Request, Current(r)
  PROVE  gb \in {r, NULL} /\ file \in {r, NULL}
<1>1. gb \in Request \cup {NULL} /\ file \in Request \cup {NULL}
  BY DEF Sound, TypeOK
<1>2. gb \in Request \ {r} => FALSE
  <2> SUFFICES ASSUME gb \in Request \ {r} PROVE FALSE
    OBVIOUS
  <2>1. engine[gb] \in {"none", "done"}
    BY Alone
  <2>2. engine[gb] \in Busy
    BY RequestType DEF Sound, NoneOther
  <2> QED
    BY <2>1, <2>2 DEF Busy
<1>3. file \in Request \ {r} => FALSE
  <2> SUFFICES ASSUME file \in Request \ {r} PROVE FALSE
    OBVIOUS
  <2>1. handler[file] \in {"idle", "done"}
    BY Alone
  <2>2. engine[file] # "none" /\ handler[file] # "done"
    BY RequestType DEF Sound, NoneOther
  <2> QED
    BY <2>1, <2>2 DEF Sound, InOrder, InStep
<1> QED
  BY <1>1, <1>2, <1>3

\* A step for the current request leaves the others as they are.
LEMMA OthersStay ==
  ASSUME Sound, NEW r \in Request, Current(r), TypeOK',
         \A q \in Request \ {r} :
           /\ handler'[q] = handler[q] /\ engine'[q] = engine[q]
           /\ logger'[q] = logger[q] /\ session'[q] = session[q]
           /\ played'[q] = played[q] /\ sent'[q] = sent[q]
           /\ source'[q] = source[q] /\ content'[q] = content[q],
         InOrder(r)', NoneOther', PeriodicThreads => ~crashed'
  PROVE  Sound'
<1>1. OneByOne'
  <2> SUFFICES ASSUME NEW p \in Request, NEW q \in Request, p < q,
                      handler'[q] # "idle"
               PROVE  handler'[p] = "done"
    BY DEF OneByOne
  <2>0. p \in Int /\ q \in Int
    BY RequestType
  <2>1. CASE q = r
    BY <2>0, <2>1 DEF Current
  <2>2. CASE q # r
    <3>1. handler[q] # "idle"
      BY <2>2
    <3>2. handler[p] = "done"
      BY <3>1 DEF Sound, OneByOne
    <3> QED
      BY <3>2 DEF Current
  <2> QED
    BY <2>1, <2>2
<1>2. ASSUME NEW q \in Request \ {r} PROVE InOrder(q)'
  <2>1. /\ handler[q] \in {"idle", "done"}
        /\ engine[q] \in {"none", "done"}
    BY Alone
  <2>2. InOrder(q)
    BY DEF Sound
  <2>3. InStep(q)'
    BY <2>2 DEF InOrder, InStep
  <2>4. Joinable(q)'
    BY <2>1, <2>2 DEF InOrder, Joinable
  <2>5. Owns(q)'
    BY <2>1, <2>2 DEF InOrder, InStep, Owns, Busy
  <2>6. Delivered(q)'
    BY <2>2 DEF InOrder, Delivered
  <2> QED
    BY <2>3, <2>4, <2>5, <2>6 DEF InOrder
<1> QED
  BY <1>1, <1>2 DEF Sound

\* A fault stops the process and changes nothing else.
LEMMA CrashSound ==
  ASSUME Sound, ~PeriodicThreads, crashed' = TRUE,
         UNCHANGED <<handler, sent, played, source, engine, logger,
                     log_goodput_tid, gb, session, file, content, timeouts, errors>>
  PROVE  Sound'
<1>1. TypeOK' /\ OneByOne' /\ NoneOther'
  BY DEF Sound, TypeOK, OneByOne, NoneOther
<1>2. \A r \in Request : InOrder(r)'
  BY DEF Sound, InOrder, InStep, Joinable, Owns, Delivered, Busy
<1> QED
  BY <1>1, <1>2 DEF Sound
-----------------------------------------------------------------------------
(* The proxy                                                               *)

\* The player asks when everything before was answered.
LEMMA PlayerAsksSound ==
  ASSUME Sound, NEW r \in Request, PlayerAsks(r)
  PROVE  Sound'
<1>1. Current(r)
  BY DEF PlayerAsks, Current
<1>2. /\ handler' = [handler EXCEPT ![r] = "lookup"]
      /\ UNCHANGED <<sent, played, source, engine, logger, log_goodput_tid, gb,
                     session, file, content, crashed, timeouts, errors>>
      /\ handler[r] = "idle"
  BY DEF PlayerAsks, playVars, downloadVars, diskVars, countVars
<1>3. TypeOK'
  BY <1>2 DEF Sound, TypeOK
<1>4. handler'[r] = "lookup" /\ engine[r] = "none" /\ InOrder(r)
  BY <1>2 DEF Sound, TypeOK, InOrder, InStep
<1>5. InOrder(r)'
  BY <1>2, <1>4 DEF InOrder, InStep, Joinable, Owns, Delivered, Busy
<1>6. NoneOther'
  BY <1>1, <1>2, <1>4, OwnOrNone DEF Sound, NoneOther
<1>7. \A q \in Request \ {r} : handler'[q] = handler[q]
  BY <1>2 DEF Sound, TypeOK
<1> QED
  BY <1>1, <1>2, <1>3, <1>5, <1>6, <1>7, OthersStay DEF Sound

\* There is no buffer file that an earlier request left behind, so that the
\* request starts a download.
LEMMA LookupSound ==
  ASSUME Sound, NEW r \in Request, Lookup(r)
  PROVE  Sound'
<1>0. handler[r] = "lookup" /\ engine[r] = "none" /\ InOrder(r)
  BY DEF Lookup, Sound, InOrder, InStep
<1>1. Current(r)
  BY <1>0, BeingAnswered
<1>2. file = NULL /\ gb = NULL
  BY <1>0, <1>1, OwnOrNone DEF Sound, NoneOther, Busy
<1>3. /\ handler' = [handler EXCEPT ![r] = "wait"]
      /\ engine' = [engine EXCEPT ![r] = "new"]
      /\ UNCHANGED <<sent, played, source, logger, log_goodput_tid, gb,
                     session, file, content, crashed, timeouts, errors>>
  BY <1>2 DEF Lookup, playVars, diskVars, countVars
<1>4. TypeOK'
  BY <1>3 DEF Sound, TypeOK
<1>5. handler'[r] = "wait" /\ engine'[r] = "new"
  BY <1>3 DEF Sound, TypeOK
<1>6. InOrder(r)'
  BY <1>0, <1>3, <1>5 DEF InOrder, InStep, Joinable, Owns, Delivered, Busy
<1>7. NoneOther'
  BY <1>2, <1>3 DEF NoneOther
<1>8. \A q \in Request \ {r} : handler'[q] = handler[q] /\ engine'[q] = engine[q]
  BY <1>3 DEF Sound, TypeOK
<1> QED
  BY <1>1, <1>3, <1>4, <1>6, <1>7, <1>8, OthersStay DEF Sound

\* A request that has a download does not look at a local file.
LEMMA NoLocal ==
  ASSUME Sound, NEW r \in Request, SendLocal(r)
  PROVE  FALSE
BY DEF SendLocal, Sound, InOrder, InStep

\* Once data was published there is a buffer file, and it is that of the
\* request; if a periodic thread is joined, gb is not freed while it waits.
LEMMA WaitSound ==
  ASSUME Sound, Quiet, NEW r \in Request, Wait(r)
  PROVE  Sound'
<1>0. handler[r] = "wait" /\ InOrder(r)
  BY DEF Wait, Sound
<1>1. Current(r)
  BY <1>0, BeingAnswered
<1>2. gb \in {r, NULL} /\ file \in {r, NULL}
  BY <1>1, OwnOrNone
<1>3. gb = r => engine[r] \in Busy
  BY RequestType DEF Sound, NoneOther
<1>4. PeriodicThreads /\ gb = r => session[r].memory = "live"
  BY <1>0, <1>3 DEF InOrder, Joinable, Owns, Busy
<1>5. ~(timeouts < MaxTimeouts)
  BY DEF Sound, TypeOK, Quiet
<1>6. DataDownloaded => gb = r /\ file = r /\ engine[r] \in {"loop", "join", "clear"}
  <2> SUFFICES ASSUME DataDownloaded
               PROVE  gb = r /\ file = r /\ engine[r] \in {"loop", "join", "clear"}
    OBVIOUS
  <2>1. gb = r /\ session[r].last_downloaded_byte > 0
    BY <1>2 DEF DataDownloaded
  <2>2. session[r].last_downloaded_byte # 0
    BY <2>1
  <2>3. engine[r] \in {"loop", "join", "clear"}
    BY <1>0, <1>3, <2>1, <2>2 DEF InOrder, Owns, Busy
  <2> QED
    BY <1>0, <2>1, <2>3 DEF InOrder, Owns
<1>7. CASE gb # NULL /\ Crashes /\ UNCHANGED <<handler, playVars, timeouts>>
  <2>1. ~PeriodicThreads
    BY <1>2, <1>4, <1>7 DEF Crashes, Faults
  <2>2. UNCHANGED <<handler, sent, played, source, engine, logger, log_goodput_tid,
                    gb, session, file, content, timeouts, errors>>
    BY <1>7 DEF Wait, playVars, downloadVars, diskVars
  <2> QED
    BY <1>7, <2>1, <2>2, CrashSound DEF Crashes
<1>8. CASE DataDownloaded /\ handler' = [handler EXCEPT ![r] = "send"]
  <2>1. /\ source' = [source EXCEPT ![r] = r]
        /\ UNCHANGED <<sent, played, engine, logger, log_goodput_tid, gb, session,
                       file, content, crashed, timeouts, errors>>
    <3>1. handler'[r] # handler[r]
      BY <1>0, <1>8 DEF Sound, TypeOK
    <3> QED
      BY <1>5, <1>6, <1>8, <3>1, RequestType DEF Wait, downloadVars, diskVars, playVars
  <2>2. TypeOK'
    BY <1>8, <2>1 DEF Sound, TypeOK
  <2>3. handler'[r] = "send" /\ source'[r] = r
    BY <1>8, <2>1 DEF Sound, TypeOK
  <2>4. InOrder(r)'
    BY <1>0, <1>6, <1>8, <2>1, <2>3
       DEF InOrder, InStep, Joinable, Owns, Delivered, Busy
  <2>5. NoneOther'
    BY <1>6, <1>8, <2>1, <2>3 DEF Sound, NoneOther
  <2>6. \A q \in Request \ {r} : handler'[q] = handler[q] /\ source'[q] = source[q]
    BY <1>8, <2>1 DEF Sound, TypeOK
  <2> QED
    BY <1>1, <2>1, <2>2, <2>4, <2>5, <2>6, OthersStay DEF Sound
<1>9. \/ gb # NULL /\ Crashes /\ UNCHANGED <<handler, playVars, timeouts>>
      \/ DataDownloaded /\ handler' = [handler EXCEPT ![r] = "send"]
  BY <1>5, <1>6, RequestType DEF Wait
<1> QED
  BY <1>7, <1>8, <1>9
-----------------------------------------------------------------------------
(* Sending                                                                 *)

\* Every non-empty set of naturals has a least element.
LEMMA LeastNat ==
  ASSUME NEW S, S \subseteq Nat, S # {}
  PROVE  \E m \in S : \A b \in S : m <= b
<1> DEFINE I == {0 .. n : n \in S}
           R == StrictSubsetOrdering(Nat)
<1>1. I \subseteq FiniteSubsetsOf(Nat) /\ I # {}
  <2>1. \A n \in S : 0 .. n \subseteq Nat /\ IsFiniteSet(0 .. n)
    BY FS_Interval
  <2> QED
    BY <2>1 DEF FiniteSubsetsOf
<1>2. \E x \in I : \A y \in I : <<y, x>> \notin R
  <2>1. IsWellFoundedOn(R, FiniteSubsetsOf(Nat))
    BY FS_StrictSubsetOrderingWellFounded
  <2> HIDE DEF I, R
  <2> QED
    BY <1>1, <2>1, WFMin
<1>3. PICK m \in S : \A b \in S : <<0 .. b, 0 .. m>> \notin R
  BY <1>2
<1>4. ASSUME NEW b \in S, b < m PROVE FALSE
  <2>1. 0 .. b \subseteq 0 .. m /\ 0 .. b # 0 .. m
    BY <1>4
  <2>2. 0 .. b \in FiniteSubsetsOf(Nat) /\ 0 .. m \in FiniteSubsetsOf(Nat)
    BY <1>1
  <2> QED
    BY <2>1, <2>2, <1>3 DEF StrictSubsetOrdering, FiniteSubsetsOf
<1> QED
  BY <1>4

\* The buffer file has a length, which is not more than that of the file.
LEMMA EndOfType ==
  ASSUME TypeOK, NEW f \in Request
  PROVE  EndOf(f) \in Int /\ EndOf(f) <= Size
<1> DEFINE S == content[f]
           D == {Size - 1 - b : b \in S}
<1>1. S \subseteq Byte
  BY DEF TypeOK
<1>2. Size \in Int /\ \A b \in S : b \in Int /\ 0 <= b /\ b <= Size - 1
  BY <1>1, SizeAssumption DEF Byte
<1>3. CASE S = {}
  BY <1>2, <1>3, SizeAssumption DEF EndOf
<1>4. CASE S # {}
  <2>1. D \subseteq Nat /\ D # {}
    <3>1. \A b \in S : Size - 1 - b \in Nat
      BY <1>2
    <3> QED
      BY <1>4, <3>1
  <2>2. PICK d \in D : \A u \in D : d <= u
    <3> HIDE DEF D
    <3> QED
      BY <2>1, LeastNat
  <2>3. PICK m \in S : d = Size - 1 - m
    BY <2>2
  <2>4. \A b \in S : Size - 1 - m <= Size - 1 - b
    BY <2>2, <2>3
  <2>5. \A b \in S : b <= m
    BY <1>2, <2>4
  <2>6. (CHOOSE b \in S : \A a \in S : a <= b) \in S
    BY <2>5
  <2> QED
    BY <1>2, <1>4, <2>6 DEF EndOf
<1> QED
  BY <1>3, <1>4

\* A send reads n bytes that were published, and appends them to what the
\* player got: they are those that come next.
LEMMA PlaysOn ==
  ASSUME Sound, NEW r \in Request, NEW n \in Int, 0 < n,
         sent[r] + n <= session[r].last_downloaded_byte,
         source[r] = r, session[r].run, Plays(r, n)
  PROVE  /\ sent' \in [Request -> 0 .. Size]
         /\ played' \in [Request -> Seq(Byte \cup {Hole})]
         /\ Len(played'[r]) = sent'[r] /\ sent'[r] = sent[r] + n
         /\ \A k \in DOMAIN played'[r] : played'[r][k] = k - 1
         /\ \A q \in Request \ {r} : sent'[q] = sent[q] /\ played'[q] = played[q]
         /\ source' = source
<1> DEFINE p == played[r]
           S == Slice(r, sent[r], n)
           E == Byte \cup {Hole}
           L == session[r].last_downloaded_byte
<1>1. /\ played \in [Request -> Seq(E)]
      /\ sent \in [Request -> 0 .. Size]
      /\ sent[r] \in Int /\ 0 <= sent[r]
      /\ L \in Int /\ L <= Size /\ Size \in Int
  <2>1. played \in [Request -> Seq(E)] /\ sent \in [Request -> 0 .. Size]
    BY DEF Sound, TypeOK
  <2>2. L \in 0 .. Size
    BY DEF Sound, TypeOK
  <2> QED
    BY <2>1, <2>2, SizeAssumption
<1>2. /\ Len(p) = sent[r]
      /\ \A k \in DOMAIN p : p[k] = k - 1
      /\ \A b \in Byte : b < L => b \in content[r]
  BY DEF Sound, InOrder, Delivered
<1>3. ASSUME NEW k \in 1 .. n
      PROVE  sent[r] + k - 1 \in content[r] /\ sent[r] + k - 1 \in Byte
  <2>1. sent[r] + k - 1 \in Byte /\ sent[r] + k - 1 < L
    BY <1>1 DEF Byte
  <2> QED
    BY <1>2, <2>1
<1>4. S = [k \in 1 .. n |-> sent[r] + k - 1]
  BY <1>3 DEF Slice
<1>5. S \in Seq(E) /\ Len(S) = n
  <2>1. n \in Nat
    OBVIOUS
  <2>2. \A k \in 1 .. n : sent[r] + k - 1 \in E
    BY <1>3
  <2>3. S \in [1 .. n -> E]
    BY <1>4, <2>2
  <2> QED
    BY <2>1, <2>3, IsASeq, LenProperties
<1>6. \A k \in 1 .. n : S[k] = sent[r] + k - 1
  BY <1>4
<1> HIDE DEF S, E
<1>7. p \in Seq(E)
  BY <1>1
<1>8. /\ p \o S \in Seq(E)
      /\ Len(p \o S) = sent[r] + n
      /\ \A k \in 1 .. sent[r] + n :
           (p \o S)[k] = IF k <= sent[r] THEN p[k] ELSE S[k - sent[r]]
  <2>1. Len(p) = sent[r] /\ Len(S) = n
    BY <1>2, <1>5
  <2> HIDE DEF p
  <2>2. /\ p \o S \in Seq(E)
        /\ Len(p \o S) = Len(p) + Len(S)
        /\ \A k \in 1 .. Len(p) + Len(S) :
             (p \o S)[k] = IF k <= Len(p) THEN p[k] ELSE S[k - Len(p)]
    BY <1>5, <1>7, ConcatProperties
  <2> QED
    BY <2>1, <2>2
<1>9. \A k \in 1 .. sent[r] : k \in DOMAIN p
  BY <1>2, <1>7, LenProperties
<1>10. ASSUME NEW k \in 1 .. sent[r] + n PROVE (p \o S)[k] = k - 1
  <2>1. CASE k <= sent[r]
    <3>1. k \in 1 .. sent[r]
      BY <1>1, <2>1
    <3> QED
      BY <1>2, <1>8, <1>9, <2>1, <3>1
  <2>2. CASE ~(k <= sent[r])
    <3>1. k - sent[r] \in 1 .. n
      BY <1>1, <2>2
    <3>2. S[k - sent[r]] = sent[r] + (k - sent[r]) - 1
      BY <1>6, <3>1
    <3>3. (p \o S)[k] = S[k - sent[r]]
      BY <1>8, <2>2
    <3> QED
      BY <1>1, <3>2, <3>3
  <2> QED
    BY <2>1, <2>2
<1>11. /\ played' = [played EXCEPT ![r] = p \o S]
       /\ sent' = [sent EXCEPT ![r] = sent[r] + n]
       /\ source' = source
  BY DEF Plays, S
<1>12. sent' \in [Request -> 0 .. Size]
  BY <1>1, <1>11
<1>13. played' \in [Request -> Seq(E)]
  BY <1>1, <1>8, <1>11
<1>14. played'[r] = p \o S /\ sent'[r] = sent[r] + n
  BY <1>1, <1>11
<1>15. \A q \in Request \ {r} : sent'[q] = sent[q] /\ played'[q] = played[q]
  BY <1>1, <1>11
<1>16. DOMAIN played'[r] = 1 .. sent[r] + n
  BY <1>8, <1>14, LenProperties
<1> QED
  BY <1>8, <1>10, <1>11, <1>12, <1>13, <1>14, <1>15, <1>16 DEF E

\* While send_remote_file sends, gb is its own session or NULL; its session is
\* not freed if a periodic thread is joined.
LEMMA SendsOwn ==
  ASSUME Sound, NEW r \in Request, handler[r] \in {"send", "check", "finish"}
  PROVE  /\ Current(r) /\ InOrder(r)
         /\ engine[r] \in {"loop", "join", "clear", "done"}
         /\ gb \in {r, NULL} /\ file = r
         /\ gb = r <=> engine[r] # "done"
         /\ session[r].run /\ ~session[r].finish
         /\ PeriodicThreads => /\ gb = r /\ session[r].memory = "live"
                               /\ ~Crashes
<1>1. Current(r) /\ InOrder(r)
  BY BeingAnswered DEF Sound
<1>2. engine[r] \in {"loop", "join", "clear", "done"}
  BY <1>1 DEF InOrder, InStep
<1>3. file = r /\ session[r].run /\ ~session[r].finish
  BY <1>1, <1>2 DEF InOrder, Owns, Busy
<1>4. gb \in {r, NULL}
  BY <1>1, OwnOrNone
<1>5. gb = r <=> engine[r] # "done"
  <2>1. engine[r] # "done" => gb = r
    BY <1>1, <1>2 DEF InOrder, Owns, Busy
  <2>2. gb = r => engine[r] # "done"
    BY RequestType DEF Sound, NoneOther, Busy
  <2> QED
    BY <2>1, <2>2
<1>6. ASSUME PeriodicThreads
      PROVE  gb = r /\ session[r].memory = "live" /\ ~Crashes
  <2>1. engine[r] \in {"loop", "join"}
    BY <1>1, <1>2, <1>6 DEF InOrder, Joinable
  <2>2. gb = r /\ session[r].memory = "live"
    BY <1>1, <2>1 DEF InOrder, Owns, Busy
  <2> QED
    BY <2>2, RequestType DEF Crashes, Faults
<1> QED
  BY <1>1, <1>2, <1>3, <1>4, <1>5, <1>6

\* The loop of send_remote_file sends published bytes only.
LEMMA SendSound ==
  ASSUME Sound, NEW r \in Request, Send(r)
  PROVE  Sound'
<1> DEFINE L == session[r].last_downloaded_byte
           n == Least(SendSize, Least(SendLimit(r), EndOf(source[r])) - sent[r])
<1>0. handler[r] = "send"
  BY DEF Send
<1>1. /\ Current(r) /\ InOrder(r)
      /\ engine[r] \in {"loop", "join", "clear", "done"}
      /\ gb \in {r, NULL} /\ file = r
      /\ session[r].run /\ ~session[r].finish
      /\ PeriodicThreads => ~Crashes
  BY <1>0, SendsOwn
<1>2. source[r] = r
  BY <1>0, <1>1 DEF InOrder, Delivered
<1>3. TypeOK
  BY DEF Sound
<1>4. gb = r => n \in Int /\ sent[r] + n <= L
  <2> SUFFICES ASSUME gb = r PROVE n \in Int /\ sent[r] + n <= L
    OBVIOUS
  <2>1. EndOf(source[r]) \in Int
    BY <1>2, <1>3, EndOfType
  <2>2. L \in Int /\ sent[r] \in Int /\ SendSize \in Int
    BY <1>3, SendAssumption DEF TypeOK
  <2>3. Least(SendLimit(r), EndOf(source[r])) \in Int
        /\ Least(SendLimit(r), EndOf(source[r])) <= L
    BY <2>1, <2>2 DEF SendLimit, Least
  <2> QED
    BY <2>2, <2>3 DEF Least
<1>5. /\ UNCHANGED <<engine, logger, log_goodput_tid, gb, session, file,
                     content, timeouts, errors>>
      /\ \/ Crashes /\ UNCHANGED <<handler, sent, played, source>>
         \/ /\ gb # NULL /\ crashed' = crashed /\ n > 0 /\ Plays(r, n)
            /\ handler' = [handler EXCEPT ![r] = "check"]
         \/ /\ gb # NULL /\ crashed' = crashed
            /\ \E h \in {"check", "finish"} : handler' = [handler EXCEPT ![r] = h]
            /\ UNCHANGED <<sent, played, source>>
  BY DEF Send, downloadVars, diskVars, playVars
<1>10. CASE Crashes /\ UNCHANGED <<handler, sent, played, source>>
  BY <1>1, <1>5, <1>10, CrashSound DEF Crashes
<1> HIDE DEF n, L
<1>6. CASE /\ gb # NULL /\ crashed' = crashed /\ n > 0 /\ Plays(r, n)
           /\ handler' = [handler EXCEPT ![r] = "check"]
  <2>1. n \in Int /\ 0 < n /\ sent[r] + n <= session[r].last_downloaded_byte
    BY <1>1, <1>4, <1>6 DEF L
  <2>2. /\ sent' \in [Request -> 0 .. Size]
        /\ played' \in [Request -> Seq(Byte \cup {Hole})]
        /\ Len(played'[r]) = sent'[r] /\ sent'[r] = sent[r] + n
        /\ \A k \in DOMAIN played'[r] : played'[r][k] = k - 1
        /\ \A q \in Request \ {r} : sent'[q] = sent[q] /\ played'[q] = played[q]
        /\ source' = source
    BY <1>1, <1>2, <1>6, <2>1, PlaysOn
  <2>3. TypeOK'
    BY <1>3, <1>5, <1>6, <2>2 DEF TypeOK
  <2>4. handler'[r] = "check" /\ \A q \in Request \ {r} : handler'[q] = handler[q]
    BY <1>3, <1>6 DEF TypeOK
  <2>5. InOrder(r)'
    BY <1>0, <1>1, <1>2, <1>5, <1>6, <2>1, <2>2, <2>4
       DEF InOrder, InStep, Joinable, Owns, Delivered, Busy
  <2>6. NoneOther'
    BY <1>1, <1>5, <1>6, <2>4 DEF Sound, NoneOther, Busy
  <2> QED
    BY <1>1, <1>5, <1>6, <2>2, <2>3, <2>4, <2>5, <2>6, OthersStay DEF Sound
<1>7. CASE /\ gb # NULL /\ crashed' = crashed
           /\ \E h \in {"check", "finish"} : handler' = [handler EXCEPT ![r] = h]
           /\ UNCHANGED <<sent, played, source>>
  <2>1. TypeOK'
    BY <1>3, <1>5, <1>7 DEF TypeOK
  <2>2. handler'[r] \in {"check", "finish"} /\ \A q \in Request \ {r} : handler'[q] = handler[q]
    BY <1>3, <1>7 DEF TypeOK
  <2>3. InOrder(r)'
    BY <1>0, <1>1, <1>5, <1>7, <2>2
       DEF InOrder, InStep, Joinable, Owns, Delivered, Busy
  <2>4. NoneOther'
    BY <1>1, <1>5, <2>2 DEF Sound, NoneOther, Busy
  <2> QED
    BY <1>1, <1>5, <1>7, <2>1, <2>2, <2>3, <2>4, OthersStay DEF Sound
<1> QED
  BY <1>5, <1>6, <1>7, <1>10

\* The assertion of send_remote_file holds: what is published never shrinks.
LEMMA CheckSound ==
  ASSUME Sound, NEW r \in Request, Check(r)
  PROVE  Sound'
<1>0. handler[r] = "check" /\ TypeOK
  BY DEF Check, Sound
<1>1. /\ Current(r) /\ InOrder(r)
      /\ engine[r] \in {"loop", "join", "clear", "done"}
      /\ gb \in {r, NULL} /\ file = r
      /\ PeriodicThreads => ~Crashes
  BY <1>0, SendsOwn
<1>2. sent[r] <= session[r].last_downloaded_byte
  BY <1>1 DEF InOrder, Delivered
<1>3. UNCHANGED <<sent, played, source, engine, logger, log_goodput_tid, gb,
                  session, file, content, timeouts, errors>>
  BY DEF Check, playVars, downloadVars, diskVars
<1>4. CASE Crashes /\ UNCHANGED handler
  BY <1>1, <1>3, <1>4, CrashSound DEF Crashes
<1>5. CASE ~(Crashes /\ UNCHANGED handler)
  <2>1. handler' = [handler EXCEPT ![r] = "send"] /\ crashed' = crashed
    BY <1>1, <1>2, <1>5 DEF Check
  <2>2. TypeOK'
    BY <1>0, <1>3, <2>1 DEF TypeOK
  <2>3. handler'[r] = "send" /\ \A q \in Request \ {r} : handler'[q] = handler[q]
    BY <1>0, <2>1 DEF TypeOK
  <2>4. InOrder(r)'
    BY <1>0, <1>1, <1>3, <2>3
       DEF InOrder, InStep, Joinable, Owns, Delivered, Busy
  <2>5. NoneOther'
    BY <1>1, <1>3, <2>3 DEF Sound, NoneOther, Busy
  <2> QED
    BY <1>1, <1>3, <2>1, <2>2, <2>3, <2>4, <2>5, OthersStay DEF Sound
<1> QED
  BY <1>4, <1>5

\* The session that send_remote_file stops is its own.
LEMMA FinishSound ==
  ASSUME Sound, NEW r \in Request, Finish(r)
  PROVE  Sound'
<1>0. handler[r] = "finish"
  BY DEF Finish
<1>1. /\ Current(r) /\ InOrder(r)
      /\ engine[r] \in {"loop", "join", "clear", "done"}
      /\ gb \in {r, NULL} /\ file = r
      /\ PeriodicThreads => ~Crashes
  BY <1>0, SendsOwn
<1>8. CASE Crashes /\ UNCHANGED <<handler, session>>
  <2>1. UNCHANGED <<handler, sent, played, source, engine, logger, log_goodput_tid,
                    gb, session, file, content, timeouts, errors>>
    BY <1>8 DEF Finish, playVars, diskVars
  <2> QED
    BY <1>1, <1>8, <2>1, CrashSound DEF Crashes
<1> SUFFICES ASSUME ~(Crashes /\ UNCHANGED <<handler, session>>) PROVE Sound'
  BY <1>8
<1>2. /\ session' = [session EXCEPT ![r].run = FALSE, ![r].finish = TRUE]
      /\ handler' = [handler EXCEPT ![r] = "join"]
      /\ UNCHANGED <<sent, played, source, engine, logger, log_goodput_tid, gb,
                     file, content, crashed, timeouts, errors>>
  BY <1>1 DEF Finish, playVars, diskVars
<1>3. TypeOK'
  <2>1. ThreadTypes /\ OtherTypes
    BY Types DEF Sound
  <2>2. OtherTypes'
    BY <1>2, <2>1 DEF OtherTypes
  <2>3. session' = [session EXCEPT
                      ![r] = [session[r] EXCEPT !.run = FALSE, !.finish = TRUE]]
    BY <1>2, <2>1 DEF ThreadTypes
  <2>4. ThreadTypes'
    <3> DEFINE s == [session[r] EXCEPT !.run = FALSE, !.finish = TRUE]
    <3>1. s \in Gb
      BY <2>1, GbUpdates DEF ThreadTypes
    <3>2. session' = [session EXCEPT ![r] = s]
      BY <2>3
    <3> HIDE DEF s
    <3> QED
      BY <1>2, <2>1, <3>1, <3>2 DEF ThreadTypes
  <2> QED
    BY <2>2, <2>4, Types
<1>4. /\ handler'[r] = "join"
      /\ session'[r] = [session[r] EXCEPT !.run = FALSE, !.finish = TRUE]
      /\ \A q \in Request \ {r} : /\ handler'[q] = handler[q]
                                  /\ session'[q] = session[q]
  BY <1>2 DEF Sound, TypeOK
<1>5. /\ session'[r].memory = session[r].memory
      /\ session'[r].ready = session[r].ready
      /\ session'[r].outfd = session[r].outfd
      /\ session'[r].inorder_offset = session[r].inorder_offset
      /\ session'[r].last_downloaded_byte = session[r].last_downloaded_byte
      /\ session'[r].run = FALSE
  BY <1>4 DEF Sound, TypeOK
<1>6. InOrder(r)'
  BY <1>0, <1>1, <1>2, <1>4, <1>5
     DEF InOrder, InStep, Joinable, Owns, Delivered, Busy
<1>7. NoneOther'
  BY <1>1, <1>2, <1>4 DEF Sound, NoneOther, Busy
<1> QED
  BY <1>1, <1>2, <1>3, <1>4, <1>6, <1>7, OthersStay DEF Sound

\* The buffer file goes with the request.
LEMMA UnlinkSound ==
  ASSUME Sound, NEW r \in Request, Unlink(r)
  PROVE  Sound'
<1>0. handler[r] = "join" /\ engine[r] = "done" /\ InOrder(r)
  BY DEF Unlink, Joined, Sound
<1>1. Current(r)
  BY <1>0, BeingAnswered
<1>2. gb = NULL
  BY <1>0, <1>1, OwnOrNone DEF Sound, NoneOther, Busy
<1>3. /\ handler' = [handler EXCEPT ![r] = "done"]
      /\ file' = NULL
      /\ UNCHANGED <<sent, played, source, engine, logger, log_goodput_tid, gb,
                     session, content, crashed, timeouts, errors>>
  BY DEF Unlink, playVars, downloadVars, countVars
<1>4. TypeOK'
  BY <1>3 DEF Sound, TypeOK
<1>5. handler'[r] = "done" /\ \A q \in Request \ {r} : handler'[q] = handler[q]
  BY <1>3 DEF Sound, TypeOK
<1>6. InOrder(r)'
  BY <1>0, <1>3, <1>5 DEF InOrder, InStep, Joinable, Owns, Delivered, Busy
<1>7. NoneOther'
  BY <1>2, <1>3 DEF NoneOther
<1> QED
  BY <1>1, <1>3, <1>4, <1>5, <1>6, <1>7, OthersStay DEF Sound
-----------------------------------------------------------------------------
(* gb_process                                                              *)

\* What gb_new leaves in a gb_t.
LEMMA FreshGb ==
  /\ Fresh \in Gb
  /\ Fresh.memory = "live" /\ Fresh.run = TRUE /\ Fresh.finish = FALSE
  /\ Fresh.ready = 0 /\ Fresh.inorder_offset = 0
  /\ Fresh.last_downloaded_byte = 0
<1>1. /\ Unallocated \in Gb
      /\ Unallocated.finish = FALSE /\ Unallocated.ready = 0
      /\ Unallocated.inorder_offset = 0 /\ Unallocated.last_downloaded_byte = 0
  BY SizeAssumption DEF Unallocated, Gb
<1> QED
  BY <1>1 DEF Fresh, Gb

\* gb_new makes a session of a request that waits.
LEMMA NewSound ==
  ASSUME Sound, NEW r \in Request, New(r)
  PROVE  Sound'
<1>0. engine[r] = "new" /\ handler[r] = "wait" /\ InOrder(r)
  BY DEF New, Sound, TypeOK, InOrder, InStep
<1>1. Current(r)
  BY <1>0, BeingAnswered
<1>3. /\ session' = [session EXCEPT ![r] = Fresh]
      /\ gb' = r
      /\ engine' = [engine EXCEPT ![r] = "open"]
      /\ UNCHANGED <<handler, sent, played, source, logger, log_goodput_tid,
                     file, content, crashed, timeouts, errors>>
  BY DEF New, playVars, diskVars, countVars
<1>4. /\ Fresh \in Gb
      /\ Fresh.memory = "live" /\ Fresh.run = TRUE /\ Fresh.finish = FALSE
      /\ Fresh.ready = 0 /\ Fresh.inorder_offset = 0
      /\ Fresh.last_downloaded_byte = 0
  BY FreshGb
<1>5. TypeOK'
  BY <1>3, <1>4 DEF Sound, TypeOK, Gb
<1>6. /\ engine'[r] = "open" /\ session'[r] = Fresh
      /\ \A q \in Request \ {r} : /\ engine'[q] = engine[q]
                                  /\ session'[q] = session[q]
  BY <1>3 DEF Sound, TypeOK
<1>7. \A b \in Byte : ~(b < 0)
  BY SizeAssumption DEF Byte
<1>8. InOrder(r)'
  BY <1>0, <1>3, <1>4, <1>6, <1>7
     DEF InOrder, InStep, Joinable, Owns, Delivered, Busy
<1>9. file = NULL
  BY <1>0, <1>1, OwnOrNone, RequestType DEF Sound, NoneOther
<1>10. NoneOther'
  BY <1>3, <1>6, <1>9 DEF NoneOther, Busy
<1> QED
  BY <1>1, <1>3, <1>5, <1>6, <1>8, <1>10, OthersStay DEF Sound

\* Without errors gb_new succeeds.
LEMMA NewFailsNot ==
  ASSUME Sound, Quiet, NEW r \in Request PROVE ~NewFails(r)
BY DEF NewFails, Quiet, Sound, TypeOK

\* The buffer file is created, and the periodic thread started.
LEMMA OpenSound ==
  ASSUME Sound, Quiet, NEW r \in Request, Open(r)
  PROVE  Sound'
<1>0. engine[r] = "open" /\ handler[r] = "wait" /\ InOrder(r)
  BY DEF Open, Sound, TypeOK, InOrder, InStep
<1>1. Current(r)
  BY <1>0, BeingAnswered
<1>2. ~(errors < MaxErrors)
  BY DEF Quiet, Sound, TypeOK
<1>9. gb = r /\ session[r].memory = "live" /\ file = NULL /\ gb # NULL
  BY <1>0, <1>1, OwnOrNone, RequestType DEF InOrder, Owns, Busy, Sound, NoneOther
<1>3. /\ file' = r
      /\ session' = [session EXCEPT ![r].outfd = r]
      /\ logger' = [logger EXCEPT ![r] = IF PeriodicThreads THEN "test" ELSE @]
      /\ log_goodput_tid' = IF PeriodicThreads THEN r ELSE log_goodput_tid
      /\ engine' = [engine EXCEPT ![r] = "loop"]
      /\ UNCHANGED <<handler, sent, played, source, gb, content,
                     crashed, timeouts, errors>>
  BY <1>2, <1>9 DEF Open, Crashes, Faults, playVars
<1>10. /\ session' \in [Request -> Gb]
       /\ session'[r] = [session[r] EXCEPT !.outfd = r]
       /\ \A q \in Request \ {r} : session'[q] = session[q]
  <2> DEFINE s == [session[r] EXCEPT !.outfd = r]
  <2>1. session \in [Request -> Gb]
    BY DEF Sound, TypeOK, Gb
  <2>2. s \in Gb /\ session' = [session EXCEPT ![r] = s]
    BY <1>3, <2>1 DEF Gb
  <2> HIDE DEF s
  <2>3. /\ session' \in [Request -> Gb] /\ session'[r] = s
        /\ \A q \in Request \ {r} : session'[q] = session[q]
    BY <2>1, <2>2
  <2> QED
    BY <2>3 DEF s
<1>11. /\ session'[r].outfd = r
       /\ session'[r].memory = session[r].memory /\ session'[r].run = session[r].run
       /\ session'[r].finish = session[r].finish
       /\ session'[r].ready = session[r].ready
       /\ session'[r].inorder_offset = session[r].inorder_offset
       /\ session'[r].last_downloaded_byte = session[r].last_downloaded_byte
  <2>1. session[r] \in Gb
    BY DEF Sound, TypeOK, Gb
  <2> QED
    BY <1>10, <2>1 DEF Gb
<1>4. TypeOK'
  BY <1>3, <1>10 DEF Sound, TypeOK, Gb
<1>5. /\ engine'[r] = "loop"
      /\ PeriodicThreads => logger'[r] = "test"
      /\ ~PeriodicThreads => logger'[r] = logger[r]
      /\ \A q \in Request \ {r} : /\ engine'[q] = engine[q]
                                  /\ logger'[q] = logger[q]
  BY <1>3 DEF Sound, TypeOK
<1>6. InOrder(r)'
  BY <1>0, <1>3, <1>5, <1>9, <1>11
     DEF InOrder, InStep, Joinable, Owns, Delivered, Busy
<1>7. NoneOther'
  BY <1>0, <1>1, <1>3, <1>5, OwnOrNone DEF NoneOther, Busy
<1> QED
  BY <1>1, <1>3, <1>4, <1>5, <1>6, <1>7, <1>10, OthersStay DEF Sound

\* What a turn of the main loop publishes is stored: the in-order offset while
\* the download runs, the whole file when it is ready.
LEMMA PublishedIsStored ==
  ASSUME NEW s \in Gb, NEW C, C \subseteq Byte,
         s.run, s.ready \in {0, 1}, s.ready = 1 => C = Byte,
         \A b \in Byte : b < s.inorder_offset => b \in C,
         NEW b \in Byte, b < Published(s)
  PROVE  b \in C
BY DEF Published, Gb

\* update_last_downloaded_byte changes one field.
LEMMA UpdatesType ==
  ASSUME TypeOK, gb \in Request, NEW s \in Gb, Updates(s)
  PROVE  /\ session' \in [Request -> Gb]
         /\ session'[gb] = [s EXCEPT !.last_downloaded_byte = Published(s)]
         /\ \A q \in Request \ {gb} : session'[q] = session[q]
<1>1. Published(s) \in 0 .. Size
  BY SizeAssumption DEF Published, Gb
<1>2. [s EXCEPT !.last_downloaded_byte = Published(s)] \in Gb
  BY <1>1 DEF Gb
<1>3. session \in [Request -> Gb]
  BY DEF TypeOK, Gb
<1> QED
  BY <1>2, <1>3 DEF Updates

\* A turn of the main loop.
LEMMA TurnSound ==
  ASSUME Sound, Quiet, NEW r \in Request, Turn(r)
  PROVE  Sound'
<1>0. /\ engine[r] = "loop" /\ InOrder(r) /\ TypeOK
      /\ handler[r] \in {"wait", "send", "check", "finish", "join"}
  BY DEF Turn, Sound, InOrder, InStep, TypeOK
<1>1. Current(r)
  BY <1>0, BeingAnswered
<1>2. ~(errors < MaxErrors)
  BY DEF Quiet, Sound, TypeOK
<1>13. gb = r /\ gb # NULL /\ ~Faults /\ session[r].outfd = r
  BY <1>0, RequestType DEF InOrder, Owns, Busy, Faults
<1>14. ~Overlaps(r)
  BY <1>1, <1>13, Alone DEF Overlaps
<1>3. PICK s \in Gb, C \in SUBSET Byte :
        /\ Updates(s)
        /\ s.memory = session[r].memory /\ s.run = session[r].run
        /\ s.finish = session[r].finish /\ s.outfd = r
        /\ s.last_downloaded_byte = session[r].last_downloaded_byte
        /\ s.ready = 0 /\ s.run =>
             s.last_downloaded_byte <= s.inorder_offset
        /\ content' = [content EXCEPT ![r] = C]
        /\ \A b \in Byte : b < s.inorder_offset => b \in C
        /\ s.ready \in {0, 1} /\ (s.ready = 1 => C = Byte)
        /\ \/ engine' = engine
           \/ engine' = [engine EXCEPT ![r] = "join"]
        /\ crashed' = crashed /\ errors' = errors
  <2>0. session[r] \in Gb /\ content[r] \in SUBSET Byte
    BY <1>0 DEF TypeOK, Gb
  <2>1. CASE Stores(r)
    <3>1. PICK C \in SUBSET Byte, o \in 0 .. Size, d \in {-1, 0, 1} :
             /\ session[r].inorder_offset <= o
             /\ 0 .. o - 1 \subseteq C
             /\ d = IF C = Byte THEN 1 ELSE 0
             /\ content' = [content EXCEPT ![r] = C]
             /\ Updates([session[r] EXCEPT !.inorder_offset = o, !.ready = d])
      <4>1. PICK C \in SUBSET Byte, o \in 0 .. Size, d \in {-1, 0, 1} :
               /\ \/ Overlaps(r)
                  \/ /\ content[session[gb].outfd] # C
                     /\ session[gb].inorder_offset <= o
                     /\ 0 .. o - 1 \subseteq C
                     /\ d = IF C = Byte THEN 1 ELSE 0
               /\ content' = [content EXCEPT ![session[gb].outfd] = C]
               /\ Updates([session[gb] EXCEPT !.inorder_offset = o, !.ready = d])
        BY <2>1 DEF Stores
      <4> QED
        BY <1>13, <1>14, <4>1
    <3>2. /\ UNCHANGED <<engine, crashed, errors>>
          /\ session[r].ready = 0 /\ session[r].run
      BY <1>13, <2>1 DEF Stores
    <3> DEFINE s == [session[r] EXCEPT !.inorder_offset = o, !.ready = d]
    <3>3. /\ s \in Gb
          /\ s.memory = session[r].memory /\ s.run = session[r].run
          /\ s.finish = session[r].finish /\ s.inorder_offset = o
          /\ s.outfd = session[r].outfd
          /\ s.last_downloaded_byte = session[r].last_downloaded_byte
          /\ s.ready = IF C = Byte THEN 1 ELSE 0
      BY <2>0, <3>1 DEF Gb
    <3>4. \A b \in Byte : b < o => b \in C
      BY <3>1, SizeAssumption DEF Byte
    <3>5. session[r].last_downloaded_byte <= o
      <4>1. session[r].last_downloaded_byte <= session[r].inorder_offset
        BY <1>0, <3>2 DEF InOrder, Delivered
      <4>2. /\ session[r].last_downloaded_byte \in Int
            /\ session[r].inorder_offset \in Int
        BY <2>0, SizeAssumption DEF Gb
      <4> QED
        BY <3>1, <4>1, <4>2
    <3> HIDE DEF s
    <3>6. Updates(s) /\ (s.ready = 1 => C = Byte) /\ s.ready \in {0, 1}
      BY <3>1, <3>3 DEF s
    <3>7. /\ Updates(s)
          /\ s.memory = session[r].memory /\ s.run = session[r].run
          /\ s.finish = session[r].finish /\ s.outfd = r
          /\ s.last_downloaded_byte = session[r].last_downloaded_byte
          /\ s.ready = 0 /\ s.run =>
               s.last_downloaded_byte <= s.inorder_offset
          /\ content' = [content EXCEPT ![r] = C]
          /\ \A b \in Byte : b < s.inorder_offset => b \in C
          /\ s.ready \in {0, 1} /\ (s.ready = 1 => C = Byte)
          /\ \/ engine' = engine
             \/ engine' = [engine EXCEPT ![r] = "join"]
          /\ crashed' = crashed /\ errors' = errors
      BY <1>13, <3>1, <3>2, <3>3, <3>4, <3>5, <3>6
    <3> QED
      BY <3>3, <3>7
  <2>2. CASE Leaves(r)
    <3>1. /\ Updates(session[r])
          /\ engine' = [engine EXCEPT ![r] = "join"]
          /\ UNCHANGED <<content, crashed, errors>>
      BY <1>13, <2>2 DEF Leaves
    <3>2. content' = [content EXCEPT ![r] = content[r]]
      BY <1>0, <3>1 DEF TypeOK
    <3> QED
      BY <1>0, <1>13, <2>0, <3>1, <3>2 DEF InOrder, Delivered
  <2>3. ~Fails
    BY <1>2 DEF Fails
  <2> QED
    BY <1>13, <1>14, <2>1, <2>2, <2>3 DEF Turn
<1>4. /\ UNCHANGED <<handler, sent, played, source, logger, log_goodput_tid,
                     gb, file, crashed, timeouts, errors>>
  BY <1>3 DEF Turn, playVars
<1>5. /\ session' \in [Request -> Gb]
      /\ session'[r] = [s EXCEPT !.last_downloaded_byte = Published(s)]
      /\ \A q \in Request \ {r} : session'[q] = session[q]
  BY <1>0, <1>3, <1>13, UpdatesType
<1>6. /\ engine' \in [Request -> {"none", "new", "open", "loop", "join", "clear",
                                  "done"}]
      /\ engine'[r] \in {"loop", "join"}
      /\ content' \in [Request -> SUBSET Byte] /\ content'[r] = C
      /\ \A q \in Request \ {r} : engine'[q] = engine[q] /\ content'[q] = content[q]
  BY <1>0, <1>3 DEF TypeOK
<1>7. TypeOK'
  BY <1>0, <1>4, <1>5, <1>6 DEF TypeOK, Gb
<1>8. /\ session'[r].memory = s.memory /\ session'[r].run = s.run
      /\ session'[r].finish = s.finish /\ session'[r].ready = s.ready
      /\ session'[r].inorder_offset = s.inorder_offset
      /\ session'[r].outfd = s.outfd
      /\ session'[r].last_downloaded_byte = Published(s)
  BY <1>5 DEF Gb
<1>9. s.run => \A b \in Byte : b < Published(s) => b \in C
  BY <1>3, PublishedIsStored
<1>15. /\ sent[r] <= Published(s)
       /\ s.ready = 0 /\ s.run => Published(s) <= s.inorder_offset
  <2>1. s.inorder_offset \in 0 .. Size /\ s.last_downloaded_byte \in 0 .. Size
    BY DEF Gb
  <2>2. sent[r] \in 0 .. Size /\ sent[r] <= s.last_downloaded_byte
    BY <1>0, <1>3 DEF InOrder, Delivered, TypeOK
  <2> QED
    BY <1>3, <2>1, <2>2, SizeAssumption DEF Published
<1>10. Delivered(r)'
  BY <1>0, <1>3, <1>4, <1>6, <1>8, <1>9, <1>15 DEF InOrder, Delivered
<1>11. Owns(r)' /\ InStep(r)' /\ Joinable(r)'
  BY <1>0, <1>3, <1>4, <1>6, <1>8, <1>13 DEF InOrder, InStep, Joinable, Owns, Busy
<1>12. NoneOther'
  BY <1>0, <1>1, <1>4, <1>6, OwnOrNone DEF Sound, NoneOther, Busy
<1> QED
  BY <1>1, <1>4, <1>5, <1>6, <1>7, <1>10, <1>11, <1>12, OthersStay
     DEF Sound, InOrder

\* gb is freed: where there is a periodic thread, once it has ended, which it
\* does only after the request is through with gb.
LEMMA CloseSound ==
  ASSUME Sound, NEW r \in Request, Close(r)
  PROVE  Sound'
<1>0. engine[r] = "join" /\ InOrder(r) /\ TypeOK
  BY DEF Close, Sound
<1>1. /\ handler[r] \in {"wait", "send", "check", "finish", "join"}
      /\ PeriodicThreads => logger[r] = "done" /\ handler[r] = "join"
  BY <1>0 DEF Close, JoinsPeriodic, InOrder, Joinable, InStep, TypeOK
<1>2. Current(r)
  BY <1>1, BeingAnswered
<1>9. gb = r /\ gb # NULL /\ ~Faults
  BY <1>0, RequestType DEF InOrder, Owns, Busy, Faults
<1>3. /\ session' = [session EXCEPT ![r].memory = "freed"]
      /\ engine' = [engine EXCEPT ![r] = "clear"]
      /\ UNCHANGED <<handler, sent, played, source, logger, log_goodput_tid,
                     gb, file, content, crashed, timeouts, errors>>
  BY <1>9 DEF Close, Crashes, playVars, diskVars
<1>4. TypeOK'
  <2>1. ThreadTypes /\ OtherTypes
    BY <1>0, Types
  <2>2. OtherTypes'
    BY <1>3, <2>1 DEF OtherTypes
  <2>3. session' = [session EXCEPT ![r] = [session[r] EXCEPT !.memory = "freed"]]
    BY <1>3, <2>1 DEF ThreadTypes
  <2>4. ThreadTypes'
    <3> DEFINE s == [session[r] EXCEPT !.memory = "freed"]
    <3>1. s \in Gb
      BY <2>1, GbUpdates DEF ThreadTypes
    <3>2. session' = [session EXCEPT ![r] = s]
      BY <2>3
    <3> HIDE DEF s
    <3> QED
      BY <1>3, <2>1, <3>1, <3>2 DEF ThreadTypes
  <2> QED
    BY <2>2, <2>4, Types
<1>5. /\ engine'[r] = "clear"
      /\ session'[r] = [session[r] EXCEPT !.memory = "freed"]
      /\ \A q \in Request \ {r} : /\ engine'[q] = engine[q]
                                  /\ session'[q] = session[q]
  BY <1>0, <1>3 DEF TypeOK
<1>6. /\ session'[r].run = session[r].run
      /\ session'[r].ready = session[r].ready
      /\ session'[r].inorder_offset = session[r].inorder_offset
      /\ session'[r].last_downloaded_byte = session[r].last_downloaded_byte
  BY <1>0, <1>5 DEF TypeOK
<1>7. InOrder(r)'
  BY <1>0, <1>1, <1>3, <1>5, <1>6
     DEF InOrder, InStep, Joinable, Owns, Delivered, Busy
<1>8. NoneOther'
  BY <1>0, <1>2, <1>3, <1>5, OwnOrNone DEF Sound, NoneOther, Busy
<1> QED
  BY <1>2, <1>3, <1>4, <1>5, <1>7, <1>8, OthersStay DEF Sound

\* gb = NULL
LEMMA ClearSound ==
  ASSUME Sound, NEW r \in Request, Clear(r)
  PROVE  Sound'
<1>0. /\ engine[r] = "clear" /\ InOrder(r) /\ TypeOK
      /\ handler[r] \in {"wait", "send", "check", "finish", "join"}
      /\ PeriodicThreads => handler[r] = "join" /\ logger[r] = "done"
  BY DEF Clear, Sound, InOrder, InStep, Joinable, TypeOK
<1>1. Current(r)
  BY <1>0, BeingAnswered
<1>2. /\ gb' = NULL
      /\ engine' = [engine EXCEPT ![r] = "done"]
      /\ UNCHANGED <<handler, sent, played, source, logger, log_goodput_tid,
                     session, file, content, crashed, timeouts, errors>>
  BY DEF Clear, playVars, diskVars, countVars
<1>3. TypeOK'
  BY <1>0, <1>2 DEF TypeOK
<1>4. engine'[r] = "done" /\ \A q \in Request \ {r} : engine'[q] = engine[q]
  BY <1>0, <1>2 DEF TypeOK
<1>5. InOrder(r)'
  BY <1>0, <1>2, <1>4 DEF InOrder, InStep, Joinable, Owns, Delivered, Busy
<1>6. NoneOther'
  BY <1>0, <1>1, <1>2, <1>4, OwnOrNone DEF Sound, NoneOther
<1> QED
  BY <1>1, <1>2, <1>3, <1>4, <1>5, <1>6, OthersStay DEF Sound

\* While the periodic thread runs, gb is its session, and it ends only when
\* gb->finish is set.
LEMMA LoggerSound ==
  ASSUME Sound, NEW r \in Request, Logger(r)
  PROVE  Sound'
<1>0. /\ logger[r] \in {"test", "wait", "read"} /\ InOrder(r) /\ TypeOK
  BY DEF Logger, Sound
<1>1. /\ PeriodicThreads /\ engine[r] \in {"loop", "join"}
      /\ handler[r] \in {"wait", "send", "check", "finish", "join"}
  BY <1>0 DEF InOrder, InStep, Joinable, TypeOK
<1>2. Current(r)
  BY <1>1, BeingAnswered
<1>3. gb = r /\ session[r].memory = "live" /\ gb # NULL
  BY <1>0, <1>1, RequestType DEF InOrder, Owns, Busy
<1>4. ~Faults
  BY <1>3 DEF Faults
<1>5. /\ \E state \in {"wait", "read", "done"} :
           /\ logger' = [logger EXCEPT ![r] = state]
           /\ state = "done" => session[r].finish
      /\ UNCHANGED <<handler, sent, played, source, engine, log_goodput_tid, gb,
                     session, file, content, timeouts, errors>>
      /\ ~crashed'
  <2>1. UNCHANGED <<handler, sent, played, source, engine, log_goodput_tid, gb,
                    session, file, content, timeouts, errors>>
    BY DEF Logger, playVars, diskVars
  <2>2. ~crashed'
    BY <1>1, <1>3, <1>4 DEF Logger, Sound
  <2>3. LoggerTests(r) \/ logger' = [logger EXCEPT ![r] = "read"]
    BY <1>3 DEF Logger
  <2> QED
    BY <1>3, <2>1, <2>2, <2>3 DEF LoggerTests
<1>6. crashed' \in BOOLEAN /\ crashed' = crashed
  <2>1. crashed = FALSE
    BY <1>0, <1>1 DEF TypeOK, Sound
  <2>2. (gb = NULL) = FALSE /\ Faults = FALSE
    BY <1>3, <1>4 DEF Faults
  <2>3. crashed' = crashed \/ crashed' \in {gb = NULL, Faults}
    BY DEF Logger
  <2>4. crashed' \in {gb = NULL, Faults} => crashed' = FALSE
    BY <2>2
  <2> QED
    BY <2>1, <2>3, <2>4
<1>7. PICK state \in {"wait", "read", "done"} :
        /\ logger' = [logger EXCEPT ![r] = state]
        /\ state = "done" => session[r].finish
  BY <1>5
<1>8. TypeOK'
  BY <1>0, <1>5, <1>6, <1>7 DEF TypeOK
<1>9. logger'[r] = state /\ \A q \in Request \ {r} : logger'[q] = logger[q]
  BY <1>0, <1>7 DEF TypeOK
<1>10. state = "done" => handler[r] = "join"
  BY <1>0, <1>1, <1>7 DEF InOrder, Owns
<1>11. InOrder(r)'
  BY <1>0, <1>1, <1>5, <1>9, <1>10
     DEF InOrder, InStep, Joinable, Owns, Delivered, Busy
<1>12. NoneOther'
  BY <1>5 DEF Sound, NoneOther, Busy
<1> QED
  BY <1>2, <1>5, <1>8, <1>9, <1>11, <1>12, OthersStay
-----------------------------------------------------------------------------
(* The session as a whole                                                  *)

LEMMA InitSound == Init => Sound
<1> SUFFICES ASSUME Init PROVE Sound
  OBVIOUS
<1> USE DEF Init
<1>1. Unallocated \in Gb /\ Unallocated.memory = "none"
      /\ Unallocated.run = FALSE /\ Unallocated.ready = 0
      /\ Unallocated.inorder_offset = 0 /\ Unallocated.last_downloaded_byte = 0
  BY SizeAssumption DEF Unallocated, Gb
<1>2. TypeOK
  <2>1. /\ played \in [Request -> Seq(Byte \cup {Hole})]
    BY EmptySeq
  <2>2. 0 \in 0 .. Size /\ 0 \in 0 .. MaxTimeouts /\ 0 \in 0 .. MaxErrors
    BY SizeAssumption, BoundAssumption
  <2> QED
    BY <1>1, <2>1, <2>2 DEF TypeOK, Gb
<1>3. \A b \in Byte : ~(b < 0)
  BY SizeAssumption DEF Byte
<1>4. ASSUME NEW r \in Request PROVE InOrder(r)
  <2>1. Len(played[r]) = 0 /\ DOMAIN played[r] = {}
    OBVIOUS
  <2>2. Delivered(r)
    BY <1>1, <1>3, <2>1 DEF Delivered
  <2>3. InStep(r) /\ Joinable(r) /\ Owns(r)
    BY <1>1 DEF InStep, Joinable, Owns, Busy
  <2> QED
    BY <2>2, <2>3 DEF InOrder
<1> QED
  BY <1>2, <1>4 DEF Sound, OneByOne, NoneOther

\* A step that changes nothing.
LEMMA StutterSound == Sound /\ UNCHANGED vars => Sound'
BY DEF vars, Sound, TypeOK, OneByOne, NoneOther, InOrder, InStep, Joinable, Owns,
       Delivered, Busy

\* The invariant, whatever the file's size and the number of requests.
THEOREM Soundness == ASSUME Quiet PROVE FairSpec => []Sound
<1>1. Sound /\ [Next]_vars => Sound'
  BY PlayerAsksSound, LookupSound, NoLocal, WaitSound, SendSound, CheckSound,
     FinishSound, UnlinkSound, NewSound, NewFailsNot, OpenSound, TurnSound,
     CloseSound, ClearSound, LoggerSound, StutterSound
     DEF Next, Handler, Engine, Terminated
<1> QED
  BY <1>1, InitSound, PTL DEF FairSpec

\* What a player gets is the file, in order and without holes, although it is
\* sent while the engine stores bytes in any order: send_remote_file stops at
\* what update_last_downloaded_byte published.
THEOREM PlayedInOrderHolds == ASSUME Quiet PROVE FairSpec => []PlayedInOrder
<1>1. Sound => PlayedInOrder
  BY DEF Sound, InOrder, Delivered, PlayedInOrder
<1> QED
  BY <1>1, Soundness, PTL

\* While a request uses gb it is its own session and not freed: gb_process
\* waits for the periodic thread, and that for gb->finish, the last thing
\* send_remote_file writes there.
THEOREM OwnSessionHolds == ASSUME Healthy PROVE FairSpec => []OwnSession
<1>1. Sound => OwnSession
  BY SendsOwn DEF Healthy, OwnSession
<1>2. FairSpec => []Sound
  BY Soundness DEF Healthy
<1> QED
  BY <1>1, <1>2, PTL

\* The assertion at the end of the loop of send_remote_file: what was sent was
\* published, and what is published does not shrink while send() waits, with
\* or without a periodic thread for gb_process to wait for.
THEOREM SentIsDownloadedHolds == ASSUME Quiet PROVE FairSpec => []SentIsDownloaded
<1>1. ASSUME Sound, NEW r \in Request, handler[r] = "check", gb # NULL
      PROVE  sent[r] <= session[gb].last_downloaded_byte
  <2>1. gb = r /\ InOrder(r)
    BY <1>1, SendsOwn
  <2> QED
    BY <2>1 DEF InOrder, Delivered
<1>2. Sound => SentIsDownloaded
  BY <1>1 DEF SentIsDownloaded
<1> QED
  BY <1>2, Soundness, PTL

\* Nothing of a request outlives its answer.
THEOREM NothingLeftHolds == ASSUME Quiet PROVE FairSpec => []NothingLeft
<1>1. Sound => NothingLeft
  <2> SUFFICES ASSUME Sound, \A r \in Request : handler[r] \in {"idle", "done"}
               PROVE  /\ gb = NULL
                      /\ file = NULL
                      /\ \A r \in Request : /\ engine[r] \in {"none", "done"}
                                            /\ logger[r] \in {"none", "done"}
    BY DEF NothingLeft
  <2>1. \A r \in Request : /\ engine[r] = IF handler[r] = "idle" THEN "none"
                                          ELSE "done"
                           /\ logger[r] \in {"none", "done"}
    BY DEF Sound, InOrder, InStep, Joinable
  <2>2. gb \in Request \cup {NULL} /\ file \in Request \cup {NULL}
    BY DEF Sound, TypeOK
  <2> QED
    BY <2>1, <2>2 DEF Sound, NoneOther, Busy
<1> QED
  BY <1>1, Soundness, PTL

\* No thread follows a pointer into a session that is gone.
THEOREM NeverFaultsHolds == ASSUME Healthy PROVE FairSpec => []NeverFaults
<1>1. Sound => NeverFaults
  BY DEF Healthy, Sound, NeverFaults
<1>2. FairSpec => []Sound
  BY Soundness DEF Healthy
<1> QED
  BY <1>1, <1>2, PTL
-----------------------------------------------------------------------------
(* Types, also when the download fails and requests time out               *)

\* A file is open where it is read.
Typed == /\ TypeOK
         /\ \A r \in Request : handler[r] \in {"copy", "send", "check"} => source[r] # NULL

\* Reading up to the end of a file that is open.
LEMMA PlaysTyped ==
  ASSUME TypeOK, NEW r \in Request, source[r] # NULL, NEW n \in Int, 0 < n,
         n <= EndOf(source[r]) - sent[r], Plays(r, n)
  PROVE  /\ sent' \in [Request -> 0 .. Size]
         /\ played' \in [Request -> Seq(Byte \cup {Hole})]
<1> DEFINE E == Byte \cup {Hole}
           f == source[r]
           S == Slice(f, sent[r], n)
<1>1. /\ played \in [Request -> Seq(E)] /\ sent \in [Request -> 0 .. Size]
      /\ f \in Request /\ content[f] \subseteq Byte /\ Size \in Int
  <2>1. played \in [Request -> Seq(E)] /\ sent \in [Request -> 0 .. Size]
    BY DEF TypeOK
  <2>2. f \in Request
    BY DEF TypeOK
  <2>3. content[f] \subseteq Byte
    BY <2>2 DEF TypeOK
  <2> QED
    BY <2>1, <2>2, <2>3, SizeAssumption
<1>2. EndOf(f) \in Int /\ EndOf(f) <= Size
  BY <1>1, EndOfType
<1>3. sent[r] + n \in 0 .. Size
  <2>1. sent[r] \in Int /\ 0 <= sent[r]
    BY <1>1
  <2> HIDE DEF f
  <2> QED
    BY <1>1, <1>2, <2>1 DEF f
<1>4. S \in Seq(E)
  <2>1. \A k \in 1 .. n :
          (IF sent[r] + k - 1 \in content[f] THEN sent[r] + k - 1 ELSE Hole) \in E
    BY <1>1
  <2>2. S \in [1 .. n -> E]
    BY <2>1 DEF Slice
  <2>3. n \in Nat
    OBVIOUS
  <2> QED
    BY <2>2, <2>3, IsASeq
<1>5. played[r] \in Seq(E)
  BY <1>1
<1> HIDE DEF E, S
<1>6. played[r] \o S \in Seq(E)
  BY <1>4, <1>5, ConcatProperties
<1>7. /\ played' = [played EXCEPT ![r] = played[r] \o S]
      /\ sent' = [sent EXCEPT ![r] = sent[r] + n]
  BY DEF Plays, S
<1> QED
  BY <1>1, <1>3, <1>6, <1>7 DEF E

LEMMA InitTyped == Init => Typed
BY InitSound DEF Sound, Typed, Init

\* The proxy.
LEMMA HandlerTyped ==
  ASSUME Typed, NEW r \in Request, PlayerAsks(r) \/ Handler(r)
  PROVE  Typed'
<1>0. TypeOK
  BY DEF Typed
<1>1. ASSUME UNCHANGED <<sent, played, source>>, TypeOK',
             NEW h \in {"lookup", "local", "wait", "join", "done"},
             handler' = [handler EXCEPT ![r] = h]
      PROVE  Typed'
  <2>1. handler' = [handler EXCEPT ![r] = h]
    BY <1>1
  <2>2. handler'[r] = h /\ \A q \in Request \ {r} : handler'[q] = handler[q]
    BY <1>0, <2>1 DEF TypeOK
  <2> QED
    BY <1>1, <2>1, <2>2 DEF Typed
<1>2. CASE PlayerAsks(r)
  <2>1. TypeOK'
    BY <1>0, <1>2 DEF PlayerAsks, TypeOK, playVars, downloadVars, diskVars, countVars
  <2> QED
    BY <1>1, <1>2, <2>1 DEF PlayerAsks, playVars
<1>3. CASE Lookup(r)
  <2>1. TypeOK'
    BY <1>0, <1>3 DEF Lookup, TypeOK, playVars, diskVars, countVars
  <2> QED
    BY <1>1, <1>3, <2>1 DEF Lookup, playVars
<1>4. CASE SendLocal(r)
  <2> DEFINE n == Least(SendSize, EndOf(source[r]) - sent[r])
  <2>1. UNCHANGED <<engine, logger, log_goodput_tid, gb, session, file, content,
                    crashed, timeouts, errors>>
    BY <1>4 DEF SendLocal, downloadVars, diskVars, countVars
  <2>2. CASE handler[r] = "copy" /\ n > 0 /\ Plays(r, n) /\ handler' = handler
    <3>1. source[r] # NULL /\ source[r] \in Request
      BY <1>0, <2>2 DEF Typed, TypeOK
    <3>2. EndOf(source[r]) \in Int /\ sent[r] \in Int /\ SendSize \in Int
      <4>1. sent[r] \in 0 .. Size
        BY <1>0 DEF TypeOK
      <4> QED
        BY <1>0, <3>1, <4>1, EndOfType, SendAssumption
    <3>3. n \in Int /\ n <= EndOf(source[r]) - sent[r]
      BY <3>2 DEF Least
    <3>4. source' = source /\ Plays(r, n) /\ 0 < n /\ handler' = handler
      BY <2>2, <3>3 DEF Plays
    <3> HIDE DEF n
    <3>5. /\ sent' \in [Request -> 0 .. Size]
          /\ played' \in [Request -> Seq(Byte \cup {Hole})]
      BY <1>0, <3>1, <3>3, <3>4, PlaysTyped
    <3> QED
      BY <1>0, <2>1, <3>4, <3>5 DEF Typed, TypeOK
  <2>3. CASE /\ file # NULL /\ handler' = [handler EXCEPT ![r] = "copy"]
             /\ source' = [source EXCEPT ![r] = file] /\ UNCHANGED <<sent, played>>
    BY <1>0, <2>1, <2>3 DEF Typed, TypeOK
  <2>4. CASE handler' = [handler EXCEPT ![r] = "done"] /\ UNCHANGED playVars
    <3>1. TypeOK'
      BY <1>0, <2>1, <2>4 DEF TypeOK, playVars
    <3> QED
      BY <1>1, <2>4, <3>1 DEF playVars
  <2> QED
    BY <1>4, <2>2, <2>3, <2>4 DEF SendLocal
<1>5. CASE Wait(r)
  <2>1. UNCHANGED <<engine, logger, log_goodput_tid, gb, session, file, content,
                    errors, sent, played>>
    BY <1>5 DEF Wait, downloadVars, diskVars, playVars
  <2>2. timeouts' \in 0 .. MaxTimeouts /\ crashed' \in BOOLEAN
    <3>1. timeouts \in 0 .. MaxTimeouts /\ MaxTimeouts \in Nat /\ crashed \in BOOLEAN
      BY <1>0, BoundAssumption DEF TypeOK
    <3>2. timeouts' = timeouts \/ (timeouts < MaxTimeouts /\ timeouts' = timeouts + 1)
      BY <1>5 DEF Wait
    <3>3. crashed' = crashed \/ crashed' = TRUE
      BY <1>5 DEF Wait, Crashes
    <3>4. timeouts' \in 0 .. MaxTimeouts
      BY <3>1, <3>2
    <3>5. crashed' \in BOOLEAN
      BY <3>1, <3>3
    <3> QED
      BY <3>4, <3>5
  <2>3. \/ /\ file # NULL /\ handler' = [handler EXCEPT ![r] = "send"]
           /\ source' = [source EXCEPT ![r] = file]
        \/ UNCHANGED <<handler, source>>
        \/ handler' = [handler EXCEPT ![r] = "done"] /\ source' = source
    BY <1>5 DEF Wait, playVars
  <2>4. /\ handler' \in [Request -> {"idle", "lookup", "local", "copy", "wait",
                                      "send", "check", "finish", "join", "done"}]
        /\ source' \in [Request -> Request \cup {NULL}]
    <3>1. /\ source \in [Request -> Request \cup {NULL}]
          /\ file \in Request \cup {NULL}
      BY <1>0 DEF TypeOK
    <3>2. source' \in [Request -> Request \cup {NULL}]
      BY <2>3, <3>1
    <3>3. handler \in [Request -> {"idle", "lookup", "local", "copy", "wait",
                                   "send", "check", "finish", "join", "done"}]
      BY <1>0 DEF TypeOK
    <3>4. \E h \in {"send", "done"} : handler' = handler
                                     \/ handler' = [handler EXCEPT ![r] = h]
      BY <2>3
    <3> QED
      BY <3>2, <3>3, <3>4
  <2>5. TypeOK'
    BY <1>0, <2>1, <2>2, <2>4 DEF TypeOK
  <2>6. CASE /\ file # NULL /\ handler' = [handler EXCEPT ![r] = "send"]
             /\ source' = [source EXCEPT ![r] = file]
    <3>1. /\ handler'[r] = "send" /\ source'[r] = file
          /\ \A q \in Request \ {r} : handler'[q] = handler[q] /\ source'[q] = source[q]
      BY <1>0, <2>6 DEF TypeOK
    <3> QED
      BY <2>5, <2>6, <3>1 DEF Typed
  <2>7. CASE UNCHANGED <<handler, source>>
    BY <2>5, <2>7 DEF Typed
  <2>8. CASE handler' = [handler EXCEPT ![r] = "done"] /\ source' = source
    BY <1>1, <2>1, <2>5, <2>8
  <2> QED
    BY <2>3, <2>6, <2>7, <2>8
<1>6. CASE Send(r)
  <2> DEFINE n == Least(SendSize, Least(SendLimit(r), EndOf(source[r])) - sent[r])
  <2>1. UNCHANGED <<engine, logger, log_goodput_tid, gb, session, file, content,
                    timeouts, errors>> /\ handler[r] = "send"
    BY <1>6 DEF Send, downloadVars, diskVars
  <2>2. crashed' \in BOOLEAN
    BY <1>0, <1>6 DEF Send, Crashes, TypeOK
  <2>3. CASE /\ gb # NULL /\ n > 0 /\ Plays(r, n)
             /\ handler' = [handler EXCEPT ![r] = "check"]
    <3>1. source[r] # NULL /\ source[r] \in Request /\ gb \in Request
      BY <1>0, <2>1, <2>3 DEF Typed, TypeOK
    <3>2. /\ EndOf(source[r]) \in Int /\ sent[r] \in Int /\ SendSize \in Int
          /\ SendLimit(r) \in Int
      <4>1. sent[r] \in 0 .. Size
        BY <1>0 DEF TypeOK
      <4>2. session[gb].last_downloaded_byte \in 0 .. Size
        BY <1>0, <3>1 DEF TypeOK
      <4> QED
        BY <1>0, <3>1, <4>1, <4>2, EndOfType, SendAssumption DEF SendLimit
    <3>3. n \in Int /\ n <= EndOf(source[r]) - sent[r]
      BY <3>2 DEF Least
    <3>4. /\ source' = source /\ Plays(r, n) /\ 0 < n
          /\ handler' = [handler EXCEPT ![r] = "check"]
      BY <2>3, <3>3 DEF Plays
    <3> HIDE DEF n
    <3>5. /\ sent' \in [Request -> 0 .. Size]
          /\ played' \in [Request -> Seq(Byte \cup {Hole})]
      BY <1>0, <3>1, <3>3, <3>4, PlaysTyped
    <3> QED
      BY <1>0, <2>1, <2>2, <3>1, <3>4, <3>5 DEF Typed, TypeOK
  <2>4. CASE /\ \/ handler' = handler
                \/ \E h \in {"check", "finish"} : handler' = [handler EXCEPT ![r] = h]
             /\ UNCHANGED playVars
    BY <1>0, <2>1, <2>2, <2>4 DEF Typed, TypeOK, playVars
  <2> QED
    BY <1>6, <2>3, <2>4 DEF Send
<1>7. CASE Finish(r)
  <2>1. /\ UNCHANGED <<sent, played, source, engine, logger, log_goodput_tid, gb,
                       file, content, timeouts, errors>>
        /\ crashed' \in BOOLEAN
    BY <1>0, <1>7 DEF Finish, Crashes, TypeOK, playVars, diskVars
  <2>2. CASE UNCHANGED <<handler, session>>
    BY <1>0, <2>1, <2>2 DEF Typed, TypeOK
  <2>3. CASE /\ gb # NULL /\ handler' = [handler EXCEPT ![r] = "join"]
             /\ session' = [session EXCEPT ![gb].run = FALSE, ![gb].finish = TRUE]
    <3> DEFINE s == [session[gb] EXCEPT !.run = FALSE, !.finish = TRUE]
    <3>1. gb \in Request /\ session \in [Request -> Gb]
      BY <1>0, <2>3 DEF TypeOK, Gb
    <3>2. s \in Gb /\ session' = [session EXCEPT ![gb] = s]
      BY <2>3, <3>1, GbUpdates
    <3> HIDE DEF s
    <3>3. session' \in [Request -> Gb]
      BY <3>1, <3>2
    <3>4. TypeOK'
      BY <1>0, <2>1, <2>3, <3>3 DEF TypeOK, Gb
    <3> QED
      BY <1>1, <2>1, <2>3, <3>4
  <2> QED
    BY <1>7, <2>2, <2>3 DEF Finish
<1>9. CASE Check(r)
  <2>1. /\ UNCHANGED <<sent, played, source, engine, logger, log_goodput_tid, gb,
                       session, file, content, timeouts, errors>>
        /\ crashed' \in BOOLEAN /\ handler[r] = "check"
        /\ handler' = handler \/ handler' = [handler EXCEPT ![r] = "send"]
    BY <1>0, <1>9 DEF Check, Crashes, TypeOK, playVars, downloadVars, diskVars
  <2> QED
    BY <1>0, <2>1 DEF Typed, TypeOK
<1>8. CASE Unlink(r)
  <2>1. TypeOK'
    BY <1>0, <1>8 DEF Unlink, TypeOK, playVars, downloadVars, countVars
  <2> QED
    BY <1>1, <1>8, <2>1 DEF Unlink, playVars
<1> QED
  BY <1>2, <1>3, <1>4, <1>5, <1>6, <1>7, <1>8, <1>9 DEF Handler

\* gb_process and the periodic thread.
LEMMA EngineTyped ==
  ASSUME Typed, NEW r \in Request, Engine(r) \/ Logger(r)
  PROVE  Typed'
<1>0. TypeOK /\ session[r] \in Gb
  BY DEF Typed, TypeOK, Gb
<1>1. UNCHANGED <<handler, sent, played, source, timeouts>>
  BY DEF Engine, New, NewFails, Open, Turn, Close, Clear, Logger, playVars, countVars
<1>2. errors' \in 0 .. MaxErrors /\ crashed' \in BOOLEAN
  <2>1. errors \in 0 .. MaxErrors /\ MaxErrors \in Nat /\ crashed \in BOOLEAN
    BY <1>0, BoundAssumption DEF TypeOK
  <2>2. Logger(r) => crashed' \in BOOLEAN
    <3>1. Faults \in BOOLEAN /\ (gb = NULL) \in BOOLEAN
      BY DEF Faults
    <3> QED
      BY <2>1, <3>1 DEF Logger
  <2>3. errors' = errors \/ (errors < MaxErrors /\ errors' = errors + 1)
    BY DEF Engine, New, NewFails, Open, Turn, Stores, Fails, Leaves, Close, Clear,
           Logger, countVars
  <2>4. Engine(r) => crashed' \in BOOLEAN
    BY <2>1 DEF Engine, New, NewFails, Open, Turn, Stores, Fails, Leaves, Close,
                Clear, Crashes, countVars
  <2> QED
    BY <2>1, <2>2, <2>3, <2>4
<1>3. ASSUME session' \in [Request -> Gb],
             engine' \in [Request -> {"none", "new", "open", "loop", "join",
                                      "clear", "done"}],
             UNCHANGED <<logger, log_goodput_tid, gb, file, content>>
      PROVE  Typed'
  BY <1>0, <1>1, <1>2, <1>3 DEF Typed, TypeOK, Gb
<1>4. CASE New(r)
  <2>1. Fresh \in Gb
    BY FreshGb
  <2>2. session' \in [Request -> Gb]
    BY <1>0, <1>4, <2>1 DEF New, TypeOK, Gb
  <2>3. /\ engine' \in [Request -> {"none", "new", "open", "loop", "join",
                                     "clear", "done"}]
        /\ gb' \in Request \cup {NULL}
        /\ UNCHANGED <<logger, log_goodput_tid, file, content>>
    BY <1>0, <1>4 DEF New, TypeOK, diskVars
  <2> QED
    BY <1>0, <1>1, <1>2, <2>2, <2>3 DEF Typed, TypeOK, Gb
<1>10. CASE NewFails(r)
  <2>1. Unparsed \in Gb
    <3>1. Unallocated \in Gb
      BY SizeAssumption DEF Unallocated, Gb
    <3> QED
      BY <3>1 DEF Unparsed, Gb
  <2>2. session' \in [Request -> Gb]
    <3>1. session \in [Request -> Gb]
      BY <1>0 DEF TypeOK, Gb
    <3>2. session' = session \/ session' = [session EXCEPT ![r] = Unparsed]
      BY <1>10 DEF NewFails
    <3> QED
      BY <2>1, <3>1, <3>2
  <2>3. /\ engine' \in [Request -> {"none", "new", "open", "loop", "join",
                                     "clear", "done"}]
        /\ gb' \in Request \cup {NULL}
        /\ UNCHANGED <<logger, log_goodput_tid, file, content>>
    BY <1>0, <1>10 DEF NewFails, TypeOK, diskVars
  <2> QED
    BY <1>0, <1>1, <1>2, <2>2, <2>3 DEF Typed, TypeOK, Gb
<1>5. CASE Open(r)
  <2>1. file' \in Request \cup {NULL}
    BY <1>0, <1>5 DEF Open, TypeOK
  <2>2. session' \in [Request -> Gb]
    <3>1. session \in [Request -> Gb]
      BY <1>0 DEF TypeOK, Gb
    <3>2. CASE session' = session
      BY <3>1, <3>2
    <3>3. CASE gb # NULL /\ session' = [session EXCEPT ![gb].outfd = file']
      <4> DEFINE s == [session[gb] EXCEPT !.outfd = file']
      <4>1. gb \in Request
        BY <1>0, <3>3 DEF TypeOK
      <4>2. s \in Gb /\ session' = [session EXCEPT ![gb] = s]
        BY <2>1, <3>1, <3>3, <4>1 DEF Gb
      <4> HIDE DEF s
      <4> QED
        BY <3>1, <4>1, <4>2
    <3> QED
      BY <1>5, <3>2, <3>3 DEF Open
  <2>3. /\ engine' \in [Request -> {"none", "new", "open", "loop", "join",
                                     "clear", "done"}]
        /\ logger' \in [Request -> {"none", "test", "wait", "read", "done"}]
        /\ log_goodput_tid' \in Request \cup {NULL}
        /\ UNCHANGED <<gb, content>>
    BY <1>0, <1>5 DEF Open, TypeOK
  <2> QED
    BY <1>0, <1>1, <1>2, <2>1, <2>2, <2>3 DEF Typed, TypeOK, Gb
<1>6. CASE Turn(r)
  <2>1. CASE UNCHANGED <<session, content, engine>>
    BY <1>0, <1>1, <1>2, <1>6, <2>1 DEF Turn, Typed, TypeOK
  <2>2. CASE gb # NULL /\ (Stores(r) \/ Fails \/ Leaves(r))
    <3>0. gb \in Request /\ session[gb] \in Gb
      BY <1>0, <2>2 DEF TypeOK, Gb
    <3>1. \E s \in Gb : Updates(s)
      <4>1. CASE Stores(r)
        <5>1. PICK C \in SUBSET Byte, o \in 0 .. Size, d \in {-1, 0, 1} :
                Updates([session[gb] EXCEPT !.inorder_offset = o, !.ready = d])
          BY <4>1 DEF Stores
        <5>2. [session[gb] EXCEPT !.inorder_offset = o, !.ready = d] \in Gb
          BY <3>0 DEF Gb
        <5> QED
          BY <5>1, <5>2
      <4>2. CASE Fails
        <5>1. /\ [session[gb] EXCEPT !.ready = -1] \in Gb
              /\ [session[gb] EXCEPT !.stalled = TRUE] \in Gb
          BY <3>0 DEF Gb
        <5> QED
          BY <4>2, <5>1 DEF Fails
      <4>3. CASE Leaves(r)
        BY <3>0, <4>3 DEF Leaves
      <4> QED
        BY <2>2, <4>1, <4>2, <4>3
    <3>2. session' \in [Request -> Gb]
      BY <1>0, <3>0, <3>1, UpdatesType
    <3>3. content' \in [Request -> SUBSET Byte]
      <4>1. content \in [Request -> SUBSET Byte]
        BY <1>0 DEF TypeOK
      <4>2. CASE Stores(r)
        <5>1. PICK C \in SUBSET Byte :
                content' = [content EXCEPT ![session[gb].outfd] = C]
          BY <4>2 DEF Stores
        <5> QED
          BY <4>1, <5>1
      <4> QED
        BY <2>2, <4>1, <4>2 DEF Fails, Leaves
    <3>4. /\ engine' \in [Request -> {"none", "new", "open", "loop", "join",
                                       "clear", "done"}]
          /\ UNCHANGED <<logger, log_goodput_tid, gb, file>>
      BY <1>0, <1>6, <2>2 DEF Turn, Stores, Fails, Leaves, TypeOK
    <3> QED
      BY <1>0, <1>1, <1>2, <3>2, <3>3, <3>4 DEF Typed, TypeOK, Gb
  <2> QED
    BY <1>6, <2>1, <2>2 DEF Turn
<1>7. CASE Close(r)
  <2>1. session' \in [Request -> Gb]
    <3>1. session \in [Request -> Gb]
      BY <1>0 DEF TypeOK, Gb
    <3>2. CASE session' = session
      BY <3>1, <3>2
    <3>3. CASE gb # NULL /\ session' = [session EXCEPT ![gb].memory = "freed"]
      <4> DEFINE s == [session[gb] EXCEPT !.memory = "freed"]
      <4>1. gb \in Request
        BY <1>0, <3>3 DEF TypeOK
      <4>2. s \in Gb /\ session' = [session EXCEPT ![gb] = s]
        BY <3>1, <3>3, <4>1, GbUpdates
      <4> HIDE DEF s
      <4> QED
        BY <3>1, <4>1, <4>2
    <3> QED
      BY <1>7, <3>2, <3>3 DEF Close
  <2>2. /\ engine' \in [Request -> {"none", "new", "open", "loop", "join",
                                     "clear", "done"}]
        /\ UNCHANGED <<logger, log_goodput_tid, gb, file, content>>
    BY <1>0, <1>7 DEF Close, TypeOK, diskVars
  <2> QED
    BY <1>3, <2>1, <2>2
<1>8. CASE Clear(r)
  BY <1>0, <1>1, <1>2, <1>8 DEF Clear, Typed, TypeOK, diskVars
<1>9. CASE Logger(r)
  <2>1. /\ logger' \in [Request -> {"none", "test", "wait", "read", "done"}]
        /\ UNCHANGED <<engine, log_goodput_tid, gb, session, file, content>>
    BY <1>0, <1>9 DEF Logger, LoggerTests, TypeOK, diskVars
  <2> QED
    BY <1>0, <1>1, <1>2, <2>1 DEF Typed, TypeOK
<1> QED
  BY <1>4, <1>5, <1>6, <1>7, <1>8, <1>9, <1>10 DEF Engine

\* The variables of a session keep their types: in particular no request sends
\* more bytes than the file has, whatever fails.
THEOREM TypeOKHolds == FairSpec => []TypeOK
<1>1. Typed /\ [Next]_vars => Typed'
  <2> SUFFICES ASSUME Typed, [Next]_vars PROVE Typed'
    OBVIOUS
  <2>1. CASE UNCHANGED vars
    BY <2>1 DEF Typed, TypeOK, vars
  <2> QED
    BY <2>1, HandlerTyped, EngineTyped DEF Next, Terminated
<1>2. Typed => TypeOK
  BY DEF Typed
<1> QED
  BY <1>1, <1>2, InitTyped, PTL DEF FairSpec
-----------------------------------------------------------------------------
(* The buffer file, also when the download fails and nothing makes         *)
(* gb_process wait for the request                                         *)

\* The player never asks while a download is about to open the buffer file:
\* it is patient, or no request times out, in which case that download's
\* request is still open.
Calm == PatientPlayer \/ MaxTimeouts = 0

\* The handler has started a download; gb_process works on the buffer file.
Downloads == {"wait", "send", "check", "finish", "join"}
Opens == {"new", "open"}
Writes == {"open", "loop", "join"}

\* A handler starts a download only where there is no buffer file, so that a
\* later one never waits for its own while an earlier one is at work.
OneWriter ==
  /\ handler \in [Request -> {"idle", "lookup", "local", "copy", "done"} \cup Downloads]
  /\ engine \in [Request -> Opens \cup Writes \cup {"none", "clear", "done"}]
  /\ OneByOne
  /\ \A r \in Request : handler[r] \notin Downloads \cup {"done"} =>
                          engine[r] = "none"
  /\ MaxTimeouts = 0 => \A r \in Request : handler[r] = "done" =>
                           engine[r] \in {"none", "done"}
  /\ \A q, r \in Request : q < r /\ engine[q] \in Opens => handler[r] = "idle"
  /\ \A q, r \in Request : q < r /\ handler[r] \in Downloads =>
       engine[q] \notin Opens \cup Writes
  /\ \A r \in Request : engine[r] \in Writes \ Opens => file # NULL

\* The handler of a request that was looked up goes on.
LEMMA HandlerMoves ==
  ASSUME OneWriter, NEW r \in Request, NEW h \in {"copy", "done"} \cup Downloads,
         handler[r] \in {"local", "copy"} \cup Downloads,
         h \in Downloads => handler[r] \in Downloads,
         h = "copy" => handler[r] \notin Downloads,
         MaxTimeouts = 0 /\ h = "done" => engine[r] \in {"none", "done"},
         handler' = [handler EXCEPT ![r] = h], engine' = engine,
         file' = file \/ \A q \in Request : engine[q] \notin Writes
  PROVE  OneWriter'
<1>1. /\ handler'[r] = h /\ handler[r] \notin {"idle", "lookup", "done"}
      /\ \A q \in Request \ {r} : handler'[q] = handler[q]
      /\ h \notin {"idle", "lookup"}
  BY DEF OneWriter, Downloads
<1>2. OneByOne'
  BY <1>1 DEF OneWriter, OneByOne
<1>3. /\ \A q \in Request : handler'[q] \notin Downloads \cup {"done"} =>
                             engine[q] = "none"
      /\ MaxTimeouts = 0 => \A q \in Request : handler'[q] = "done" =>
                              engine[q] \in {"none", "done"}
  BY <1>1 DEF OneWriter
<1>4. \A p, q \in Request : p < q /\ engine[p] \in Opens => handler'[q] = "idle"
  BY <1>1 DEF OneWriter
<1>5. \A p, q \in Request : p < q /\ handler'[q] \in Downloads =>
        engine[p] \notin Opens \cup Writes
  BY <1>1 DEF OneWriter
<1>6. handler' \in [Request -> {"idle", "lookup", "local", "copy", "done"}
                                 \cup Downloads]
  BY DEF OneWriter
<1> QED
  BY <1>2, <1>3, <1>4, <1>5, <1>6 DEF OneWriter

\* gb_process goes on; the file is only ever created by it.
LEMMA EngineMoves ==
  ASSUME OneWriter, NEW r \in Request,
         NEW e \in Writes \cup {"clear", "done"}, engine[r] \notin {"none", "done"},
         e \in Opens => engine[r] \in Opens,
         e \in Writes => engine[r] \in Opens \cup Writes,
         handler' = handler, engine' = [engine EXCEPT ![r] = e],
         file' = file \/ file' # NULL,
         e \in Writes \ Opens => file' # NULL
  PROVE  OneWriter'
<1>1. /\ engine'[r] = e /\ e # "none"
      /\ \A q \in Request \ {r} : engine'[q] = engine[q]
  BY DEF OneWriter, Opens, Writes
<1>2. OneByOne'
  BY DEF OneWriter, OneByOne
<1>3. /\ \A q \in Request : handler[q] \notin Downloads \cup {"done"} =>
                             engine'[q] = "none"
      /\ MaxTimeouts = 0 => \A q \in Request : handler[q] = "done" =>
                              engine'[q] \in {"none", "done"}
  BY <1>1 DEF OneWriter
<1>4. \A p, q \in Request : p < q /\ engine'[p] \in Opens => handler[q] = "idle"
  BY <1>1 DEF OneWriter
<1>5. \A p, q \in Request : p < q /\ handler[q] \in Downloads =>
        engine'[p] \notin Opens \cup Writes
  BY <1>1 DEF OneWriter, Opens, Writes
<1>6. \A q \in Request : engine'[q] \in Writes \ Opens => file' # NULL
  BY <1>1 DEF OneWriter
<1>7. engine' \in [Request -> Opens \cup Writes \cup {"none", "clear", "done"}]
  BY DEF OneWriter
<1> QED
  BY <1>2, <1>3, <1>4, <1>5, <1>6, <1>7 DEF OneWriter

LEMMA InitOneWriter == Init => OneWriter
BY DEF Init, OneWriter, OneByOne, Opens, Writes, Downloads

\* The player asks when no request is open and no download about to create
\* the buffer file.
LEMMA PlayerAsksOneWriter ==
  ASSUME Calm, OneWriter, NEW r \in Request, PlayerAsks(r) PROVE OneWriter'
<1>0. \A q \in Request : engine[q] \notin Opens
  <2>1. CASE PatientPlayer
    BY <2>1 DEF PlayerAsks, Opens
  <2>2. CASE MaxTimeouts = 0
    <3> SUFFICES ASSUME NEW q \in Request PROVE engine[q] \in {"none", "done"}
      BY DEF Opens
    <3>1. q \in Int /\ r \in Int
      BY RequestType
    <3>2. handler[q] \in {"idle", "done"}
      <4>1. handler[r] = "idle" /\ \A p \in Request : p < r => handler[p] = "done"
        BY DEF PlayerAsks
      <4>2. q < r \/ q = r \/ r < q
        BY <3>1
      <4> QED
        BY <4>1, <4>2 DEF OneWriter, OneByOne
    <3> QED
      BY <2>2, <3>2 DEF OneWriter, Downloads
  <2> QED
    BY <2>1, <2>2 DEF Calm
<1>1. /\ handler[r] = "idle" /\ handler'[r] = "lookup"
      /\ \A q \in Request \ {r} : handler'[q] = handler[q]
      /\ \A q \in Request : q < r => handler[q] = "done"
      /\ \A q \in Request : engine[q] \notin Opens
      /\ UNCHANGED <<engine, file>>
  BY <1>0 DEF PlayerAsks, OneWriter, downloadVars, diskVars
<1>2. OneByOne'
  <2>1. \A q \in Request : q < r => q # r
    BY RequestType
  <2>2. ASSUME NEW p \in Request, NEW q \in Request, p < q, handler'[q] # "idle"
        PROVE  handler'[p] = "done"
    <3>1. CASE q = r
      BY <1>1, <2>1, <2>2, <3>1
    <3>2. CASE q # r
      <4>1. handler[p] = "done"
        BY <1>1, <2>2, <3>2 DEF OneWriter, OneByOne
      <4> QED
        BY <1>1, <4>1
    <3> QED
      BY <3>1, <3>2
  <2> QED
    BY <2>2 DEF OneByOne
<1>3. /\ \A q \in Request : handler'[q] \notin Downloads \cup {"done"} =>
                             engine[q] = "none"
      /\ MaxTimeouts = 0 => \A q \in Request : handler'[q] = "done" =>
                              engine[q] \in {"none", "done"}
  BY <1>1 DEF OneWriter, Downloads
<1>4. \A q \in Request : handler'[q] \in Downloads => handler[q] \in Downloads
  BY <1>1 DEF Downloads
<1>5. handler' \in [Request -> {"idle", "lookup", "local", "copy", "done"}
                                 \cup Downloads]
  BY DEF PlayerAsks, OneWriter
<1> QED
  BY <1>1, <1>2, <1>3, <1>4, <1>5 DEF OneWriter

\* A download is started only where there is no file, hence nobody at work.
LEMMA LookupOneWriter ==
  ASSUME OneWriter, NEW r \in Request, Lookup(r) PROVE OneWriter'
<1>1. handler[r] = "lookup" /\ file' = file
  BY DEF Lookup, diskVars
<1>2. \A q \in Request : q < r => q # r /\ ~(r < q)
  BY RequestType
<1>3. CASE file # NULL
  <2>1. /\ handler'[r] = "local" /\ engine' = engine
        /\ \A q \in Request \ {r} : handler'[q] = handler[q]
        /\ handler' = [handler EXCEPT ![r] = "local"]
    BY <1>3 DEF Lookup, OneWriter
  <2>2. OneByOne'
    BY <1>1, <2>1 DEF OneWriter, OneByOne
  <2>3. \A p, q \in Request : p < q /\ engine[p] \in Opens => handler'[q] = "idle"
    BY <1>1, <2>1 DEF OneWriter
  <2>4. \A p, q \in Request : p < q /\ handler'[q] \in Downloads =>
          engine[p] \notin Opens \cup Writes
    BY <2>1 DEF OneWriter, Downloads
  <2>5. /\ \A q \in Request : handler'[q] \notin Downloads \cup {"done"} =>
                               engine[q] = "none"
        /\ MaxTimeouts = 0 => \A q \in Request : handler'[q] = "done" =>
                                engine[q] \in {"none", "done"}
    BY <1>1, <2>1 DEF OneWriter, Downloads
  <2>6. handler' \in [Request -> {"idle", "lookup", "local", "copy", "done"}
                                   \cup Downloads]
    BY <2>1 DEF OneWriter
  <2> QED
    BY <1>1, <2>1, <2>2, <2>3, <2>4, <2>5, <2>6 DEF OneWriter
<1>4. CASE file = NULL
  <2>1. /\ handler'[r] = "wait" /\ engine'[r] = "new"
        /\ \A q \in Request \ {r} : handler'[q] = handler[q] /\ engine'[q] = engine[q]
        /\ handler' = [handler EXCEPT ![r] = "wait"]
        /\ engine' = [engine EXCEPT ![r] = "new"]
    BY <1>4 DEF Lookup, OneWriter
  <2>2. OneByOne'
    BY <1>1, <2>1 DEF OneWriter, OneByOne
  <2>3. \A q \in Request : engine[q] \notin Writes \ Opens
    BY <1>4 DEF OneWriter
  <2>4. \A q \in Request : q < r => engine[q] \notin Opens \cup Writes
    BY <1>1, <2>3 DEF OneWriter
  <2>5. \A q \in Request : r < q => handler[q] = "idle"
    BY <1>1 DEF OneWriter, OneByOne
  <2>6. \A p, q \in Request : p < q /\ engine'[p] \in Opens => handler'[q] = "idle"
    <3> SUFFICES ASSUME NEW p \in Request, NEW q \in Request, p < q,
                        engine'[p] \in Opens
                 PROVE  handler'[q] = "idle"
      OBVIOUS
    <3>1. CASE p = r
      BY <1>2, <2>1, <2>5, <3>1
    <3>2. CASE p # r
      BY <1>1, <2>1, <3>2 DEF OneWriter
    <3> QED
      BY <3>1, <3>2
  <2>7. \A p, q \in Request : p < q /\ handler'[q] \in Downloads =>
          engine'[p] \notin Opens \cup Writes
    <3> SUFFICES ASSUME NEW p \in Request, NEW q \in Request, p < q,
                        handler'[q] \in Downloads
                 PROVE  engine'[p] \notin Opens \cup Writes
      OBVIOUS
    <3>1. CASE p = r
      <4>1. q # r /\ handler[q] = "idle"
        BY <1>2, <2>5, <3>1
      <4> QED
        BY <2>1, <4>1 DEF Downloads
    <3>2. CASE p # r
      BY <2>1, <2>4, <3>2 DEF OneWriter
    <3> QED
      BY <3>1, <3>2
  <2>8. /\ \A q \in Request : handler'[q] \notin Downloads \cup {"done"} =>
                               engine'[q] = "none"
        /\ MaxTimeouts = 0 => \A q \in Request : handler'[q] = "done" =>
                                engine'[q] \in {"none", "done"}
    BY <2>1 DEF OneWriter, Downloads
  <2>9. \A q \in Request : engine'[q] \notin Writes \ Opens
    BY <2>1, <2>3 DEF Opens
  <2>10. /\ handler' \in [Request -> {"idle", "lookup", "local", "copy", "done"}
                                      \cup Downloads]
         /\ engine' \in [Request -> Opens \cup Writes \cup {"none", "clear", "done"}]
    BY <2>1 DEF OneWriter, Opens, Downloads
  <2> QED
    BY <2>2, <2>6, <2>7, <2>8, <2>9, <2>10 DEF OneWriter
<1> QED
  BY <1>3, <1>4

\* Who removes the file has waited for its own download, and there is no other.
LEMMA UnlinkAlone ==
  ASSUME OneWriter, NEW r \in Request, Unlink(r)
  PROVE  \A q \in Request : engine[q] \notin Writes
<1> SUFFICES ASSUME NEW q \in Request, engine[q] \in Writes PROVE FALSE
  OBVIOUS
<1>1. handler[r] = "join" /\ engine[r] = "done"
  BY DEF Unlink, Joined
<1>2. q # r /\ q \in Int /\ r \in Int
  BY <1>1, RequestType DEF Writes
<1>3. CASE q < r
  BY <1>1, <1>3 DEF OneWriter, Downloads
<1>4. CASE r < q
  <2>1. handler[q] = "idle"
    BY <1>1, <1>4 DEF OneWriter, OneByOne
  <2> QED
    BY <2>1 DEF OneWriter, Writes, Downloads
<1> QED
  BY <1>2, <1>3, <1>4

LEMMA HandlerOneWriter ==
  ASSUME OneWriter, TypeOK, NEW r \in Request,
         \/ SendLocal(r) \/ Wait(r) \/ Send(r) \/ Check(r) \/ Finish(r)
         \/ Unlink(r)
  PROVE  OneWriter'
<1>1. ASSUME UNCHANGED <<handler, engine, file>> PROVE OneWriter'
  BY <1>1 DEF OneWriter, OneByOne
<1>2. CASE SendLocal(r)
  <2>1. /\ handler[r] \in {"local", "copy"} /\ UNCHANGED <<engine, file>>
        /\ \/ handler' = handler
           \/ \E h \in {"copy", "done"} : handler' = [handler EXCEPT ![r] = h]
    BY <1>2 DEF SendLocal, downloadVars, diskVars
  <2>2. engine[r] = "none" /\ handler[r] \notin Downloads
    BY <2>1 DEF OneWriter, Downloads
  <2> QED
    BY <1>1, <2>1, <2>2, HandlerMoves DEF Downloads
<1>3. CASE Wait(r) \/ Send(r) \/ Check(r) \/ Finish(r)
  <2>1. /\ handler[r] \in Downloads /\ UNCHANGED <<engine, file>>
        /\ \/ handler' = handler
           \/ \E h \in Downloads : handler' = [handler EXCEPT ![r] = h]
           \/ /\ timeouts < MaxTimeouts
              /\ handler' = [handler EXCEPT ![r] = "done"]
    BY <1>3 DEF Wait, Send, Check, Finish, downloadVars, diskVars, Downloads
  <2>2. timeouts < MaxTimeouts => MaxTimeouts # 0
    BY DEF TypeOK
  <2>3. "done" \notin Downloads /\ "copy" \notin Downloads
    BY DEF Downloads
  <2> QED
    BY <1>1, <2>1, <2>2, <2>3, HandlerMoves
<1>4. CASE Unlink(r)
  <2>1. /\ handler[r] \in Downloads /\ engine' = engine /\ engine[r] = "done"
        /\ handler' = [handler EXCEPT ![r] = "done"]
    BY <1>4 DEF Unlink, Joined, downloadVars, Downloads
  <2> QED
    BY <1>4, <2>1, UnlinkAlone, HandlerMoves DEF Downloads
<1> QED
  BY <1>2, <1>3, <1>4

LEMMA EngineOneWriter ==
  ASSUME OneWriter, NEW r \in Request, Engine(r) PROVE OneWriter'
<1>1. ASSUME UNCHANGED <<handler, engine, file>> PROVE OneWriter'
  BY <1>1 DEF OneWriter, OneByOne
<1>2. CASE New(r)
  <2>1. /\ engine[r] = "new" /\ UNCHANGED <<handler, file>>
        /\ engine' = [engine EXCEPT ![r] = "open"]
    BY <1>2 DEF New, diskVars
  <2> QED
    BY <2>1, EngineMoves DEF Opens, Writes
<1>7. CASE NewFails(r)
  <2>1. /\ engine[r] = "new" /\ UNCHANGED <<handler, file>>
        /\ engine' = engine \/ engine' = [engine EXCEPT ![r] = "done"]
    BY <1>7 DEF NewFails, diskVars
  <2> QED
    BY <1>1, <2>1, EngineMoves DEF Opens, Writes
<1>3. CASE Open(r)
  <2>1. /\ engine[r] = "open" /\ handler' = handler
        /\ \/ UNCHANGED <<engine, file>>
           \/ /\ engine' = [engine EXCEPT ![r] = "loop"]
              /\ file' = IF file = NULL THEN r ELSE file
    BY <1>3 DEF Open
  <2>2. r # NULL
    BY RequestType
  <2> QED
    BY <1>1, <2>1, <2>2, EngineMoves DEF Opens, Writes
<1>4. CASE Turn(r)
  <2>1. /\ engine[r] = "loop" /\ UNCHANGED <<handler, file>>
        /\ engine' = engine \/ engine' = [engine EXCEPT ![r] = "join"]
    BY <1>4 DEF Turn, Stores, Fails, Leaves
  <2>2. file # NULL
    BY <2>1 DEF OneWriter, Opens, Writes
  <2> QED
    BY <1>1, <2>1, <2>2, EngineMoves DEF Opens, Writes
<1>5. CASE Close(r)
  <2>1. /\ engine[r] = "join" /\ UNCHANGED <<handler, file>>
        /\ engine' = engine \/ engine' = [engine EXCEPT ![r] = "clear"]
    BY <1>5 DEF Close, diskVars
  <2> QED
    BY <1>1, <2>1, EngineMoves DEF Opens, Writes
<1>6. CASE Clear(r)
  <2>1. /\ engine[r] = "clear" /\ UNCHANGED <<handler, file>>
        /\ engine' = [engine EXCEPT ![r] = "done"]
    BY <1>6 DEF Clear, diskVars
  <2> QED
    BY <2>1, EngineMoves DEF Opens, Writes
<1> QED
  BY <1>2, <1>3, <1>4, <1>5, <1>6, <1>7 DEF Engine

\* No request waits for a download of its own while that of an earlier one is
\* about to open the buffer file or still writes it: with errors and, if the
\* player is patient, time-outs.
THEOREM OneWriterHolds == ASSUME Calm PROVE FairSpec => []OneWriter
<1>1. ASSUME OneWriter, TypeOK, [Next]_vars PROVE OneWriter'
  <2>1. ASSUME UNCHANGED <<handler, engine, file>> PROVE OneWriter'
    BY <1>1, <2>1 DEF OneWriter, OneByOne
  <2>2. ASSUME NEW r \in Request, Logger(r) PROVE OneWriter'
    BY <2>1, <2>2 DEF Logger, diskVars
  <2>3. CASE Terminated \/ UNCHANGED vars
    BY <2>1, <2>3 DEF Terminated, vars, diskVars, downloadVars
  <2> QED
    BY <1>1, <2>2, <2>3, PlayerAsksOneWriter, LookupOneWriter, HandlerOneWriter,
       EngineOneWriter DEF Next, Handler
<1> QED
  BY <1>1, InitOneWriter, TypeOKHolds, PTL DEF FairSpec

\* unlink in accept_request (ahttpd.c) never takes the buffer file away from a
\* download, also when gb_process fails or does not wait for the request to be
\* answered: without time-outs always, with them if the player is patient.
THEOREM RemovedWhenClosedHolds == ASSUME Calm PROVE FairSpec => RemovedWhenClosed
<1> DEFINE Removed == file # NULL /\ file' = NULL =>
                        \A r \in Request : engine[r] \notin {"open", "loop", "join"}
<1>1. ASSUME OneWriter, [Next]_vars PROVE Removed
  <2> SUFFICES ASSUME file # NULL, file' = NULL
               PROVE  \A r \in Request : engine[r] \notin Writes
    BY DEF Writes
  <2>1. ASSUME NEW r \in Request, ~Unlink(r),
               PlayerAsks(r) \/ Handler(r) \/ Engine(r) \/ Logger(r)
        PROVE  FALSE
    <3>1. file' = file \/ file' = r
      BY <2>1 DEF PlayerAsks, Handler, Lookup, SendLocal, Wait, Send, Check, Finish,
                  Engine, New, NewFails, Open, Turn, Close, Clear, Logger, diskVars
    <3> QED
      BY <3>1, RequestType
  <2>2. \E r \in Request : Unlink(r)
    BY <1>1, <2>1 DEF Next, Terminated, vars, diskVars
  <2> QED
    BY <1>1, <2>2, UnlinkAlone
<1>2. OneWriter /\ [Next]_vars => [Removed]_vars
  BY <1>1
<1>3. FairSpec => [][Next]_vars
  BY PTL DEF FairSpec
<1>4. FairSpec => [][Removed]_vars
  BY <1>2, <1>3, OneWriterHolds, PTL
<1> QED
  BY <1>4 DEF RemovedWhenClosed
=============================================================================
