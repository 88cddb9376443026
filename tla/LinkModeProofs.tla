---------------------------- MODULE LinkModeProofs ----------------------------
(***************************************************************************)
(* Theorems about LinkMode, for all sizes of files, all rates of the links *)
(* and all values of the two counters.                                     *)
(***************************************************************************)
EXTENDS LinkMode, TLAPS

(***************************************************************************)
(* The order by energy.  Two single links cost a and b for a byte; with    *)
(* both, s of n bytes come over the first.                                 *)
(***************************************************************************)

\* The charge for bytes divided between two links lies between the charges
\* for the whole over either.
LEMMA BetweenCosts ==
  ASSUME NEW a \in Nat, NEW b \in Nat, NEW n \in Nat, NEW s \in 0 .. n
  PROVE  a * n <= a * s + b * (n - s) \/ b * n <= a * s + b * (n - s)
<1> n - s \in Nat /\ s \in Nat
  OBVIOUS
<1>1. a * n = a * s + a * (n - s) /\ b * n = b * s + b * (n - s)
  OBVIOUS
<1>2. CASE a <= b
  <2>1. a * (n - s) <= b * (n - s)
    BY <1>2
  <2> QED
    BY <1>1, <2>1
<1>3. CASE b <= a
  <2>1. b * s <= a * s
    BY <1>3
  <2> QED
    BY <1>1, <2>1
<1> QED
  BY <1>2, <1>3

\* The share of LTE is a part of the bytes.
LEMMA ShareInRange ==
  ASSUME NEW n \in Nat, NEW g \in [Conn -> Nat \ {0}]
  PROVE  LteShare(n, g) \in 0 .. n
<1> DEFINE p == g[INDEX_LTE]
           q == g[INDEX_WIFI]
<1>1. p \in Nat \ {0} /\ q \in Nat \ {0}
  BY DEF Conn
<1> HIDE DEF p, q
<1>2. p * n \in Nat /\ p + q \in Nat \ {0} /\ q * n \in Nat
  BY <1>1
<1>3. (p + q) * n = p * n + q * n
  BY <1>1
<1>4. (p * n) \div (p + q) \in 0 .. n
  <2> DEFINE x == p * n
             d == p + q
             y == (p + q) * n
  <2>1. x \in Nat /\ d \in Nat \ {0} /\ x <= d * n
    BY <1>2, <1>3, <1>1
  <2> HIDE DEF x, d
  <2>2. x \div d \in Nat /\ d * (x \div d) <= x
    BY <2>1
  <2>3. x \div d <= n
    BY <2>1, <2>2
  <2> QED
    BY <2>2, <2>3 DEF x, d
<1> QED
  BY <1>4 DEF LteShare, p, q

\* The charges are natural numbers, and both links together never cost less
\* than the better one alone.
LEMMA EnergyOfModes ==
  ASSUME NEW n \in Nat, NEW g \in [Conn -> Nat \ {0}]
  PROVE  /\ Energy(n, g) \in [LinkMode -> Nat]
         /\ \E m \in SingleMode : Energy(n, g)[m] <= Energy(n, g)[DUAL_LINK_MODE]
<1> DEFINE a == LteCost(g)
           b == WifiCost(g)
           s == LteShare(n, g)
<1>1. a \in Nat /\ b \in Nat
  BY DEF Conn, LteCost, WifiCost, LTE_POW_ALPHA, LTE_POW_BETA, WIFI_POW_ALPHA,
         WIFI_POW_BETA, INDEX_LTE, INDEX_WIFI
<1>2. s \in 0 .. n
  BY ShareInRange
<1>3. /\ Energy(n, g)[LTE_SINGLE_LINK_MODE] = a * n
      /\ Energy(n, g)[WIFI_SINGLE_LINK_MODE] = b * n
      /\ Energy(n, g)[DUAL_LINK_MODE] = a * s + b * (n - s)
      /\ Energy(n, g) = [m \in LinkMode |->
           IF m = LTE_SINGLE_LINK_MODE THEN a * n
           ELSE IF m = WIFI_SINGLE_LINK_MODE THEN b * n
           ELSE a * s + b * (n - s)]
  BY DEF Energy, LinkMode, DUAL_LINK_MODE, LTE_SINGLE_LINK_MODE,
         WIFI_SINGLE_LINK_MODE
<1> HIDE DEF a, b, s
<1>4. a * n <= a * s + b * (n - s) \/ b * n <= a * s + b * (n - s)
  BY <1>1, <1>2, BetweenCosts
<1>5. a * n \in Nat /\ b * n \in Nat /\ a * s + b * (n - s) \in Nat
  BY <1>1, <1>2
<1> QED
  BY <1>3, <1>4, <1>5 DEF SingleMode, LinkMode, DUAL_LINK_MODE,
     LTE_SINGLE_LINK_MODE, WIFI_SINGLE_LINK_MODE

\* get_three_sorted_index sorts, also where values are equal.
LEMMA SortsThree ==
  ASSUME NEW e \in [LinkMode -> Nat]
  PROVE  /\ MinIndex(e) \in LinkMode /\ MiddleIndex(e) \in LinkMode
         /\ MaxIndex(e) \in LinkMode
         /\ e[MinIndex(e)] <= e[MiddleIndex(e)]
         /\ e[MiddleIndex(e)] <= e[MaxIndex(e)]
<1> USE DEF LinkMode, DUAL_LINK_MODE, LTE_SINGLE_LINK_MODE, WIFI_SINGLE_LINK_MODE
<1>1. \E m \in LinkMode :
        \A k \in LinkMode : e[m] < e[k] \/ (e[m] = e[k] /\ m <= k)
  <2>1. CASE e[0] <= e[1] /\ e[0] <= e[2]
    <3> WITNESS 0 \in LinkMode
    <3> QED BY <2>1
  <2>2. CASE e[1] < e[0] /\ e[1] <= e[2]
    <3> WITNESS 1 \in LinkMode
    <3> QED BY <2>2
  <2>3. CASE e[2] < e[0] /\ e[2] < e[1]
    <3> WITNESS 2 \in LinkMode
    <3> QED BY <2>3
  <2> QED BY <2>1, <2>2, <2>3
<1>2. \E m \in LinkMode :
        \A k \in LinkMode : e[m] > e[k] \/ (e[m] = e[k] /\ m <= k)
  <2>1. CASE e[0] >= e[1] /\ e[0] >= e[2]
    <3> WITNESS 0 \in LinkMode
    <3> QED BY <2>1
  <2>2. CASE e[1] > e[0] /\ e[1] >= e[2]
    <3> WITNESS 1 \in LinkMode
    <3> QED BY <2>2
  <2>3. CASE e[2] > e[0] /\ e[2] > e[1]
    <3> WITNESS 2 \in LinkMode
    <3> QED BY <2>3
  <2> QED BY <2>1, <2>2, <2>3
<1>3. /\ MinIndex(e) \in LinkMode
      /\ \A k \in LinkMode : e[MinIndex(e)] <= e[k]
  BY <1>1 DEF MinIndex
<1>4. /\ MaxIndex(e) \in LinkMode
      /\ \A k \in LinkMode : e[k] <= e[MaxIndex(e)]
  BY <1>2 DEF MaxIndex
<1>5. MiddleIndex(e) \in LinkMode
  <2> DEFINE L == LinkMode \ {MinIndex(e), MaxIndex(e)}
  <2>1. \E m \in L : \A k \in L : m <= k
    BY <1>3, <1>4
  <2> QED
    BY <2>1 DEF MiddleIndex
<1> QED
  BY <1>3, <1>4, <1>5

\* OrderIsByEnergy holds in any state with goodputs that are natural numbers.
LEMMA SortedByEnergy ==
  ASSUME rest \in Nat, ewma_bytes_per_second \in [Conn -> Nat]
  PROVE  OrderIsByEnergy
<1> SUFFICES ASSUME NEW n \in 1 .. rest,
                    \A i \in Conn : ewma_bytes_per_second[i] > 0
             PROVE  LET e == Energy(n, ewma_bytes_per_second)
                        order == energy_sorted_link_modes(n, ewma_bytes_per_second)
                    IN  /\ \A k \in 1 .. 2 : e[order[k]] <= e[order[k + 1]]
                        /\ \E m \in SingleMode : e[m] <= e[DUAL_LINK_MODE]
  BY DEF OrderIsByEnergy
<1> DEFINE g == ewma_bytes_per_second
           e == Energy(n, g)
           order == energy_sorted_link_modes(n, g)
<1>1. n \in Nat /\ g \in [Conn -> Nat \ {0}]
  OBVIOUS
<1>2. /\ e \in [LinkMode -> Nat]
      /\ \E m \in SingleMode : e[m] <= e[DUAL_LINK_MODE]
  BY <1>1, EnergyOfModes
<1>3. order = <<MinIndex(e), MiddleIndex(e), MaxIndex(e)>>
  BY DEF energy_sorted_link_modes
<1> HIDE DEF e, g
<1>4. e[order[1]] <= e[order[2]] /\ e[order[2]] <= e[order[3]]
  BY <1>2, <1>3, SortsThree
<1>5. \A k \in 1 .. 2 : e[order[k]] <= e[order[k + 1]]
  BY <1>4
<1> QED
  BY <1>2, <1>5 DEF e, g
-----------------------------------------------------------------------------
(***************************************************************************)
(* The state.  Counted is what makes MissesAreBounded inductive: while a   *)
(* single link is in use, the static counter is not behind the misses.     *)
(***************************************************************************)
Counted == current_link_mode # DUAL_LINK_MODE => missed <= num_est_qmiss

Decides == TypeOK /\ Counted

LEMMA InitDecides == Init => Decides
<1> SUFFICES ASSUME Init PROVE Decides
  OBVIOUS
<1> USE SizesAssumption, CountersAssumption, SessionsAssumption
<1>1. size \in Nat /\ size > 1 /\ rest \in 0 .. size - 1
  BY DEF Init
<1>2. /\ session \in 1 .. MaxSessions
      /\ 0 \in 0 .. MAX_NUM_EST_QMISS - 1
      /\ 0 \in 0 .. MAX_NUM_GLITCH - 1
      /\ played \in 0 .. size
  BY <1>1 DEF Init
<1>3. /\ received \in [Conn -> BOOLEAN]
      /\ ewma_bytes_per_second \in [Conn -> Rate \cup {0}]
  BY DEF Init
<1>4. TypeOK
  BY <1>1, <1>2, <1>3 DEF Init, TypeOK, LinkMode, DUAL_LINK_MODE
<1> QED
  BY <1>4 DEF Decides, Counted, Init

\* What schedules n bytes keeps the types of what it changes.
LEMMA SchedulesTyped ==
  ASSUME TypeOK, NEW n \in 0 .. rest, Schedules(n)
  PROVE  /\ rest' \in 0 .. size - 1
         /\ received' \in [Conn -> BOOLEAN]
         /\ ewma_bytes_per_second' \in [Conn -> Rate \cup {0}]
         /\ UNCHANGED <<session, size, completed, played>>
<1>1. size \in Nat
  BY SizesAssumption DEF TypeOK
<1> QED
  BY <1>1 DEF TypeOK, Schedules, UpdatesGoodput, sessionVars

\* Modes are taken from the list of the three modes.
LEMMA CheapestIsMode ==
  ASSUME NEW n \in Nat, NEW g \in [Conn -> Nat], \A i \in Conn : g[i] > 0
  PROVE  Cheapest(n, g) \in LinkMode
<1> DEFINE e == Energy(n, g)
<1>1. e \in [LinkMode -> Nat]
  <2>1. g \in [Conn -> Nat \ {0}]
    OBVIOUS
  <2> QED
    BY <2>1, EnergyOfModes
<1> HIDE DEF e
<1>2. MinIndex(e) \in LinkMode
  BY <1>1, SortsThree
<1> QED
  BY <1>2 DEF Cheapest, energy_sorted_link_modes, e

\* Considers chooses a mode for the session, or ends the process.
LEMMA ConsidersTyped ==
  ASSUME TypeOK, Considers, rest' \in Nat,
         ewma_bytes_per_second' \in [Conn -> Nat], UNCHANGED size
  PROVE  /\ missed' = 0
         /\ current_link_mode' \in LinkMode
         /\ single_link_mode_flag' \in BOOLEAN
         /\ aborted' \in BOOLEAN
<1>1. missed' = 0
  BY DEF Considers
<1>2. CASE HasGoodput(ewma_bytes_per_second')
  <2> DEFINE m == Cheapest(rest', ewma_bytes_per_second')
  <2>1. m \in LinkMode
    BY <1>2, CheapestIsMode DEF HasGoodput
  <2>2. \E k \in {m, current_link_mode} : Chosen(k)
    BY <1>2 DEF Considers, TakesCheapest
  <2> QED
    BY <1>1, <2>1, <2>2 DEF Chosen, TypeOK
<1>3. CASE ~HasGoodput(ewma_bytes_per_second')
  BY <1>1, <1>3 DEF Considers, TypeOK
<1> QED
  BY <1>2, <1>3

\* Goodputs are natural numbers.
LEMMA GoodputIsNat ==
  ASSUME NEW f \in [Conn -> Rate \cup {0}] PROVE f \in [Conn -> Nat]
<1>1. \A x \in Rate \cup {0} : x \in Nat
  BY RateAssumption
<1>2. \A i \in Conn : f[i] \in Rate \cup {0}
  OBVIOUS
<1>3. \A i \in Conn : f[i] \in Nat
  BY <1>1, <1>2, Zenon
<1> QED
  BY <1>3

\* What is known of the numbers whenever a segment was scheduled.
LEMMA ScheduledNumbers ==
  ASSUME TypeOK, NEW n \in 0 .. rest, Schedules(n)
  PROVE  rest' \in Nat /\ ewma_bytes_per_second' \in [Conn -> Nat]
<1>1. size \in Nat
  BY SizesAssumption DEF TypeOK
<1>2. rest' \in 0 .. size - 1 /\ ewma_bytes_per_second' \in [Conn -> Rate \cup {0}]
  BY SchedulesTyped
<1>3. ewma_bytes_per_second' \in [Conn -> Nat]
  BY <1>2, GoodputIsNat
<1> QED
  BY <1>1, <1>2, <1>3

LEMMA NoChoiceStep == Decides /\ NoChoice => Decides'
<1> SUFFICES ASSUME Decides, NoChoice PROVE Decides'
  OBVIOUS
<1>1. PICK n \in 0 .. rest : Schedules(n)
  BY DEF NoChoice
<1>2. TypeOK /\ Counted
  BY DEF Decides
<1> QED
  BY <1>1, <1>2, SchedulesTyped
  DEF NoChoice, modeVars, Decides, TypeOK, Counted

LEMMA NotPlayingStep == Decides /\ NotPlaying => Decides'
<1> SUFFICES ASSUME Decides, NotPlaying PROVE Decides'
  OBVIOUS
<1>1. PICK n \in 1 .. rest : Schedules(n)
  BY DEF NotPlaying, Asked
<1>2. TypeOK /\ Counted
  BY DEF Decides
<1>3. n \in 0 .. rest
  OBVIOUS
<1>4. last_num_vframe_decoded' \in Nat
  <2>1. played \in Nat
    BY <1>2, SizesAssumption DEF TypeOK
  <2> QED
    BY <1>2, <2>1 DEF NotPlaying, TypeOK
<1>5. /\ num_glitch' \in 0 .. MAX_NUM_GLITCH - 1
      /\ missed' \in Nat
      /\ current_link_mode' \in LinkMode
      /\ single_link_mode_flag' = (current_link_mode' # DUAL_LINK_MODE)
      /\ Counted'
  BY <1>2, CountersAssumption
  DEF NotPlaying, Chosen, TypeOK, Counted, LinkMode
<1> QED
  BY <1>1, <1>2, <1>3, <1>4, <1>5, SchedulesTyped
  DEF NotPlaying, Chosen, Decides, TypeOK

\* A step of a player that plays: the glitches are forgotten.
LEMMA PlayingTyped ==
  ASSUME TypeOK, NEW n \in 1 .. rest, Playing(n)
  PROVE  /\ last_num_vframe_decoded' \in Nat
         /\ num_glitch' \in 0 .. MAX_NUM_GLITCH - 1
         /\ n \in 0 .. rest
         /\ Schedules(n)
<1>1. played \in Nat
  BY SizesAssumption DEF TypeOK
<1> QED
  BY <1>1, CountersAssumption DEF Playing, Asked

LEMMA SingleMissesStep == Decides /\ SingleMisses => Decides'
<1> SUFFICES ASSUME Decides, SingleMisses PROVE Decides'
  OBVIOUS
<1>1. PICK n \in 1 .. rest : Playing(n)
  BY DEF SingleMisses
<1>2. TypeOK /\ Counted
  BY DEF Decides
<1>3. /\ num_est_qmiss' \in 0 .. MAX_NUM_EST_QMISS - 1
      /\ missed' \in Nat
      /\ current_link_mode' \in LinkMode
      /\ single_link_mode_flag' = (current_link_mode' # DUAL_LINK_MODE)
      /\ Counted'
  BY <1>2, CountersAssumption
  DEF SingleMisses, TooManyMisses, Chosen, TypeOK, Counted, LinkMode
<1>4. /\ aborted' = aborted
      /\ video_duration' \in Sizes \cup {0}
  BY <1>2 DEF SingleMisses, Chosen, Duration, TypeOK
<1> QED
  BY <1>1, <1>2, <1>3, <1>4, PlayingTyped, SchedulesTyped
  DEF Decides, TypeOK

\* SingleFits and DualFits differ in the counter only.
LEMMA FitsStep ==
  ASSUME Decides, Considers, NEW n \in 1 .. rest, Playing(n),
         num_est_qmiss' \in {0, num_est_qmiss},
         video_duration' \in {Duration, video_duration}
  PROVE  Decides'
<1>1. TypeOK /\ Counted
  BY DEF Decides
<1>2. rest' \in Nat /\ ewma_bytes_per_second' \in [Conn -> Nat]
  BY <1>1, PlayingTyped, ScheduledNumbers
<1>3. num_est_qmiss' \in 0 .. MAX_NUM_EST_QMISS - 1
  BY <1>1, CountersAssumption DEF TypeOK
<1>4. /\ rest' \in 0 .. size - 1
      /\ received' \in [Conn -> BOOLEAN]
      /\ ewma_bytes_per_second' \in [Conn -> Rate \cup {0}]
      /\ UNCHANGED <<session, size, completed, played>>
  BY <1>1, PlayingTyped, SchedulesTyped
<1>5. video_duration' \in Sizes \cup {0}
  BY <1>1 DEF Duration, TypeOK
<1>6. /\ missed' = 0
      /\ current_link_mode' \in LinkMode
      /\ single_link_mode_flag' \in BOOLEAN
      /\ aborted' \in BOOLEAN
  BY <1>1, <1>2, <1>4, ConsidersTyped
<1> QED
  BY <1>1, <1>3, <1>4, <1>5, <1>6, PlayingTyped DEF Decides, TypeOK, Counted

LEMMA FitStep == Decides /\ (SingleFits \/ DualFits) => Decides'
<1> SUFFICES ASSUME Decides, SingleFits \/ DualFits PROVE Decides'
  OBVIOUS
<1>1. PICK n \in 1 .. rest : Playing(n)
  BY DEF SingleFits, DualFits
<1>2. /\ Considers
      /\ num_est_qmiss' \in {0, num_est_qmiss}
      /\ video_duration' \in {Duration, video_duration}
  BY DEF SingleFits, DualFits
<1> QED
  BY <1>1, <1>2, FitsStep

LEMMA DualMissesStep == Decides /\ DualMisses => Decides'
<1> SUFFICES ASSUME Decides, DualMisses PROVE Decides'
  OBVIOUS
<1>1. PICK n \in 1 .. rest : Playing(n)
  BY DEF DualMisses
<1>2. TypeOK
  BY DEF Decides
<1>3. /\ current_link_mode' = DUAL_LINK_MODE
      /\ single_link_mode_flag' = FALSE
      /\ UNCHANGED <<aborted, num_est_qmiss, missed, video_duration>>
  BY DEF DualMisses, Chosen
<1> QED
  BY <1>1, <1>2, <1>3, PlayingTyped, SchedulesTyped
  DEF Decides, TypeOK, Counted, LinkMode

\* What goes on around the decisions changes no counter.
LEMMA OtherSteps ==
  ASSUME Decides, (\E i \in Conn : Receives(i)) \/ Completes \/ MayRecover \/ Plays
  PROVE  Decides'
<1>1. TypeOK /\ Counted
  BY DEF Decides
<1>2. size \in Nat /\ played \in Nat
  BY <1>1, SizesAssumption DEF TypeOK
<1>3. CASE \E i \in Conn : Receives(i)
  BY <1>1, <1>3
  DEF Receives, sessionVars, modeVars, Decides, TypeOK, Counted
<1>4. CASE Completes
  BY <1>1, <1>4
  DEF Completes, sessionVars, goodputVars, modeVars, Decides, TypeOK, Counted
<1>5. CASE MayRecover
  BY <1>1, <1>2, <1>5
  DEF MayRecover, sessionVars, goodputVars, Decides, TypeOK, Counted
<1>6. CASE Plays
  <2>1. played' \in 0 .. size
    BY <1>1, <1>2, <1>6 DEF Plays, TypeOK
  <2> QED
    BY <1>1, <1>6, <2>1
    DEF Plays, sessionVars, goodputVars, modeVars, Decides, TypeOK, Counted
<1> QED
  BY <1>3, <1>4, <1>5, <1>6

LEMMA NextSessionStep == Decides /\ NextSession => Decides'
<1> SUFFICES ASSUME Decides, NextSession PROVE Decides'
  OBVIOUS
<1>1. TypeOK /\ Counted
  BY DEF Decides
<1>2. /\ session' \in 1 .. MaxSessions
      /\ size' \in Sizes
      /\ rest' \in 0 .. size' - 1
      /\ played' \in 0 .. size'
  <2>1. session' \in 1 .. MaxSessions
    BY <1>1, SessionsAssumption DEF NextSession, TypeOK
  <2>2. size' \in Sizes /\ rest' = size' - 1 /\ played' = 0
    BY DEF NextSession, Starts
  <2>3. size' \in Nat /\ size' > 1
    BY <2>2, SizesAssumption
  <2>4. rest' \in 0 .. size' - 1
    <3>1. \A k \in Nat : k > 1 => k - 1 \in 0 .. k - 1
      OBVIOUS
    <3> QED
      BY <2>2, <2>3, <3>1, Zenon
  <2>5. played' \in 0 .. size'
    BY <2>2, <2>3
  <2> QED
    BY <2>1, <2>2, <2>4, <2>5
<1>3. /\ received' \in [Conn -> BOOLEAN]
      /\ ewma_bytes_per_second' \in [Conn -> Rate \cup {0}]
      /\ completed' \in BOOLEAN /\ single_link_mode_flag' \in BOOLEAN
  BY DEF NextSession, Starts
<1>4. UNCHANGED <<current_link_mode, num_est_qmiss, num_glitch, video_duration,
                  last_num_vframe_decoded, missed, aborted>>
  BY DEF NextSession
<1> QED
  BY <1>1, <1>2, <1>3, <1>4 DEF Decides, TypeOK, Counted

LEMMA NextDecides == Decides /\ [Next]_vars => Decides'
<1> SUFFICES ASSUME Decides, [Next]_vars PROVE Decides'
  OBVIOUS
<1>1. CASE Choose
  BY <1>1, NoChoiceStep, NotPlayingStep, SingleMissesStep, FitStep,
     DualMissesStep
  DEF Choose
<1>2. CASE (\E i \in Conn : Receives(i)) \/ Completes \/ MayRecover \/ Plays
  BY <1>2, OtherSteps
<1>3. CASE NextSession
  BY <1>3, NextSessionStep
<1>4. CASE UNCHANGED vars
  BY <1>4
  DEF vars, sessionVars, goodputVars, modeVars, Decides, TypeOK, Counted
<1> QED
  BY <1>1, <1>2, <1>3, <1>4 DEF Next, Aborted

LEMMA AlwaysDecides == Spec => []Decides
<1> QED
  BY InitDecides, NextDecides, PTL DEF Spec
-----------------------------------------------------------------------------
\* Type correctness: the counters never leave their range.
THEOREM TypeCorrect == Spec => []TypeOK
<1>1. Decides => TypeOK
  BY DEF Decides
<1> QED
  BY AlwaysDecides, <1>1, PTL

\* The misses that are tolerated in a row stay below MAX_NUM_EST_QMISS.
THEOREM MissesBounded == Spec => []MissesAreBounded
<1>1. Decides => MissesAreBounded
  BY CountersAssumption DEF Decides, TypeOK, Counted, MissesAreBounded
<1> QED
  BY AlwaysDecides, <1>1, PTL

\* The modes are sorted by the energy they need, and both links together
\* never need the least.
THEOREM EnergyOrder == Spec => []OrderIsByEnergy
<1>1. Decides => OrderIsByEnergy
  <2> SUFFICES ASSUME TypeOK PROVE OrderIsByEnergy
    BY DEF Decides
  <2>1. rest \in Nat
    BY SizesAssumption DEF TypeOK
  <2>2. ewma_bytes_per_second \in [Conn -> Nat]
    BY GoodputIsNat DEF TypeOK
  <2> QED
    BY <2>1, <2>2, SortedByEnergy
<1> QED
  BY AlwaysDecides, <1>1, PTL
=============================================================================
