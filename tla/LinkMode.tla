------------------------------- MODULE LinkMode -------------------------------
(***************************************************************************)
(* choose_link_mode (energy.c): with each new segment the download decides *)
(* whether the rest of the file comes over both links or over the one that *)
(* costs less energy.  It looks at the goodput of the links                *)
(* (gb_update_goodput, gb.c), at the player (player_time.c) and at what it *)
(* remembers in static variables, which outlive a session.                 *)
(*                                                                         *)
(* Bytes and seconds are scaled so that the video plays one unit of the    *)
(* file in one unit of time; goodput is in units per unit of time.  The    *)
(* charge for the LTE tail is left out: all three modes get the same one,  *)
(* so that it does not change their order.                                 *)
(***************************************************************************)
EXTENDS Integers, Sequences

CONSTANTS
  Sizes,             \* sizes of the files that are played one after another
  Rate,              \* goodput that a link may show
  MAX_NUM_EST_QMISS, \* 2; 3 on Android
  MAX_NUM_GLITCH,    \* 2 on Android; 1 says that there is no such counter
  MaxSessions        \* bound: files played by one process

ASSUME SizesAssumption == Sizes \subseteq Nat \ {0, 1}
ASSUME RateAssumption == Rate \subseteq Nat \ {0}
ASSUME CountersAssumption == /\ MAX_NUM_EST_QMISS \in Nat \ {0}
                             /\ MAX_NUM_GLITCH \in Nat \ {0}
ASSUME SessionsAssumption == MaxSessions \in Nat \ {0}

INDEX_LTE == 0
INDEX_WIFI == 1
Conn == {INDEX_LTE, INDEX_WIFI}

DUAL_LINK_MODE == 0
LTE_SINGLE_LINK_MODE == 1
WIFI_SINGLE_LINK_MODE == 2
LinkMode == {DUAL_LINK_MODE, LTE_SINGLE_LINK_MODE, WIFI_SINGLE_LINK_MODE}
SingleMode == LinkMode \ {DUAL_LINK_MODE}

VARIABLES
  session,      \* the number of the session
  size,         \* gb->size
  rest,         \* get_remaining_file_size: bytes in no segment yet
  completed,    \* completed_segment_count > 0
  received,     \* whether conn[i].bytes_done # 0
  ewma_bytes_per_second,
  single_link_mode_flag,
  played,       \* the player's position, and the frames it has decoded
  current_link_mode, num_est_qmiss, num_glitch,  \* statics of energy.c
  video_duration,             \* static of player_time.c, 0 while not set
  last_num_vframe_decoded,    \* static of player_time.c
  missed,       \* history: misses in a row since a single link was chosen
  aborted       \* an assertion failed

sessionVars == <<session, size>>
goodputVars == <<received, ewma_bytes_per_second>>
modeVars == <<single_link_mode_flag, current_link_mode, num_est_qmiss,
              num_glitch, video_duration, last_num_vframe_decoded, missed,
              aborted>>
vars == <<sessionVars, rest, completed, goodputVars, played, modeVars>>

\* gb_new and gb_init_segment_setup: gb is zeroed and the first segment made.
Starts ==
  /\ size' \in Sizes
  /\ rest' = size' - 1
  /\ completed' = FALSE
  /\ received' = [i \in Conn |-> FALSE]
  /\ ewma_bytes_per_second' = [i \in Conn |-> 0]
  /\ single_link_mode_flag' = FALSE
  /\ played' = 0

Init ==
  /\ session = 1
  /\ size \in Sizes
  /\ rest = size - 1
  /\ completed = FALSE
  /\ received = [i \in Conn |-> FALSE]
  /\ ewma_bytes_per_second = [i \in Conn |-> 0]
  /\ single_link_mode_flag = FALSE
  /\ played = 0
  /\ current_link_mode = DUAL_LINK_MODE
  /\ num_est_qmiss = 0
  /\ num_glitch = 0
  /\ video_duration = 0
  /\ last_num_vframe_decoded = 0
  /\ missed = 0
  /\ aborted = FALSE
-----------------------------------------------------------------------------
(* Estimates.  g is the goodput of each link, n a number of bytes.         *)

\* get_energy_consumption, in hundredths, times the goodput of both links.
LTE_POW_ALPHA == 1672
LTE_POW_BETA == 202220
WIFI_POW_ALPHA == 2419
WIFI_POW_BETA == 36090

LteCost(g) == (LTE_POW_ALPHA * g[INDEX_LTE] + LTE_POW_BETA) * g[INDEX_WIFI]
WifiCost(g) == (WIFI_POW_ALPHA * g[INDEX_WIFI] + WIFI_POW_BETA) * g[INDEX_LTE]
LteShare(n, g) == (g[INDEX_LTE] * n) \div (g[INDEX_LTE] + g[INDEX_WIFI])

Energy(n, g) ==
  [m \in LinkMode |->
     IF m = LTE_SINGLE_LINK_MODE THEN LteCost(g) * n
     ELSE IF m = WIFI_SINGLE_LINK_MODE THEN WifiCost(g) * n
     ELSE LteCost(g) * LteShare(n, g) + WifiCost(g) * (n - LteShare(n, g))]

\* get_min_value_index_double_array and its twin: the first of equal values.
MinIndex(e) == CHOOSE m \in LinkMode :
                 \A k \in LinkMode : e[m] < e[k] \/ (e[m] = e[k] /\ m <= k)
MaxIndex(e) == CHOOSE m \in LinkMode :
                 \A k \in LinkMode : e[m] > e[k] \/ (e[m] = e[k] /\ m <= k)
MiddleIndex(e) == CHOOSE m \in LinkMode \ {MinIndex(e), MaxIndex(e)} :
                    \A k \in LinkMode \ {MinIndex(e), MaxIndex(e)} : m <= k

\* Faulty: the link modes are sorted by decreasing energy.
energy_sorted_link_modes_Down(n, g) ==
  LET e == Energy(n, g) IN <<MaxIndex(e), MiddleIndex(e), MinIndex(e)>>

\* get_energy_sorted_link_modes
energy_sorted_link_modes(n, g) ==
  LET e == Energy(n, g) IN <<MinIndex(e), MiddleIndex(e), MaxIndex(e)>>

\* get_remaining_playback_time computes the duration once in a process.
Duration == IF video_duration = 0 THEN size ELSE video_duration

\* does_qmiss_until_next_portion_in_link_mode: link m alone would take longer
\* than a part of the remaining playback time.
Headroom == IF single_link_mode_flag THEN 9 ELSE 8

Misses(m, n, g) == 10 * n > Headroom * (Duration - played) * g[m - 1]
-----------------------------------------------------------------------------
\* gb_update_goodput: a link that received nothing keeps its old goodput.
Between(a, b) == {r \in Rate : (a <= r /\ r <= b) \/ (b <= r /\ r <= a)}

Measured(i) == IF ~received[i] THEN {ewma_bytes_per_second[i]}
               ELSE IF ~completed THEN Rate
               ELSE UNION {Between(ewma_bytes_per_second[i], r) : r \in Rate}

UpdatesGoodput ==
  /\ ewma_bytes_per_second' \in [Conn -> Rate \cup {0}]
  /\ \A i \in Conn : ewma_bytes_per_second'[i] \in Measured(i)
  /\ received' = [i \in Conn |-> FALSE]

\* gb_setup_next_segment up to choose_link_mode: n bytes make a segment.
Schedules(n) ==
  /\ UpdatesGoodput
  /\ rest' = rest - n
  /\ UNCHANGED <<sessionVars, completed, played>>

\* No mode is chosen: too early, nothing is left to decide about, or the
\* bytes go into a recovery.
NoChoice ==
  /\ \E n \in 0 .. rest :
       /\ Schedules(n)
       /\ n = 0 \/ n = rest \/ ~completed \/ ~single_link_mode_flag
  /\ UNCHANGED modeVars

Asked(n) == Schedules(n) /\ completed /\ n < rest

\* get_player_state: it plays if frames were decoded since the last call.
PLAYER_PLAYING == played > last_num_vframe_decoded

Chosen(m) ==
  /\ current_link_mode' = m
  /\ single_link_mode_flag' = (m # DUAL_LINK_MODE)
  /\ UNCHANGED aborted

\* The player does not play, or dumpsys does not answer.
NotPlaying ==
  /\ \E n \in 1 .. rest : Asked(n)
  /\ IF num_glitch + 1 >= MAX_NUM_GLITCH
     THEN /\ num_glitch' = 0
          /\ missed' = 0
          /\ Chosen(DUAL_LINK_MODE)
     ELSE /\ num_glitch' = num_glitch + 1
          /\ UNCHANGED missed
          /\ Chosen(current_link_mode)
  /\ \/ PLAYER_PLAYING /\ UNCHANGED last_num_vframe_decoded
     \/ ~PLAYER_PLAYING /\ last_num_vframe_decoded' \in
                             {played, last_num_vframe_decoded}
  /\ UNCHANGED <<num_est_qmiss, video_duration>>

Playing(n) ==
  /\ Asked(n)
  /\ PLAYER_PLAYING
  /\ last_num_vframe_decoded' = played
  /\ num_glitch' = 0

\* Faulty: one miss more is tolerated.
TooManyMisses_Late == num_est_qmiss + 1 > MAX_NUM_EST_QMISS

TooManyMisses == num_est_qmiss + 1 >= MAX_NUM_EST_QMISS

\* A single link that is estimated to be too slow.
SingleMisses ==
  /\ current_link_mode # DUAL_LINK_MODE
  /\ \E n \in 1 .. rest :
       /\ Playing(n)
       /\ Misses(current_link_mode, rest', ewma_bytes_per_second')
  /\ IF TooManyMisses
     THEN /\ num_est_qmiss' = 0
          /\ missed' = 0
          /\ Chosen(DUAL_LINK_MODE)
     ELSE /\ num_est_qmiss' = num_est_qmiss + 1
          /\ missed' = missed + 1
          /\ Chosen(current_link_mode)
  /\ video_duration' = Duration

\* The mode that costs the least is taken: a single link, if it is fast enough.
Cheapest(n, g) == energy_sorted_link_modes(n, g)[1]
TakesCheapest(m, n, g) ==
  Chosen(IF m = DUAL_LINK_MODE \/ ~Misses(m, n, g) THEN m ELSE current_link_mode)

\* assert(estimated_lte_goodput || estimated_wifi_goodput), for each link
HasGoodput(g) == \A i \in Conn : g[i] > 0

Considers ==
  LET g == ewma_bytes_per_second'
  IN  /\ missed' = 0
      /\ IF HasGoodput(g)
         THEN TakesCheapest(Cheapest(rest', g), rest', g)
         ELSE /\ aborted' = TRUE
              /\ UNCHANGED <<current_link_mode, single_link_mode_flag>>

SingleFits ==
  /\ current_link_mode # DUAL_LINK_MODE
  /\ \E n \in 1 .. rest :
       /\ Playing(n)
       /\ ~Misses(current_link_mode, rest', ewma_bytes_per_second')
  /\ num_est_qmiss' = 0
  /\ video_duration' = Duration
  /\ Considers

\* Both links are in use; does_qos_miss_until_bn_chunk is a free choice.
DualMisses ==
  /\ current_link_mode = DUAL_LINK_MODE
  /\ \E n \in 1 .. rest : Playing(n)
  /\ Chosen(DUAL_LINK_MODE)
  /\ UNCHANGED <<num_est_qmiss, missed, video_duration>>

DualFits ==
  /\ current_link_mode = DUAL_LINK_MODE
  /\ \E n \in 1 .. rest : Playing(n)
  /\ LET g == ewma_bytes_per_second'
     IN  video_duration' =
           IF HasGoodput(g) /\ Cheapest(rest', g) # DUAL_LINK_MODE
           THEN Duration ELSE video_duration
  /\ UNCHANGED num_est_qmiss
  /\ Considers
-----------------------------------------------------------------------------
(* What goes on around the decisions.                                      *)

Receives(i) ==
  /\ ~received[i]
  /\ received' = [received EXCEPT ![i] = TRUE]
  /\ UNCHANGED <<sessionVars, rest, completed, ewma_bytes_per_second, played,
                 modeVars>>

\* The first segment was divided between the links and is over.
Completes ==
  /\ ~completed
  /\ \A i \in Conn : received[i] \/ ewma_bytes_per_second[i] > 0
  /\ completed' = TRUE
  /\ UNCHANGED <<sessionVars, rest, goodputVars, played, modeVars>>

\* decide_recovery_mode calls get_player_state, too.  It may decide that one
\* link takes over what the other owes, all of the first segment included.
MayRecover ==
  /\ \E i \in Conn : ewma_bytes_per_second[i] > 0
  /\ last_num_vframe_decoded' = played
  /\ \/ UNCHANGED completed
     \/ played > 0 /\ ~single_link_mode_flag /\ completed' = TRUE
  /\ UNCHANGED <<sessionVars, rest, goodputVars, single_link_mode_flag, played,
                 current_link_mode, num_est_qmiss, num_glitch, video_duration,
                 missed, aborted>>

Plays ==
  /\ played < size
  /\ played' = played + 1
  /\ UNCHANGED <<sessionVars, rest, completed, goodputVars, modeVars>>

\* The next request of the player: gb is new, the static variables are not.
NextSession ==
  /\ session < MaxSessions
  /\ session' = session + 1
  /\ Starts
  /\ UNCHANGED <<current_link_mode, num_est_qmiss, num_glitch,
                 video_duration, last_num_vframe_decoded, missed, aborted>>

Choose == NoChoice \/ NotPlaying \/ SingleMisses \/ SingleFits \/ DualMisses
            \/ DualFits

\* An assertion that fails ends the process.
Aborted == aborted /\ UNCHANGED vars

Next ==
  \/ /\ ~aborted
     /\ \/ Choose
        \/ \E i \in Conn : Receives(i)
        \/ Completes
        \/ MayRecover
        \/ Plays
        \/ NextSession
  \/ Aborted

Spec == Init /\ [][Next]_vars
-----------------------------------------------------------------------------
TypeOK ==
  /\ session \in 1 .. MaxSessions
  /\ size \in Sizes
  /\ rest \in 0 .. size - 1
  /\ completed \in BOOLEAN
  /\ received \in [Conn -> BOOLEAN]
  /\ ewma_bytes_per_second \in [Conn -> Rate \cup {0}]
  /\ single_link_mode_flag \in BOOLEAN
  /\ played \in 0 .. size
  /\ current_link_mode \in LinkMode
  /\ num_est_qmiss \in 0 .. MAX_NUM_EST_QMISS - 1
  /\ num_glitch \in 0 .. MAX_NUM_GLITCH - 1
  /\ video_duration \in Sizes \cup {0}
  /\ last_num_vframe_decoded \in Nat
  /\ missed \in Nat
  /\ aborted \in BOOLEAN

\* A single link that is found too slow at MAX_NUM_EST_QMISS segments in a row
\* is not used alone any longer: the static counter never falls behind the
\* misses, although it outlives pauses of the player and whole sessions.
MissesAreBounded ==
  current_link_mode # DUAL_LINK_MODE => missed < MAX_NUM_EST_QMISS

\* get_energy_sorted_link_modes: "a list of link mode sorted by increasing
\* energy consumption".  The order of the modes is by energy whatever the
\* goodput, and both links together never cost less than the better one.
OrderIsByEnergy ==
  \A n \in 1 .. rest :
    (\A i \in Conn : ewma_bytes_per_second[i] > 0) =>
      LET e == Energy(n, ewma_bytes_per_second)
          order == energy_sorted_link_modes(n, ewma_bytes_per_second)
      IN  /\ \A k \in 1 .. 2 : e[order[k]] <= e[order[k + 1]]
          /\ \E m \in SingleMode : e[m] <= e[DUAL_LINK_MODE]

\* When the download goes over to a single link, that link can deliver the
\* rest of the file while the rest of the video plays, with a tenth to spare.
\* It does not hold: the duration may be that of an earlier, longer file.
Suffices ==
  10 * rest' <= 9 * (size - played) * ewma_bytes_per_second'[current_link_mode' - 1]

SingleLinkIsFastEnough ==
  [][current_link_mode' \in SingleMode \ {current_link_mode} => Suffices]_vars

\* assert(estimated_lte_goodput || estimated_wifi_goodput), energy.c:298.
NeverAborts == ~aborted
=============================================================================
