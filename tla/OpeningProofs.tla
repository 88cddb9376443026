---------------------------- MODULE OpeningProofs ----------------------------
(***************************************************************************)
(* Proofs about the opening of a download, for files, options and limits   *)
(* of any size: what the server says of the file is what the engine        *)
(* starts with, and the first segment is divided as the engine assumes.    *)
(***************************************************************************)
EXTENDS Opening, TLAPS

\* What is known of the file once the server has answered.
FileIsKnown ==
  /\ at \in {"open", "start", "loop"} =>
       IF supported THEN size = file_size /\ size > 1 ELSE size = INT_MAX
  /\ at \in {"start", "loop"} /\ ~supported => num_connections = 1

\* The first segment, once it is set up for two links.
Divided ==
  at \in {"start", "loop"} /\ num_connections = 2 =>
    /\ init_seg_size \in 1 .. size
    /\ options.rate[0] + options.rate[1] # 0
    /\ \A c \in Conn : /\ currentbyte[c] = FirstByte(c, init_seg_size, 0)
                       /\ lastbyte[c] = LastByte(c, init_seg_size, 0)
    /\ 2 * num_of_segments <= size => init_seg_size >= 2

\* Redirections are left while there is an exchange to come.
RedirectsLeft == /\ at \in {"conf", "args", "new"} => redirects = 0
                 /\ at \in {"info", "exec"} => redirects < MAX_REDIR

Prepared == TypeOK /\ FileIsKnown /\ Divided /\ RedirectsLeft
-----------------------------------------------------------------------------
\* A quotient is as small as the product that bounds it allows.
LEMMA QuotientInRange ==
  ASSUME NEW x \in Nat, NEW d \in Nat \ {0}, NEW n \in Nat, x <= d * n
  PROVE  x \div d \in 0 .. n
<1>1. x \div d \in Nat /\ d * (x \div d) <= x
  OBVIOUS
<1>2. x \div d <= n
  BY <1>1
<1> QED BY <1>1, <1>2

\* A rate is a number.
LEMMA RatesAreNumbers ==
  ASSUME options \in Options
  PROVE  /\ options.rate[0] \in Nat /\ options.rate[1] \in Nat
         /\ options.n \in {1, 2, 3}
         /\ options.i # NotSet => options.i \in Nat
         /\ options.S # NotSet => options.S \in Nat
<1>1. options \in Option
  BY OptionsAssumption
<1> QED BY <1>1 DEF Option, Conn

\* The share of link 0 is a part of the segment.
LEMMA ShareInRange ==
  ASSUME options \in Options, options.rate[0] + options.rate[1] # 0,
         NEW n \in Nat
  PROVE  Share(n) \in 0 .. n
<1> DEFINE p == options.rate[0]
           q == options.rate[1]
<1>1. p \in Nat /\ q \in Nat /\ p + q \in Nat \ {0}
  BY RatesAreNumbers
<1> HIDE DEF p, q
<1>2. n * p \in Nat /\ n * q \in Nat /\ (p + q) * n = n * p + n * q
  BY <1>1
<1>3. n * p <= (p + q) * n
  BY <1>2
<1>4. (n * p) \div (p + q) \in 0 .. n
  BY <1>1, <1>2, <1>3, QuotientInRange
<1> QED BY <1>4 DEF Share, p, q

\* With equal rates it is neither nothing nor all of two bytes or more.
LEMMA EqualShares ==
  ASSUME options \in Options, options.rate[0] + options.rate[1] # 0,
         options.rate[0] = options.rate[1], NEW n \in Nat, n >= 2
  PROVE  Share(n) \in 1 .. n - 1
<1> DEFINE p == options.rate[0]
<1>1. p \in Nat \ {0} /\ options.rate[0] + options.rate[1] = 2 * p
  BY RatesAreNumbers
<1> DEFINE d == 2 * p
           x == n * p
           k == x \div d
<1>2. x \in Nat /\ d \in Nat \ {0} /\ d = p + p
  BY <1>1
<1>3. k \in Nat /\ d * k <= x /\ x < d * (k + 1)
  <2> HIDE DEF x, d
  <2> QED BY <1>2 DEF k
<1> HIDE DEF p
<1>4. x >= d
  BY <1>1
<1>5. k >= 1
  BY <1>3, <1>4, <1>2
<1>6. k < n
  <2> SUFFICES ASSUME k >= n PROVE FALSE
    BY <1>3
  <2>1. d * k >= d * n
    BY <1>2, <1>3
  <2>2. d * n = x + x
    BY <1>1
  <2>3. x > 0
    BY <1>2, <1>4
  <2> QED BY <2>1, <2>2, <2>3, <1>2, <1>3
<1> QED BY <1>1, <1>3, <1>5, <1>6 DEF Share, p

\* The first segment is not longer than the file.
LEMMA FirstSizeInRange ==
  ASSUME size \in Nat, segment_size \in Nat, NEW m \in Nat
  PROVE  FirstSize(m) \in 0 .. size
<1>1. ASSUME m # 0 PROVE size \div m \in 0 .. size
  <2>1. size <= m * size
    BY <1>1
  <2> QED BY <1>1, <2>1, QuotientInRange
<1> QED BY <1>1 DEF FirstSize, Least

\* The range of a link is in the segment, or behind the file.
LEMMA RangesAreBounded ==
  ASSUME options \in Options, options.rate[0] + options.rate[1] # 0,
         size \in 0 .. INT_MAX, NEW n \in 0 .. size,
         NEW c \in Conn, NEW fast \in Conn
  PROVE  /\ FirstByte(c, n, fast) \in 0 .. INT_MAX
         /\ LastByte(c, n, fast) \in 0 .. INT_MAX + 1
<1>1. Share(n) \in 0 .. n /\ n \in Nat /\ size \in Nat /\ INT_MAX \in Nat
  BY ShareInRange, UnknownAssumption
<1>2. SizeOf(c, n) \in 0 .. n /\ First(c, n, fast) \in 0 .. n
  BY <1>1 DEF SizeOf, First
<1>3. First(c, n, fast) + SizeOf(c, n) \in 0 .. n
  BY <1>1 DEF SizeOf, First, Conn
<1> QED BY <1>1, <1>2, <1>3 DEF FirstByte, LastByte
-----------------------------------------------------------------------------
\* Nothing is known at the start.
LEMMA InitPrepared == Init => Prepared
<1> SUFFICES ASSUME Init PROVE Prepared
  OBVIOUS
<1>1. DEFAULT_SEGMENT * KB \in Nat \ {0, 1}
  BY KBAssumption, SegmentAssumption
<1>2. 0 \in 0 .. INT_MAX /\ 0 \in 0 .. INT_MAX + 1 /\ 0 \in 0 .. MAX_REDIR
  BY RedirAssumption, UnknownAssumption
<1>3. /\ currentbyte \in [Conn -> 0 .. INT_MAX]
      /\ lastbyte \in [Conn -> 0 .. INT_MAX + 1]
      /\ state \in [Conn -> {0, 1}]
  BY <1>2 DEF Init
<1>4. num_connections \in 1 .. 3 /\ num_of_segments \in Nat /\ ready \in {-1, 0}
  BY DEF Init
<1>5. segment_size \in Nat \ {1}
  BY <1>1 DEF Init
<1>6. TypeOK
  BY <1>2, <1>3, <1>4, <1>5 DEF Init, TypeOK
<1> QED BY <1>6, RedirAssumption DEF Init, Prepared, FileIsKnown, Divided, RedirectsLeft

\* The steps before the server is asked.
LEMMA ConfigurationPrepared == Prepared /\ (conf_init \/ parse_args) => Prepared'
<1> SUFFICES ASSUME Prepared, conf_init \/ parse_args PROVE Prepared'
  OBVIOUS
<1> USE DEF Goes, infoVars, segVars, startVars
<1>1. CASE conf_init
  BY <1>1 DEF conf_init, confVars, Prepared, TypeOK, FileIsKnown, Divided,
     RedirectsLeft
<1>2. CASE parse_args
  <2>1. options.S # NotSet => options.S * KB \in Nat \ {1}
    <3> SUFFICES ASSUME NEW k \in Nat PROVE k * KB \in Nat \ {1}
      BY RatesAreNumbers DEF Prepared, TypeOK
    <3>1. KB \in Nat /\ KB >= 2
      BY KBAssumption
    <3>2. k = 0 \/ k * KB >= KB
      BY <3>1
    <3> QED BY <3>1, <3>2
  <2>2. /\ num_connections' \in 1 .. 3 /\ num_of_segments' \in Nat
        /\ segment_size' \in Nat \ {1}
    BY <1>2, <2>1, RatesAreNumbers DEF parse_args, confVars, Prepared, TypeOK
  <2>3. at' \in {"new", "returned"}
    BY <1>2 DEF parse_args
  <2>4. TypeOK'
    BY <1>2, <2>2, <2>3 DEF parse_args, Prepared, TypeOK
  <2>5. redirects' = redirects /\ (at' = "new" => redirects = 0)
    BY <1>2 DEF parse_args, Prepared, RedirectsLeft
  <2>6. FileIsKnown' /\ Divided'
    BY <2>3 DEF FileIsKnown, Divided
  <2> QED BY <2>3, <2>4, <2>5, <2>6 DEF Prepared, RedirectsLeft
<1> QED BY <1>1, <1>2

\* gb_new, the assertion after it, and the first half of an exchange.
LEMMA NewPrepared == Prepared /\ (gb_new \/ AfterNew) => Prepared'
<1> SUFFICES ASSUME Prepared, gb_new \/ AfterNew PROVE Prepared'
  OBVIOUS
<1> USE DEF Goes, confVars, segVars, startVars
<1>1. CASE gb_new
  BY <1>1, RedirAssumption DEF gb_new, Prepared, TypeOK, FileIsKnown, Divided,
     RedirectsLeft
<1>2. CASE AfterNew
  BY <1>2 DEF AfterNew, infoVars, Prepared, TypeOK, FileIsKnown, Divided,
     RedirectsLeft
<1> QED BY <1>1, <1>2

\* An exchange with the server: a part of the file tells the size of it all.
LEMMA InfoPrepared == Prepared /\ (conn_setup \/ conn_exec) => Prepared'
<1> SUFFICES ASSUME Prepared, conn_setup \/ conn_exec PROVE Prepared'
  OBVIOUS
<1> USE DEF Goes, confVars, segVars, startVars
<1>1. CASE conn_setup
  BY <1>1 DEF conn_setup, Fails, Prepared, TypeOK, FileIsKnown, Divided,
     RedirectsLeft
<1>2. CASE conn_exec
  <2>1. PICK r \in Reply : status' = r.status /\ (Redirected(r) \/ Answered(r))
    BY <1>2 DEF conn_exec
  <2>2. /\ status' \in {0, 200, 206, 302, 404, 416}
        /\ r.status = 206 /\ r.length >= 0 => r.length = file_size - 1 /\ file_size > 1
    <3>1. \/ r.status = 206 /\ file_size > 1 /\ r.length \in {file_size - 1, -2}
          \/ r.status \in {200, 302, 404, 416}
          \/ r.status = status /\ r.length = -2
      <4> USE DEF NoLength
      <4> DEFINE A == [status : {206}, length : IF file_size > 1
                                               THEN {file_size - 1, NoLength} ELSE {},
                       location : {FALSE}]
                 B == [status : {200}, length : {file_size, NoLength}, location : {FALSE}]
                 C == [status : {302}, length : {NoLength}, location : BOOLEAN]
                 D == [status : {404, 416}, length : {NoLength}, location : {FALSE}]
                 E == [status : {status}, length : {NoLength}, location : {FALSE}]
      <4>0. r \in A \/ r \in B \/ r \in C \/ r \in D \/ r \in E
        BY <2>1 DEF Reply
      <4>1. CASE r \in A
        <5>1. r.status = 206 /\ r.length \in IF file_size > 1
                                             THEN {file_size - 1, NoLength} ELSE {}
          BY <4>1
        <5> QED BY <5>1
      <4>2. CASE r \in B
        BY <4>2
      <4>3. CASE r \in C
        BY <4>3
      <4>4. CASE r \in D
        BY <4>4
      <4>5. CASE r \in E
        BY <4>5
      <4> HIDE DEF A, B, C, D, E
      <4> QED BY <4>0, <4>1, <4>2, <4>3, <4>4, <4>5
    <3>3. status \in {0, 200, 206, 302, 404, 416}
      BY DEF Prepared, TypeOK
    <3>4. status' \in {0, 200, 206, 302, 404, 416}
      BY <2>1, <3>1, <3>3
    <3>5. ASSUME r.status = 206, r.length >= 0
          PROVE  r.length = file_size - 1 /\ file_size > 1
      BY <3>1, <3>5
    <3> QED BY <3>4, <3>5
  <2>3. file_size \in Nat /\ INT_MAX \in Nat /\ INT_MAX > file_size
    BY FilesAssumption, UnknownAssumption DEF Prepared, TypeOK
  <2>4. CASE Redirected(r)
    <3>1. redirects \in 0 .. MAX_REDIR /\ redirects < MAX_REDIR /\ at = "exec"
      BY <1>2 DEF conn_exec, Prepared, TypeOK, RedirectsLeft
    <3>2. /\ redirects' \in 0 .. MAX_REDIR /\ at' \in {"info", "failed"}
          /\ at' = "info" => redirects' < MAX_REDIR
          /\ ready' \in {-1, 0} /\ size' = size /\ supported' = supported
      BY <2>4, <3>1, RedirAssumption DEF Redirected, Counted, MoreRedirects, Fails,
         Prepared, TypeOK
    <3>3. TypeOK'
      BY <1>2, <2>1, <2>2, <3>2 DEF conn_exec, Redirected, Answered, Fails, Prepared, TypeOK
    <3> QED BY <3>2, <3>3 DEF Prepared, FileIsKnown, Divided, RedirectsLeft
  <2>5. CASE Answered(r)
    <3>1. /\ at' \in {"open", "failed"} /\ ready' \in {-1, 0}
          /\ redirects' = redirects
          /\ supported' \in BOOLEAN /\ size' \in 0 .. INT_MAX
      <4>1. CASE /\ r.status = 206 /\ r.length >= 0
                 /\ supported' = TRUE /\ size' = WholeSize(r.length)
                 /\ Goes("open") /\ UNCHANGED ready
        <5>1. size' = file_size
          BY <4>1, <2>2, <2>3 DEF WholeSize
        <5>2. size' \in 0 .. INT_MAX
          BY <5>1, <2>3
        <5> QED BY <4>1, <5>2, <2>5 DEF Answered, Prepared, TypeOK
      <4>2. CASE /\ supported' = FALSE /\ size' = INT_MAX
                 /\ Goes("open") /\ UNCHANGED ready
        <5>1. size' \in 0 .. INT_MAX
          BY <4>2, <2>3
        <5> QED BY <4>2, <5>1, <2>5 DEF Answered, Prepared, TypeOK
      <4>3. CASE Fails /\ UNCHANGED <<supported, size>>
        <5>1. size' \in 0 .. INT_MAX
          BY <4>3 DEF Prepared, TypeOK
        <5>2. supported' \in BOOLEAN
          BY <4>3 DEF Prepared, TypeOK
        <5> QED BY <4>3, <5>1, <5>2, <2>5 DEF Answered, Fails
      <4> QED BY <2>5, <4>1, <4>2, <4>3, Zenon DEF Answered
    <3>2. at' = "open" =>
            IF supported' THEN size' = file_size /\ size' > 1 ELSE size' = INT_MAX
      BY <2>5, <2>2, <2>3 DEF Answered, WholeSize, Fails
    <3>3. TypeOK'
      BY <1>2, <2>2, <2>1, <3>1 DEF conn_exec, Redirected, Answered, Fails, Prepared, TypeOK
    <3>4. file_size' = file_size
      BY <2>5 DEF Answered, Fails
    <3> QED BY <3>1, <3>2, <3>3, <3>4 DEF Prepared, FileIsKnown, Divided, RedirectsLeft
  <2> QED BY <2>1, <2>4, <2>5
<1> QED BY <1>1, <1>2

\* The first segment is set up, from a number of segments or from a size.
LEMMA OpenPrepared == Prepared /\ gb_open => Prepared'
<1> SUFFICES ASSUME Prepared, gb_open PROVE Prepared'
  OBVIOUS
<1> USE DEF Goes
<1> DEFINE n == num_of_segments
           count == IF supported THEN n ELSE SegmentCount(n)
<1>1. /\ at = "open" /\ options \in Options /\ size \in 0 .. INT_MAX
      /\ size \in Nat /\ segment_size \in Nat \ {1} /\ n \in Nat
      /\ num_connections' \in 1 .. 2 /\ INT_MAX \in Nat
      /\ num_connections' = IF supported THEN num_connections ELSE 1
      /\ UNCHANGED <<infoVars, gb, startVars, ready, segment_size, options, file_size>>
  BY UnknownAssumption DEF gb_open, Prepared, TypeOK
<1>2. CASE SetupFails(n) /\ Goes("killed") /\ UNCHANGED <<num_of_segments, segVars>>
  BY <1>1, <1>2 DEF infoVars, startVars, segVars, Prepared, TypeOK, FileIsKnown,
     Divided, RedirectsLeft
<1>3. CASE /\ ~SetupFails(n)
           /\ num_of_segments' = SegmentCount(n)
           /\ \E fast \in FastLink : Opens(count, fast)
           /\ Goes("start") \/ Goes("killed")
  <2>1. PICK fast \in FastLink : Opens(count, fast)
    BY <1>3
  <2>2. /\ options.rate[0] + options.rate[1] # 0
        /\ n = 0 => segment_size # 0
        /\ FirstSize(n) # 0
    BY <1>3 DEF SetupFails
  <2>3. SegmentCount(n) \in Nat
    <3>1. ASSUME segment_size # 0
          PROVE  size \div segment_size \in Nat
      BY <3>1, <1>1
    <3> QED BY <3>1, <2>2, <1>1 DEF SegmentCount
  <2>4. count \in Nat /\ FirstSize(count) \in 0 .. size
    BY <1>1, <2>3, FirstSizeInRange
  <2>5. fast \in Conn
    BY DEF FastLink, Conn
  <2>6. /\ init_seg_size' \in 0 .. INT_MAX
        /\ currentbyte' \in [Conn -> 0 .. INT_MAX]
        /\ lastbyte' \in [Conn -> 0 .. INT_MAX + 1]
    BY <1>1, <2>1, <2>2, <2>4, <2>5, RangesAreBounded DEF Opens
  <2>7. TypeOK'
    BY <1>1, <1>3, <2>3, <2>6 DEF infoVars, startVars, Prepared, TypeOK
  <2>8. FileIsKnown'
    BY <1>1 DEF infoVars, Prepared, FileIsKnown
  <2>9. Divided'
    <3> SUFFICES ASSUME num_connections' = 2 PROVE Divided'
      BY DEF Divided
    <3>1. supported /\ fast = 0 /\ count = n
      BY <1>1 DEF FastLink
    <3>2. init_seg_size' = FirstSize(n) /\ init_seg_size' \in 1 .. size
      BY <2>1, <2>2, <2>4, <3>1 DEF Opens
    <3>3. ASSUME NEW c \in Conn
          PROVE  /\ currentbyte'[c] = FirstByte(c, init_seg_size', 0)
                 /\ lastbyte'[c] = LastByte(c, init_seg_size', 0)
      BY <2>1, <3>1, <3>2 DEF Opens, Conn
    <3>4. ASSUME 2 * num_of_segments' <= size PROVE init_seg_size' >= 2
      <4>1. size > 1
        BY <1>1, <3>1 DEF Prepared, FileIsKnown
      <4>2. CASE n = 0
        BY <4>1, <4>2, <3>2, <2>2, <1>1 DEF FirstSize, Least
      <4>3. CASE n # 0
        <5>1. 2 * n <= size
          BY <3>4, <4>3, <1>3 DEF SegmentCount
        <5>2. size < n * (size \div n + 1) /\ size \div n \in Nat
          BY <4>3, <1>1
        <5>3. size \div n >= 2
          <6> DEFINE k == size \div n
          <6> HIDE DEF k
          <6>1. ASSUME k <= 1 PROVE FALSE
            <7>1. k \in {0, 1}
              BY <5>2, <6>1 DEF k
            <7> QED BY <7>1, <5>1, <5>2, <1>1 DEF k
          <6> QED BY <6>1, <5>2 DEF k
        <5> QED BY <5>3, <4>3, <3>2 DEF FirstSize
      <4> QED BY <4>2, <4>3
    <3>5. /\ \A c \in Conn, m \in Nat :
               /\ FirstByte(c, m, 0)' = FirstByte(c, m, 0)
               /\ LastByte(c, m, 0)' = LastByte(c, m, 0)
          /\ size' = size
      BY <1>1 DEF FirstByte, LastByte, First, SizeOf, Share, infoVars
    <3>6. \A c \in Conn : /\ currentbyte'[c] = FirstByte(c, init_seg_size, 0)'
                          /\ lastbyte'[c] = LastByte(c, init_seg_size, 0)'
      BY <3>3, <1>1 DEF FirstByte, LastByte, First, SizeOf, Share, infoVars
    <3> QED BY <1>1, <2>2, <3>2, <3>4, <3>5, <3>6 DEF Divided
  <2> QED BY <1>3, <2>7, <2>8, <2>9 DEF Prepared, RedirectsLeft
<1> QED BY <1>2, <1>3 DEF gb_open

\* gb_start creates threads and leaves the ranges alone.
LEMMA StartPrepared == Prepared /\ gb_start => Prepared'
<1> SUFFICES ASSUME Prepared, gb_start PROVE Prepared'
  OBVIOUS
<1> USE DEF Goes, confVars, infoVars, segVars, gb_start
<1>1. threads' \subseteq Conn /\ state' \in [Conn -> {0, 1}]
  BY DEF Links, Prepared, TypeOK
<1>2. ready' \in {-1, 0} /\ at = "start" /\ at' = "loop"
  OBVIOUS
<1>3. TypeOK'
  BY <1>1, <1>2 DEF Prepared, TypeOK
<1>4. FileIsKnown' /\ RedirectsLeft'
  BY <1>2 DEF Prepared, FileIsKnown, RedirectsLeft
<1>5. Divided'
  BY <1>2 DEF Prepared, Divided, FirstByte, LastByte, First, SizeOf, Share
<1> QED BY <1>3, <1>4, <1>5 DEF Prepared

LEMMA StutterPrepared == Prepared /\ UNCHANGED vars => Prepared'
<1> SUFFICES ASSUME Prepared, UNCHANGED vars PROVE Prepared'
  OBVIOUS
<1> USE DEF vars, confVars, infoVars, segVars, startVars
<1>1. TypeOK' /\ FileIsKnown' /\ RedirectsLeft'
  BY DEF Prepared, TypeOK, FileIsKnown, RedirectsLeft
<1>2. Divided'
  BY DEF Prepared, Divided, FirstByte, LastByte, First, SizeOf, Share
<1> QED BY <1>1, <1>2 DEF Prepared

\* The inductive invariant: no reply of the server, and no failure, spoils
\* what the opening knows.
THEOREM Invariance == FairSpec => []Prepared
<1>1. Prepared /\ [Next]_vars => Prepared'
  BY ConfigurationPrepared, NewPrepared, InfoPrepared, OpenPrepared, StartPrepared,
     StutterPrepared DEF Next, gb_process, Rests
<1> QED BY InitPrepared, <1>1, PTL DEF FairSpec
-----------------------------------------------------------------------------
\* The variables keep their types, whatever the files and the options say.
THEOREM TypeCorrect == FairSpec => []TypeOK
<1>1. Prepared => TypeOK
  BY DEF Prepared
<1> QED BY Invariance, <1>1, PTL

\* conn_info: the main loop starts with the size of the file, or with one link
\* and the largest size.
THEOREM SizeTrue == FairSpec => []SizeIsTrue
<1>1. Prepared => SizeIsTrue
  BY DEF Prepared, FileIsKnown, SizeIsTrue
<1> QED BY Invariance, <1>1, PTL

\* gb_init_segment_setup: two links divide the first segment.
LEMMA DividedIsReady == Prepared => EngineCanStart
<1> SUFFICES ASSUME Prepared, at = "loop", num_connections = 2 PROVE EngineCanStart
  BY DEF EngineCanStart
<1> DEFINE m == init_seg_size
           s == Share(m)
           served == {c \in Conn : currentbyte[c] < size}
<1>1. /\ m \in 1 .. size /\ size \in Nat /\ options \in Options
      /\ options.rate[0] + options.rate[1] # 0
      /\ \A c \in Conn : /\ currentbyte[c] = FirstByte(c, m, 0)
                         /\ lastbyte[c] = LastByte(c, m, 0)
      /\ 2 * num_of_segments <= size => m >= 2
  BY UnknownAssumption DEF Prepared, Divided, TypeOK
<1>2. m \in Nat \ {0} /\ s \in 0 .. m
  BY <1>1, ShareInRange
<1>3. /\ currentbyte[0] = (IF s = 0 THEN size ELSE 0)
      /\ lastbyte[0] = (IF s = 0 THEN size + 1 ELSE s - 1)
      /\ currentbyte[1] = (IF s = m THEN size ELSE s)
      /\ lastbyte[1] = (IF s = m THEN size + 1 ELSE m - 1)
  BY <1>1, <1>2 DEF Conn, FirstByte, LastByte, First, SizeOf
<1>4. ASSUME options.rate[0] = options.rate[1], 2 * num_of_segments <= size
      PROVE  m >= 2 /\ s \in 1 .. m - 1
  BY <1>1, <1>2, <1>4, EqualShares
<1> HIDE DEF m, s
<1>5. CASE s = 0
  <2>1. served = {1}
    BY <1>1, <1>2, <1>3, <1>5 DEF Conn
  <2>2. UNION {Range(c) : c \in served} = 0 .. m - 1
    BY <2>1, <1>2, <1>3, <1>5 DEF Range
  <2>3. served # Conn
    BY <2>1 DEF Conn
  <2> QED BY <2>2, <2>3, <1>1, <1>4, <1>5 DEF EngineCanStart, m
<1>6. CASE s = m
  <2>1. served = {0}
    BY <1>1, <1>2, <1>3, <1>6 DEF Conn
  <2>2. UNION {Range(c) : c \in served} = 0 .. m - 1
    BY <2>1, <1>2, <1>3, <1>6 DEF Range
  <2>3. served # Conn
    BY <2>1 DEF Conn
  <2> QED BY <2>2, <2>3, <1>1, <1>2, <1>4, <1>6 DEF EngineCanStart, m
<1>7. CASE s # 0 /\ s # m
  <2>1. served = {0, 1}
    BY <1>1, <1>2, <1>3, <1>7 DEF Conn
  <2>2. Range(0) = 0 .. s - 1 /\ Range(1) = s .. m - 1
    BY <1>2, <1>3, <1>7 DEF Range
  <2>3. UNION {Range(c) : c \in served} = Range(0) \cup Range(1)
    BY <2>1
  <2>4. Range(0) \cup Range(1) = 0 .. m - 1 /\ Range(0) \cap Range(1) = {}
    BY <2>2, <1>2, <1>7
  <2> QED BY <2>1, <2>3, <2>4, <1>1, <1>4 DEF EngineCanStart, m, Conn
<1> QED BY <1>5, <1>6, <1>7

\* What the engine assumes of the ranges holds when its main loop begins.
THEOREM EngineStarts == FairSpec => []EngineCanStart
BY Invariance, DividedIsReady, PTL
=============================================================================
