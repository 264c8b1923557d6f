--------------------------- MODULE TimedGameProofs ---------------------------
(***************************************************************************)
(* The countdown and the clock, for every time limit and every board: the  *)
(* player never loses early, and never later than the other modes of the   *)
(* run loop and the latency of the main thread account for.                *)
(***************************************************************************)
EXTENDS TimedGame, GameModeProofs

Firings == Limit - milliseconds

\* A firing consumes a fire date, and the next one is at most a millisecond
\* away from the clock.
FireDates == Firings < fireDate /\ fireDate <= clock + 1

\* The longest time in the default mode that n firings take.
Slowest(n) == n * (1 + Latency)

\* A timer waits only when it is due, and as long as the game is undecided the
\* firings, each as late as it may be, keep up with the time in the default
\* mode; while the timer is due one firing is still to come.
KeepsUp ==
  /\ ~Due => waited = 0
  /\ timer => /\ clock - missed <= Slowest(Firings) + waited + 1
              /\ ~Due => clock - missed <= Slowest(Firings)

TimedInv == IInv /\ TimedTypeOK /\ FireDates /\ KeepsUp

\* What one more firing adds, and that more firings take no less time.
LEMMA Slower ==
  ASSUME NEW n \in Nat
  PROVE  /\ Slowest(n) \in Nat
         /\ Slowest(n + 1) = Slowest(n) + 1 + Latency
  BY LatencyAssumption DEF Slowest

LEMMA SlowestGrows ==
  ASSUME NEW n \in Nat, NEW k \in Nat, n < k
  PROVE  Slowest(n) + 1 + Latency <= Slowest(k)
<1>1. PICK d \in Nat : k = n + 1 + d
  <2>1. k - n - 1 \in Nat /\ k = n + 1 + (k - n - 1)
    OBVIOUS
  <2> QED
    BY <2>1
<1>2. k * (1 + Latency) = n * (1 + Latency) + (1 + Latency) + d * (1 + Latency)
  BY <1>1, LatencyAssumption
<1>3. d * (1 + Latency) \in Nat /\ n * (1 + Latency) \in Nat
  BY <1>1, LatencyAssumption
<1> QED
  BY <1>2, <1>3, LatencyAssumption DEF Slowest

\* The clock adds nothing to what a game can do.
LEMMA StepsOfTheGame == [TimedNext]_timedVars => [Next]_vars
  BY DEF TimedNext, Tick, BusyTick, TimerFires, EnterMode, Touched, ScreenMoves, timedVars, Next, ScreenNext

LEMMA TimedInitInv == TimedInit => TimedInv
<1> SUFFICES ASSUME TimedInit PROVE TimedInv
  OBVIOUS
<1>1. IInv
  BY InitIInv DEF TimedInit
<1>2. /\ milliseconds = Limit /\ clock = 0 /\ fireDate = 1 /\ missed = 0 /\ waited = 0
      /\ mode = "default"
  BY DEF TimedInit, Init
<1>3. TimedTypeOK
  BY <1>1, <1>2, LatencyAssumption DEF IInv, TimedTypeOK, RunLoopModes
<1>4. FireDates /\ KeepsUp
  BY <1>2, Slower, LimitAssumption DEF FireDates, KeepsUp, Firings, Due
<1> QED
  BY <1>1, <1>3, <1>4 DEF TimedInv

\* Steps of the game that are no firing leave the countdown alone.
LEMMA CountdownUnchanged ==
  ASSUME IInv, Touched \/ ScreenMoves
  PROVE  milliseconds' = milliseconds /\ (timer' => timer)
<1>1. CASE \E r \in Rows : didSelectItemAt(r)
  <2>1. PICK r \in Rows : didSelectItemAt(r)
    BY <1>1
  <2>2. milliseconds' = milliseconds
    BY <2>1 DEF didSelectItemAt
  <2>3. timer' = timer \/ timer' = (timer /\ ~((\A s \in Rows : isMatched'[s]) /\ milliseconds > 0))
    BY <2>1 DEF didSelectItemAt, checkForMatches, checkGameEnded
  <2>4. timer \in BOOLEAN
    BY DEF IInv, TypeOK
  <2>5. timer' => timer
    BY <2>3, <2>4, Zenon
  <2> QED
    BY <2>2, <2>5
<1>2. CASE dismissAlert \/ moveBack \/ ScreenNext
  BY <1>2 DEF dismissAlert, moveBack, ScreenNext, flipBackFires, cellForItemAt, redisplay,
              scrollOff, recycle, clockVars
<1> QED
  BY <1>1, <1>2 DEF Touched, ScreenMoves

LEMMA TimedNextInv == TimedInv /\ [TimedNext]_timedVars => TimedInv'
<1> SUFFICES ASSUME TimedInv, [TimedNext]_timedVars PROVE TimedInv'
  OBVIOUS
<1>1. IInv'
  BY StepsOfTheGame, NextIInv DEF TimedInv
<1>2. /\ milliseconds \in 0 .. Limit /\ milliseconds' \in 0 .. Limit
      /\ timer \in BOOLEAN /\ timer' \in BOOLEAN
      /\ TypeOK'
  BY <1>1 DEF TimedInv, IInv, TypeOK
<1>3. /\ clock \in Nat /\ fireDate \in Nat /\ missed \in Nat /\ mode \in RunLoopModes
      /\ waited \in 0 .. Latency /\ Latency \in Nat
      /\ Firings < fireDate /\ fireDate <= clock + 1
      /\ ~Due => waited = 0
  BY LatencyAssumption DEF TimedInv, TimedTypeOK, FireDates, KeepsUp
<1>4. Firings \in Nat /\ Slowest(Firings) \in Nat
  BY <1>2, Slower, LimitAssumption DEF Firings
<1>5. CASE Tick
  <2>1. /\ milliseconds' = milliseconds /\ timer' = timer /\ fireDate' = fireDate /\ mode' = mode
        /\ waited' = waited /\ clock' = clock + 1 /\ timer
        /\ missed' = IF mode = "default" THEN missed ELSE missed + 1
        /\ mode = "default" => ~Due
    BY <1>5 DEF Tick, vars, clockVars
  <2>2. FireDates'
    BY <1>2, <1>3, <2>1, LimitAssumption DEF FireDates, Firings
  <2>3. Slowest(Firings)' = Slowest(Firings)
    BY <2>1 DEF Slowest, Firings
  <2>4. KeepsUp'
    <3>1. clock - missed <= Slowest(Firings) + waited + 1 /\ (~Due => clock - missed <= Slowest(Firings))
      BY <2>1 DEF TimedInv, KeepsUp
    <3>2. Due'
      BY <1>3, <2>1 DEF Due
    <3>3. clock' - missed' <= Slowest(Firings) + waited + 1
      <4>1. CASE mode = "default"
        BY <1>3, <1>4, <2>1, <3>1, <4>1
      <4>2. CASE mode # "default"
        BY <1>3, <1>4, <2>1, <3>1, <4>2
      <4> QED
        BY <4>1, <4>2
    <3> QED
      BY <2>1, <2>3, <3>2, <3>3 DEF KeepsUp
  <2> QED
    BY <1>1, <1>2, <1>3, <2>1, <2>2, <2>4 DEF TimedInv, TimedTypeOK
<1>6. CASE BusyTick
  <2>1. /\ milliseconds' = milliseconds /\ timer' = timer /\ fireDate' = fireDate /\ mode' = mode
        /\ missed' = missed /\ clock' = clock + 1 /\ timer
        /\ Due /\ waited < Latency /\ waited' = waited + 1
    BY <1>6 DEF BusyTick, vars, clockVars
  <2>2. FireDates' /\ Due'
    BY <1>2, <1>3, <2>1, LimitAssumption DEF FireDates, Firings, Due
  <2>3. Slowest(Firings)' = Slowest(Firings)
    BY <2>1 DEF Slowest, Firings
  <2>4. clock - missed <= Slowest(Firings) + waited + 1
    BY <2>1 DEF TimedInv, KeepsUp
  <2>5. clock' - missed' <= Slowest(Firings) + waited' + 1
    BY <1>3, <1>4, <2>1, <2>4
  <2>6. KeepsUp'
    BY <2>2, <2>3, <2>5 DEF KeepsUp
  <2> QED
    BY <1>1, <1>2, <1>3, <2>1, <2>2, <2>6 DEF TimedInv, TimedTypeOK
<1>7. CASE TimerFires
  <2>1. /\ milliseconds' = milliseconds - 1 /\ timer
        /\ clock >= fireDate /\ fireDate' = clock + 1 /\ waited' = 0
        /\ clock' = clock /\ missed' = missed /\ mode' = mode
    BY <1>7 DEF TimerFires, timerElapsed, Due
  <2>2. FireDates' /\ ~Due'
    BY <1>2, <1>3, <2>1, LimitAssumption DEF FireDates, Firings, Due
  <2>3. clock - missed <= Slowest(Firings) + waited + 1
    BY <2>1 DEF TimedInv, KeepsUp
  <2>4. Firings' = Firings + 1
    BY <1>2, <2>1, LimitAssumption DEF Firings
  <2>5. Slowest(Firings)' = Slowest(Firings) + 1 + Latency
    BY <1>4, <2>4, Slower DEF Slowest
  <2>6. clock' - missed' <= Slowest(Firings)'
    BY <1>3, <1>4, <2>1, <2>3, <2>5
  <2>7. KeepsUp'
    BY <1>3, <1>4, <2>1, <2>2, <2>5, <2>6 DEF KeepsUp
  <2> QED
    BY <1>1, <1>2, <1>3, <2>1, <2>2, <2>7 DEF TimedInv, TimedTypeOK
<1>8. CASE (\E m \in RunLoopModes : EnterMode(m)) \/ Touched \/ ScreenMoves \/ UNCHANGED timedVars
  <2>1. /\ clock' = clock /\ missed' = missed /\ fireDate' = fireDate /\ waited' = waited
        /\ mode' \in RunLoopModes
    BY <1>3, <1>8 DEF EnterMode, Touched, ScreenMoves, timedVars, timeVars
  <2>2. milliseconds' = milliseconds /\ (timer' => timer)
    BY <1>8, CountdownUnchanged DEF EnterMode, timedVars, vars, clockVars, TimedInv
  <2>3. FireDates' /\ KeepsUp'
    BY <1>2, <1>3, <2>1, <2>2 DEF TimedInv, FireDates, KeepsUp, Firings, Slowest, Due
  <2> QED
    BY <1>1, <1>2, <1>3, <2>1, <2>3 DEF TimedInv, TimedTypeOK
<1> QED
  BY <1>5, <1>6, <1>7, <1>8 DEF TimedNext

LEMMA TimedInvariance == TimedSpec => []TimedInv
  BY TimedInitInv, TimedNextInv, PTL DEF TimedSpec

\* The clock and the modes of the run loop stay in range, and so does every
\* variable of the game.
THEOREM TimedTypeCorrect == TimedSpec => []TimedTypeOK
<1>1. TimedInv => TimedTypeOK
  BY DEF TimedInv
<1> QED
  BY <1>1, TimedInvariance, PTL

\* However the run loop serves the timer, a game of any length is not lost
\* before its time limit has passed.
THEOREM NotLostEarly == TimedSpec => []NeverLostEarly
<1>1. ASSUME TimedInv, results = <<"lost">> PROVE clock >= Limit
  <2>1. ~timer
    BY <1>1 DEF TimedInv, IInv, CardInv, OneRightResult
  <2>2. ~AllMatched
    BY <1>1, <2>1 DEF TimedInv, IInv, CardInv, OneRightResult
  <2>3. milliseconds = 0
    BY <1>1, <2>1, <2>2, LimitAssumption
       DEF TimedInv, IInv, CardInv, TimerRunsWhileUndecided, TypeOK
  <2> QED
    BY <1>1, <2>3, LimitAssumption DEF TimedInv, TimedTypeOK, FireDates, Firings
<1>2. TimedInv => NeverLostEarly
  BY <1>1 DEF NeverLostEarly
<1> QED
  BY <1>2, TimedInvariance, PTL

\* For every latency of the main thread: a game ends after the time spent in
\* other modes and Limit firings, each as late as the main thread lets it be.
THEOREM OnTime == TimedSpec => []DecidedOnTime
<1>1. ASSUME TimedInv, clock - missed > Limit * (1 + Latency) PROVE results # <<>>
  <2>1. CASE timer
    <3>1. milliseconds \in 0 .. Limit /\ milliseconds > 0
      BY <1>1, <2>1 DEF TimedInv, IInv, TypeOK, CardInv, TimerRunsWhileUndecided
    <3>2. /\ clock - missed <= Slowest(Firings) + waited + 1
          /\ clock \in Nat /\ missed \in Nat /\ waited \in 0 .. Latency
      BY <1>1, <2>1 DEF TimedInv, TimedTypeOK, KeepsUp
    <3>3. Firings \in Nat /\ Limit \in Nat /\ Firings < Limit
      BY <3>1, LimitAssumption DEF Firings
    <3>4. Slowest(Firings) + 1 + Latency <= Slowest(Limit) /\ Slowest(Firings) \in Nat
      BY <3>3, Slower, SlowestGrows
    <3>5. Slowest(Limit) = Limit * (1 + Latency) /\ Slowest(Limit) \in Nat
      BY <3>3, Slower DEF Slowest
    <3> QED
      BY <1>1, <3>2, <3>4, <3>5, LatencyAssumption
  <2>2. CASE ~timer
    BY <1>1, <2>2 DEF TimedInv, IInv, CardInv, OneRightResult
  <2> QED
    BY <2>1, <2>2
<1>2. TimedInv => DecidedOnTime
  BY <1>1 DEF DecidedOnTime
<1> QED
  BY <1>2, TimedInvariance, PTL
================================================================================
