------------------------------- MODULE TimedGame -------------------------------
(***************************************************************************)
(* A game beside a clock: how the milliseconds GameMode counts relate to   *)
(* the time that passes.                                                   *)
(*                                                                         *)
(* Timer.scheduledTimer(timeInterval: 0.001, ...) puts the timer in the    *)
(* default mode of the main run loop.  It fires when its fire date has     *)
(* come, and then once for however many fire dates it missed.  In two      *)
(* modes it is not served at all: while the user drags a scroll view the   *)
(* run loop is in its tracking mode, and in the background the app does    *)
(* not run.  In the default mode a due timer waits until the main thread   *)
(* has finished what it is doing (laying out a label, preparing cells).    *)
(***************************************************************************)
EXTENDS GameMode

CONSTANTS
  Latency,   \* the longest that the main thread keeps a due timer waiting in
             \* the default mode, in milliseconds
  MaxTime    \* bound: how long the clock is watched

ASSUME LatencyAssumption == Latency \in Nat
ASSUME MaxTimeAssumption == MaxTime \in Nat

VARIABLES
  clock,      \* milliseconds since viewDidLoad, until the game is decided
  fireDate,   \* when the timer fires next
  mode,       \* mode of the run loop, see RunLoopModes
  waited,     \* how long the due timer has waited for the main thread
  missed      \* history: the milliseconds spent in other modes than the default

timeVars == <<clock, fireDate, mode, waited, missed>>
timedVars == <<vars, timeVars>>

RunLoopModes == {"default", "tracking", "suspended"}

TimedInit ==
  /\ Init
  /\ clock = 0 /\ fireDate = 1
  /\ mode = "default"
  /\ waited = 0 /\ missed = 0

Due == clock >= fireDate

\* A millisecond passes in which no timer is due, or in another mode than the
\* default one.
Tick ==
  /\ timer
  /\ clock < MaxTime
  /\ mode = "default" => ~Due
  /\ clock' = clock + 1
  /\ missed' = IF mode = "default" THEN missed ELSE missed + 1
  /\ UNCHANGED <<vars, fireDate, mode, waited>>

\* A millisecond passes in which the main thread is busy and the timer, though
\* due, has to wait.
BusyTick ==
  /\ timer
  /\ clock < MaxTime
  /\ mode = "default" /\ Due /\ waited < Latency
  /\ clock' = clock + 1
  /\ waited' = waited + 1
  /\ UNCHANGED <<vars, fireDate, mode, missed>>

\* The timer fires once, however many fire dates have passed meanwhile.
TimerFires ==
  /\ mode = "default" /\ Due
  /\ timerElapsed
  /\ fireDate' = clock + 1
  /\ waited' = 0
  /\ UNCHANGED <<clock, mode, missed>>

\* The user starts or ends a drag, leaves the app or comes back to it.
EnterMode(m) ==
  /\ mode # m
  /\ mode' = m
  /\ UNCHANGED <<vars, clock, fireDate, waited, missed>>

\* A touch that is no drag is delivered in the default mode.
Touched ==
  /\ mode = "default"
  /\ (\E r \in Rows : didSelectItemAt(r)) \/ dismissAlert \/ moveBack
  /\ UNCHANGED timeVars

\* Rows leave and enter the screen while it is dragged; the main queue is
\* served in that mode too.
ScreenMoves ==
  /\ mode # "suspended"
  /\ ScreenNext
  /\ \A r \in visible : r \notin visible' => mode = "tracking"
  /\ UNCHANGED timeVars

TimedNext ==
  \/ Tick
  \/ BusyTick
  \/ TimerFires
  \/ \E m \in RunLoopModes : EnterMode(m)
  \/ Touched
  \/ ScreenMoves

TimedSpec == TimedInit /\ [][TimedNext]_timedVars

--------------------------------------------------------------------------------
(* Properties *)

\* Every variable stays in its range.
TimedTypeOK ==
  /\ TypeOK
  /\ clock \in Nat
  /\ fireDate \in Nat
  /\ mode \in RunLoopModes
  /\ waited \in 0 .. Latency
  /\ missed \in Nat

\* No player loses before the promised time is up: firings that come late, or
\* once for many, never make the countdown run ahead of the clock.
NeverLostEarly == results = <<"lost">> => clock >= Limit

\* How much longer than its limit a game can last: beside the time spent in the
\* modes in which the timer stands still, every firing can be late by the
\* latency of the main thread, and as missed firings are not made up for these
\* delays add up, to Latency milliseconds for every one of the Limit firings.
DecidedOnTime == clock - missed > Limit * (1 + Latency) => results # <<>>
================================================================================
