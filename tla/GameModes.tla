------------------------------- MODULE GameModes -------------------------------
(***************************************************************************)
(* The three game modes.  EasyModeController, NormalModeController and     *)
(* HardModeController are the same program line for line, except for the   *)
(* generator they call, the initial value of milliseconds, insets and      *)
(* wording: each of them is GameMode with the numbers given here.          *)
(***************************************************************************)
EXTENDS Integers

\* All generators draw arc4random_uniform(13) + 1.
NumImages == 13

EasyMode   == [pairs |-> 6,  milliseconds |-> 30 * 1000]
NormalMode == [pairs |-> 8,  milliseconds |-> 40 * 1000]
HardMode   == [pairs |-> 10, milliseconds |-> 50 * 1000]

\* gameMode of HomeController, by row.
Modes == <<EasyMode, NormalMode, HardMode>>

\* The numbers of every mode satisfy what CardModel (PairsAssumption) and
\* GameMode (RowsAssumption, LimitAssumption, FloatAssumption) assume of
\* their constants, so the theorems hold for the modes of the app.
ASSUME ModesAssumption ==
  \A row \in 1 .. 3 :
     LET mode == Modes[row]
     IN  /\ mode.pairs \in 1 .. NumImages
         /\ 0 .. 2 * mode.pairs - 1 # {}
         /\ mode.milliseconds \in 1 .. 2^24
================================================================================
