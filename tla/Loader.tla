-------------------------------- MODULE Loader --------------------------------
(***************************************************************************)
(* What the app relies on of its one shared progress HUD, as the callers   *)
(* of showLoader see it: it is off, up, or fading out.  A show takes       *)
(* effect only when it is off and a dismissal only when it is up; it does  *)
(* not come up by itself, is taken down by nothing but a dismissal, and    *)
(* does not fade out forever.                                              *)
(***************************************************************************)

VARIABLE state

States == {"off", "up", "fading"}

\* The state after showLoader(true) and after showLoader(false).
Shown(s)  == IF s = "off" THEN "up" ELSE s
Hidden(s) == IF s = "up" THEN "fading" ELSE s

Init == state = "off"

Show == state' = Shown(state)
Hide == state' = Hidden(state)

Faded ==
  /\ state = "fading"
  /\ state' = "off"

Next == Show \/ Hide \/ Faded

Spec == Init /\ [][Next]_state

FairSpec == Spec /\ WF_state(Faded)
================================================================================
