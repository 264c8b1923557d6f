---------------------------- MODULE PatientPlayer ----------------------------
(* GameMode with a history of the player's patience. *)
EXTENDS GameMode

VARIABLE hasty   \* has a card been touched while a flip-back was waiting?

PlayerInit == Init /\ hasty = FALSE

\* Every touch that counts changes a card, and nothing else does.
PlayerNext ==
  /\ Next
  /\ hasty' = (hasty \/ (~NoFlipBackWaits /\ cardVars' # cardVars))

PlayerSpec == PlayerInit /\ [][PlayerNext]_<<vars, hasty>>

\* To a player who has always waited for the flip-backs (CardCell.flipBack
\* runs its block half a second later) the screen tells the truth, however
\* cells were recycled, kept and reloaded meanwhile.
PatientSeesTruth == ~hasty => ScreenAgreesWithCards
==============================================================================
