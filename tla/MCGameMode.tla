------------------------------ MODULE MCGameMode ------------------------------
(* GameMode, with a player's patience, for TLC. *)
EXTENDS PatientPlayer, TLC

\* All rows scroll alike, so that they are interchangeable: one deck stands
\* for all, up to a permutation of the rows.
ASSUME RowsAlike == Scrollable = Rows

MCInit == PlayerInit /\ deck = CHOOSE d \in Decks(Rows, Images) : TRUE

MCSpec == MCInit /\ [][PlayerNext]_<<vars, hasty>> /\ Fairness
===============================================================================
