------------------------------ MODULE MCTimedGame ------------------------------
(* Instances of TimedGame for TLC. *)
EXTENDS TimedGame, TLC

\* Rows that scroll alike, rows that never scroll, cells and pictures are
\* interchangeable.
Symmetry ==
  Permutations(Scrollable) \cup Permutations(Rows \ Scrollable)
    \cup Permutations(Cells) \cup Permutations(Images)
================================================================================
