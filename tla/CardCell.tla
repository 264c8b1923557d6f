------------------------------- MODULE CardCell -------------------------------
(***************************************************************************)
(* A card on the screen: Cell/CardCell.swift.  A cell shows the front or   *)
(* the back image view (UIView.transition with .showHideTransitionViews    *)
(* hides one and shows the other), and both image views have alpha 1 or    *)
(* both have alpha 0.  Durations are left out, but not the half second     *)
(* that flipBack waits on the main queue before it turns the cell: the     *)
(* game controller's specification keeps the blocks that wait.             *)
(***************************************************************************)
LOCAL INSTANCE Naturals

Cell == [face : {"front", "back"}, alpha : {0, 1}]

\* init(frame:) and configureUI: the back image view lies on the front one.
newCell == [face |-> "back", alpha |-> 1]

\* Mutant: a recycled cell keeps the alpha of the card it showed before.
setCardKeepsAlpha(cell, isFlipped, isMatched) ==
  IF isMatched THEN [cell EXCEPT !.alpha = 0]
               ELSE [cell EXCEPT !.face = IF isFlipped THEN "front" ELSE "back"]

\* Mutant: every unmatched card is shown face down.
setCardFaceDown(cell, isFlipped, isMatched) ==
  IF isMatched THEN [cell EXCEPT !.alpha = 0] ELSE newCell

\* The views of a matched card are made transparent and nothing else is
\* touched; any other card is made opaque and turned to the side the card
\* model says.
setCard(cell, isFlipped, isMatched) ==
  IF isMatched
  THEN [cell EXCEPT !.alpha = 0]
  ELSE [face |-> IF isFlipped THEN "front" ELSE "back", alpha |-> 1]

flip(cell) == [cell EXCEPT !.face = "front"]

\* The block that flipBack leaves on the main queue, when it runs.
flipBackBlock(cell) == [cell EXCEPT !.face = "back"]

\* The front view fades out later on the screen, but its alpha is assigned
\* when remove runs.
remove(cell) == [cell EXCEPT !.alpha = 0]
===============================================================================
