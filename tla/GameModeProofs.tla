---------------------------- MODULE GameModeProofs ----------------------------
(***************************************************************************)
(* GameMode for every deck, every time limit, every number of cells and    *)
(* every scrollable set of rows: the invariants that TLC checks on four    *)
(* cards, the finality of the result, what a patient player sees, and the  *)
(* refinement of MemoryGame.                                               *)
(***************************************************************************)
EXTENDS PatientPlayer, TLAPS

\* A matched card stays flipped, so it is never touched again.
MatchedIsFlipped == \A r \in Rows : isMatched[r] => isFlipped[r]

\* No two rows share a cell, and a row on the screen has one.
OneCellPerRow ==
  /\ \A r, s \in Rows : cellAt[r] = cellAt[s] /\ cellAt[r] # NoCell => r = s
  /\ \A r \in visible : cellAt[r] # NoCell

\* The invariants of the cards, the clock and the result.
CardInv ==
  /\ IsDeck(deck)
  /\ MatchedIsFlipped
  /\ FirstFlippedIsOnlyOpenCard
  /\ PairsMatchTogether
  /\ TimerRunsWhileUndecided
  /\ OneRightResult

\* The invariants of the cells.
ScreenInv ==
  /\ OneCellPerRow
  /\ TransparentIffMatched
  /\ FaceUpIsAccountedFor

IInv == TypeOK /\ CardInv /\ ScreenInv

--------------------------------------------------------------------------------
(* Facts about cells and decks *)

\* The operations of a cell, as far as the invariants look at it.
LEMMA CellOperations ==
  ASSUME NEW cell \in Cell, NEW f \in BOOLEAN, NEW m \in BOOLEAN
  PROVE  /\ newCell \in Cell
         /\ flip(cell) \in Cell /\ flip(cell).alpha = cell.alpha
         /\ flipBackBlock(cell) \in Cell
         /\ flipBackBlock(cell).alpha = cell.alpha /\ flipBackBlock(cell).face = "back"
         /\ remove(cell) \in Cell /\ remove(cell).alpha = 0
         /\ setCard(cell, f, m) \in Cell
         /\ setCard(cell, f, m).alpha = 0 <=> m
         /\ ~f /\ ~m => setCard(cell, f, m).face = "back"
BY DEF Cell, newCell, flip, flipBackBlock, remove, setCard

\* At most one title is a sequence of titles.
LEMMA OneTitle == {<<>>, <<"won">>, <<"lost">>} \subseteq Seq({"won", "lost"})
OBVIOUS

\* Two different rows with the same picture have it for themselves.
LEMMA Partners ==
  ASSUME TypeOK, IsDeck(deck),
         NEW r \in Rows, NEW s \in Rows, r # s, deck[r] = deck[s],
         NEW t \in Rows, deck[t] = deck[r]
  PROVE  t \in {r, s}
BY DEF IsDeck, TypeOK

--------------------------------------------------------------------------------
(* Init *)

\* A new game satisfies the invariant.
LEMMA InitIInv == Init => IInv
<1> SUFFICES ASSUME Init PROVE IInv
  OBVIOUS
<1>1. newCell \in Cell
  BY DEF newCell, Cell
<1>2. TypeOK
  BY <1>1, LimitAssumption, BoundAssumption DEF Init, TypeOK, Decks
<1>3. CardInv
  BY RowsAssumption, LimitAssumption
     DEF Init, CardInv, Decks, MatchedIsFlipped, FirstFlippedIsOnlyOpenCard,
         PairsMatchTogether, TimerRunsWhileUndecided, OneRightResult, AllMatched
<1>4. ScreenInv
  BY DEF Init, ScreenInv, OneCellPerRow, TransparentIffMatched, FaceUpIsAccountedFor, FaceUp
<1> QED
  BY <1>2, <1>3, <1>4 DEF IInv

--------------------------------------------------------------------------------
(* Steps that leave the cards or the cells alone *)

\* CardInv speaks of the cards, the clock and the results only.
LEMMA CardInvUnchanged ==
  ASSUME CardInv, UNCHANGED <<cardVars, clockVars, results>>
  PROVE  CardInv'
BY DEF CardInv, cardVars, clockVars, IsDeck, MatchedIsFlipped, FirstFlippedIsOnlyOpenCard,
       PairsMatchTogether, TimerRunsWhileUndecided, OneRightResult, AllMatched

\* ScreenInv speaks of the flags of the cards and of the cells only.
LEMMA ScreenInvUnchanged ==
  ASSUME ScreenInv, UNCHANGED <<isFlipped, isMatched, layoutVars, cells, flipBacks>>
  PROVE  ScreenInv'
BY DEF ScreenInv, layoutVars, OneCellPerRow, TransparentIffMatched, FaceUpIsAccountedFor, FaceUp

\* A stuttering step changes nothing.
LEMMA StutterIInv ==
  ASSUME IInv, UNCHANGED vars
  PROVE  IInv'
<1>1. TypeOK'
  BY DEF IInv, TypeOK, vars, cardVars, clockVars, resultVars, layoutVars
<1> QED
  BY <1>1, CardInvUnchanged, ScreenInvUnchanged
     DEF IInv, vars, cardVars, clockVars, resultVars

\* Closing the alert and leaving the screen touch neither cards nor cells.
LEMMA NavigationIInv ==
  ASSUME IInv, dismissAlert \/ moveBack
  PROVE  IInv'
<1>1. TypeOK'
  BY DEF IInv, TypeOK, dismissAlert, moveBack, cardVars, clockVars, resultVars, layoutVars
<1>2. CardInv'
  BY CardInvUnchanged DEF IInv, dismissAlert, moveBack, resultVars
<1>3. ScreenInv'
  BY ScreenInvUnchanged DEF IInv, dismissAlert, moveBack, cardVars
<1> QED
  BY <1>1, <1>2, <1>3 DEF IInv

--------------------------------------------------------------------------------
(* The timer *)

\* A firing of the timer finds an unfinished game; when the time is up it
\* stops the timer and announces the loss.
LEMMA TimerIInv ==
  ASSUME IInv, timerElapsed
  PROVE  IInv'
<1>1. timer = TRUE /\ milliseconds \in 1 .. Limit /\ ~AllMatched /\ results = <<>>
  BY LimitAssumption DEF IInv, TypeOK, CardInv, timerElapsed, TimerRunsWhileUndecided, OneRightResult
<1>2. milliseconds' \in 0 .. Limit /\ milliseconds' = milliseconds - 1
  BY <1>1, LimitAssumption DEF timerElapsed
<1>3. \/ /\ milliseconds' > 0 /\ timer' = TRUE
         /\ results' = results /\ alert' = alert
      \/ /\ milliseconds' = 0 /\ timer' = FALSE
         /\ results' = <<"lost">> /\ alert' \in {alert, "lost"}
  <2>1. CASE milliseconds - 1 > 0
    <3>1. ~TimeIsUp(milliseconds - 1)
      BY <1>1, <2>1, LimitAssumption DEF TimeIsUp
    <3> QED
      BY <1>1, <1>2, <2>1, <3>1 DEF timerElapsed, resultVars
  <2>2. CASE ~(milliseconds - 1 > 0)
    <3>0. TimeIsUp(milliseconds - 1)
      BY <1>1, <2>2, LimitAssumption DEF TimeIsUp
    <3>1. checkGameEnded(isMatched, milliseconds - 1, FALSE)
      BY <3>0 DEF timerElapsed
    <3>2. timer' = FALSE /\ showAlert("lost")
      BY <1>1, <2>2, <3>1 DEF checkGameEnded, AllMatched
    <3>3. results' = <<"lost">>
      BY <1>1, <3>2 DEF showAlert
    <3>4. alert' \in {alert, "lost"}
      BY <3>2 DEF showAlert
    <3> QED
      BY <1>1, <1>2, <2>2, <3>2, <3>3, <3>4
  <2> QED
    BY <2>1, <2>2
<1>4. TypeOK'
  <2>1. results' \in Seq({"won", "lost"})
    <3>1. results' \in {<<>>, <<"lost">>}
      BY <1>1, <1>3
    <3> QED
      BY <3>1, OneTitle
  <2>2. timer' \in BOOLEAN /\ alert' \in {"none", "won", "lost"}
    BY <1>3 DEF IInv, TypeOK
  <2> QED
    BY <1>2, <2>1, <2>2 DEF IInv, TypeOK, timerElapsed, cardVars, layoutVars
<1>5. CardInv'
  <2>1. IsDeck(deck)' /\ MatchedIsFlipped' /\ FirstFlippedIsOnlyOpenCard' /\ PairsMatchTogether'
    BY DEF IInv, CardInv, timerElapsed, cardVars, IsDeck, MatchedIsFlipped,
           FirstFlippedIsOnlyOpenCard, PairsMatchTogether
  <2>2. ~AllMatched'
    BY <1>1 DEF timerElapsed, cardVars, AllMatched
  <2> QED
    BY <1>1, <1>2, <1>3, <2>1, <2>2 DEF CardInv, TimerRunsWhileUndecided, OneRightResult
<1>6. ScreenInv'
  BY ScreenInvUnchanged DEF IInv, timerElapsed, cardVars
<1> QED
  BY <1>4, <1>5, <1>6 DEF IInv

--------------------------------------------------------------------------------
(* The screen *)

\* A flip-back block only ever turns a cell to its back.
LEMMA FlipBackIInv ==
  ASSUME IInv, NEW c \in Cells, flipBackFires(c)
  PROVE  IInv'
<1> USE DEF flipBackFires
<1>1. /\ cells[c] \in Cell
      /\ cells'[c] \in Cell /\ cells'[c].alpha = cells[c].alpha /\ cells'[c].face = "back"
      /\ \A d \in Cells \ {c} : cells'[d] = cells[d]
  BY CellOperations DEF IInv, TypeOK
<1>2. /\ flipBacks'[c] \in 0 .. MaxFlipBacks
      /\ \A d \in Cells \ {c} : flipBacks'[d] = flipBacks[d]
  BY BoundAssumption DEF IInv, TypeOK
<1>3. TypeOK'
  BY <1>1, <1>2 DEF IInv, TypeOK, cardVars, clockVars, resultVars, layoutVars
<1>4. CardInv'
  BY CardInvUnchanged DEF IInv, resultVars
<1>5. \A r \in Rows : cellAt[r] # NoCell => cellAt[r] \in Cells
  BY DEF IInv, TypeOK
<1>6. OneCellPerRow' /\ TransparentIffMatched'
  BY <1>1, <1>5 DEF IInv, ScreenInv, OneCellPerRow, TransparentIffMatched, cardVars, layoutVars
<1>7. FaceUpIsAccountedFor'
  BY <1>1, <1>2, <1>5 DEF IInv, ScreenInv, FaceUpIsAccountedFor, FaceUp, cardVars, layoutVars
<1> QED
  BY <1>3, <1>4, <1>6, <1>7 DEF IInv, ScreenInv

\* A dequeued cell shows its new card whatever it showed before.
LEMMA CellForItemIInv ==
  ASSUME IInv, NEW r \in Rows, NEW c \in Cells, cellForItemAt(r, c)
  PROVE  IInv'
<1> USE DEF cellForItemAt
<1>1. isFlipped[r] \in BOOLEAN /\ isMatched[r] \in BOOLEAN /\ cells[c] \in Cell
  BY DEF IInv, TypeOK
<1>2. /\ cells'[c] \in Cell
      /\ cells'[c].alpha = 0 <=> isMatched[r]
      /\ ~isFlipped[r] /\ ~isMatched[r] => cells'[c].face = "back"
      /\ \A d \in Cells \ {c} : cells'[d] = cells[d]
  <2>1. /\ cells'[c] = setCard(cells[c], isFlipped[r], isMatched[r])
        /\ \A d \in Cells \ {c} : cells'[d] = cells[d]
    BY DEF IInv, TypeOK
  <2> QED
    BY <1>1, <2>1, CellOperations
<1>3. /\ cellAt'[r] = c /\ c # NoCell
      /\ \A s \in Rows \ {r} : cellAt'[s] = cellAt[s] /\ cellAt[s] # c
  BY CellsAssumption DEF IInv, TypeOK
<1>4. TypeOK'
  BY <1>2 DEF IInv, TypeOK, cardVars, clockVars, resultVars
<1>5. CardInv'
  BY CardInvUnchanged DEF IInv, resultVars
<1>6. OneCellPerRow'
  BY <1>3 DEF IInv, TypeOK, ScreenInv, OneCellPerRow
<1>7. \A s \in Rows \ {r} : cellAt[s] # NoCell => cells'[cellAt'[s]] = cells[cellAt[s]]
  BY <1>2, <1>3 DEF IInv, TypeOK
<1>8. TransparentIffMatched'
  <2> SUFFICES ASSUME NEW s \in Rows, cellAt'[s] # NoCell
               PROVE  cells'[cellAt'[s]].alpha = 0 <=> isMatched[s]
    BY DEF TransparentIffMatched, cardVars
  <2>1. CASE s = r
    BY <2>1, <1>2, <1>3
  <2>2. CASE s # r
    BY <2>2, <1>3, <1>7 DEF IInv, ScreenInv, TransparentIffMatched
  <2> QED
    BY <2>1, <2>2
<1>9. FaceUpIsAccountedFor'
  <2> SUFFICES ASSUME NEW s \in Rows, FaceUp(s)', ~isFlipped[s]
               PROVE  flipBacks[cellAt'[s]] > 0
    BY DEF FaceUpIsAccountedFor, cardVars
  <2>1. CASE s = r
    BY <2>1, <1>1, <1>2, <1>3 DEF FaceUp, IInv, CardInv, MatchedIsFlipped
  <2>2. CASE s # r
    BY <2>2, <1>3, <1>7 DEF FaceUp, IInv, ScreenInv, FaceUpIsAccountedFor
  <2> QED
    BY <2>1, <2>2
<1> QED
  BY <1>4, <1>5, <1>6, <1>8, <1>9 DEF IInv, ScreenInv

\* Scrolling and recycling never give a row a cell.
LEMMA ScrollIInv ==
  ASSUME IInv, NEW r \in Rows, redisplay(r) \/ scrollOff(r) \/ recycle(r)
  PROVE  IInv'
<1> USE DEF redisplay, scrollOff, recycle
<1>1. TypeOK'
  BY DEF IInv, TypeOK, cardVars, clockVars, resultVars, layoutVars
<1>2. CardInv'
  BY CardInvUnchanged DEF IInv, resultVars
<1>3. \A s \in Rows : cellAt'[s] \in {cellAt[s], NoCell}
  BY DEF IInv, TypeOK
<1>4. OneCellPerRow'
  <2>1. \A s \in visible' : cellAt'[s] # NoCell
    BY DEF IInv, TypeOK, ScreenInv, OneCellPerRow
  <2> QED
    BY <1>3, <2>1 DEF IInv, ScreenInv, OneCellPerRow
<1>5. TransparentIffMatched'
  BY <1>3 DEF IInv, ScreenInv, TransparentIffMatched, cardVars
<1>6. FaceUpIsAccountedFor'
  BY <1>3 DEF IInv, ScreenInv, FaceUpIsAccountedFor, FaceUp, cardVars
<1> QED
  BY <1>1, <1>2, <1>4, <1>5, <1>6 DEF IInv, ScreenInv

--------------------------------------------------------------------------------
(* Touching a card *)

\* What holds when a touch is not ignored: the game is undecided, and the
\* touched card is none of the flipped ones.
LEMMA TouchFacts ==
  ASSUME IInv, NEW r \in Rows, didSelectItemAt(r)
  PROVE  /\ milliseconds > 0 /\ timer = TRUE /\ ~AllMatched /\ results = <<>>
         /\ ~isFlipped[r] /\ ~isMatched[r] /\ r # firstFlippedCardIndex
         /\ r \in visible /\ cellAt[r] \in Cells
         /\ UNCHANGED <<deck, milliseconds, onScreen, visible>>
         /\ firstFlippedCardIndex # NoRow =>
              /\ firstFlippedCardIndex \in Rows
              /\ isFlipped[firstFlippedCardIndex] /\ ~isMatched[firstFlippedCardIndex]
<1>1. milliseconds > 0 /\ ~isFlipped[r] /\ ~isMatched[r] /\ r \in visible
  BY DEF didSelectItemAt, Touchable
<1>2. timer = TRUE /\ ~AllMatched /\ results = <<>>
  BY <1>1 DEF IInv, TypeOK, CardInv, TimerRunsWhileUndecided, OneRightResult, AllMatched
<1>3. cellAt[r] \in Cells
  BY <1>1 DEF IInv, TypeOK, ScreenInv, OneCellPerRow
<1>4. UNCHANGED <<deck, milliseconds, onScreen, visible>>
  BY DEF didSelectItemAt
<1>5. /\ r # firstFlippedCardIndex
      /\ firstFlippedCardIndex # NoRow =>
           /\ firstFlippedCardIndex \in Rows
           /\ isFlipped[firstFlippedCardIndex] /\ ~isMatched[firstFlippedCardIndex]
  BY <1>1, RowsAssumption DEF IInv, TypeOK, CardInv, FirstFlippedIsOnlyOpenCard
<1> QED
  BY <1>1, <1>2, <1>3, <1>4, <1>5

\* The first card of a try: it is flipped, on the screen and in the model.
LEMMA FirstCardIInv ==
  ASSUME IInv, NEW r \in Rows, didSelectItemAt(r), firstFlippedCardIndex = NoRow
  PROVE  IInv'
<1> DEFINE c == cellAt[r]
<1>1. /\ isFlipped' = [isFlipped EXCEPT ![r] = TRUE]
      /\ firstFlippedCardIndex' = r
      /\ cells' = [cells EXCEPT ![c] = flip(@)]
      /\ UNCHANGED <<isMatched, timer, alert, results, cellAt, flipBacks>>
  BY DEF didSelectItemAt, resultVars, checkForMatches
<1>2. /\ ~isFlipped[r] /\ ~isMatched[r] /\ c \in Cells
      /\ UNCHANGED <<deck, milliseconds, onScreen, visible>>
  BY TouchFacts
<1>3. /\ cells'[c] \in Cell /\ cells'[c].alpha = cells[c].alpha
      /\ \A d \in Cells \ {c} : cells'[d] = cells[d]
  BY <1>1, <1>2, CellOperations DEF IInv, TypeOK
<1>4. TypeOK'
  BY <1>1, <1>2, <1>3 DEF IInv, TypeOK
<1>5. CardInv'
  <2>1. FirstFlippedIsOnlyOpenCard'
    BY <1>1, <1>2, RowsAssumption DEF IInv, TypeOK, CardInv, FirstFlippedIsOnlyOpenCard
  <2>2. IsDeck(deck)' /\ PairsMatchTogether'
    BY <1>1, <1>2 DEF IInv, CardInv, IsDeck, PairsMatchTogether
  <2>3. MatchedIsFlipped'
    BY <1>1, <1>2 DEF IInv, TypeOK, CardInv, MatchedIsFlipped
  <2>4. TimerRunsWhileUndecided' /\ OneRightResult'
    BY <1>1, <1>2 DEF IInv, CardInv, TimerRunsWhileUndecided, OneRightResult, AllMatched
  <2> QED
    BY <2>1, <2>2, <2>3, <2>4 DEF CardInv
<1>6. \A s \in Rows : cellAt[s] # NoCell => cellAt[s] \in Cells
  BY DEF IInv, TypeOK
<1>7. OneCellPerRow' /\ TransparentIffMatched'
  BY <1>1, <1>2, <1>3, <1>6 DEF IInv, ScreenInv, OneCellPerRow, TransparentIffMatched
<1>8. FaceUpIsAccountedFor'
  <2> SUFFICES ASSUME NEW s \in Rows, FaceUp(s)', ~isFlipped'[s]
               PROVE  flipBacks[cellAt[s]] > 0
    BY <1>1 DEF FaceUpIsAccountedFor
  <2>1. s # r /\ isFlipped'[s] = isFlipped[s]
    BY <1>1 DEF IInv, TypeOK
  <2>2. cellAt[s] # NoCell /\ cellAt[s] # c
    BY <1>1, <1>2, <2>1, CellsAssumption DEF FaceUp, IInv, ScreenInv, OneCellPerRow
  <2>3. FaceUp(s)
    BY <1>1, <1>3, <1>6, <2>2 DEF FaceUp
  <2> QED
    BY <2>1, <2>3 DEF IInv, ScreenInv, FaceUpIsAccountedFor
<1> QED
  BY <1>4, <1>5, <1>7, <1>8 DEF IInv, ScreenInv

\* The second card of a pair: both cards are matched and their cells, where
\* they are on the screen, become transparent; with the last pair the timer
\* stops and the game is won.
LEMMA MatchIInv ==
  ASSUME IInv, NEW r \in Rows, didSelectItemAt(r),
         firstFlippedCardIndex # NoRow, deck[firstFlippedCardIndex] = deck[r]
  PROVE  IInv'
<1> DEFINE one == firstFlippedCardIndex
           there == {cellAt[s] : s \in {one, r} \cap visible}
           shown == [cells EXCEPT ![cellAt[r]] = flip(@)]
<1>1. /\ isMatched' = [isMatched EXCEPT ![one] = TRUE, ![r] = TRUE]
      /\ isFlipped' = [isFlipped EXCEPT ![r] = TRUE]
      /\ cells' = [c \in Cells |-> IF c \in there THEN remove(shown[c]) ELSE shown[c]]
      /\ cellAt' = IF one \in visible THEN cellAt ELSE [cellAt EXCEPT ![one] = NoCell]
      /\ firstFlippedCardIndex' = NoRow
      /\ flipBacks' = flipBacks
  BY DEF didSelectItemAt, checkForMatches, reloadItems
<1>2. /\ milliseconds > 0 /\ timer = TRUE /\ results = <<>>
      /\ one \in Rows /\ one # r /\ isFlipped[one] /\ ~isMatched[one] /\ ~isMatched[r]
      /\ r \in visible /\ cellAt[r] \in Cells
      /\ UNCHANGED <<deck, milliseconds, onScreen, visible>>
  BY TouchFacts
<1>3. /\ timer' = ~AllMatched'
      /\ results' = IF AllMatched' THEN <<"won">> ELSE <<>>
      /\ alert' \in {alert, "won"}
  <2>1. checkGameEnded(isMatched', milliseconds, timer)
    BY DEF didSelectItemAt, checkForMatches
  <2> QED
    BY <1>2, <2>1 DEF checkGameEnded, showAlert, AllMatched, resultVars
<1>4. \A s \in Rows : cellAt[s] # NoCell => cellAt[s] \in Cells
  BY DEF IInv, TypeOK
<1>5. /\ cellAt[r] \in there
      /\ one \in visible => cellAt[one] \in there
      /\ \A c \in there : c \in Cells
  BY <1>2, <1>4 DEF IInv, ScreenInv, OneCellPerRow
<1>6. /\ \A c \in Cells : shown[c] \in Cell
      /\ \A c \in Cells \ there : shown[c] = cells[c]
  BY <1>2, <1>5, CellOperations DEF IInv, TypeOK
<1>7. /\ \A c \in Cells : cells'[c] \in Cell
      /\ \A c \in there : cells'[c].alpha = 0
      /\ \A c \in Cells \ there : cells'[c] = cells[c]
  BY <1>1, <1>5, <1>6, CellOperations
<1>8. TypeOK'
  <2>1. cells' \in [Cells -> Cell]
    BY <1>1, <1>7
  <2>2. results' \in Seq({"won", "lost"})
    <3>1. results' \in {<<>>, <<"won">>}
      BY <1>3
    <3> QED
      BY <3>1, OneTitle
  <2>3. timer' \in BOOLEAN
    BY <1>3 DEF AllMatched
  <2>4. alert' \in {"none", "won", "lost"}
    BY <1>3 DEF IInv, TypeOK
  <2> QED
    BY <1>1, <1>2, <2>1, <2>2, <2>3, <2>4 DEF IInv, TypeOK
<1>9. CardInv'
  <2>1. \A s \in Rows : isMatched'[s] = (s \in {one, r} \/ isMatched[s])
    BY <1>1, <1>2 DEF IInv, TypeOK
  <2>2. \A s \in Rows : isFlipped'[s] = (s = r \/ isFlipped[s])
    BY <1>1, <1>2 DEF IInv, TypeOK
  <2>3. MatchedIsFlipped'
    BY <1>2, <2>1, <2>2 DEF IInv, CardInv, MatchedIsFlipped
  <2>4. FirstFlippedIsOnlyOpenCard'
    BY <1>1, <1>2, <2>1, <2>2, RowsAssumption DEF IInv, CardInv, FirstFlippedIsOnlyOpenCard
  <2>5. PairsMatchTogether'
    <3> SUFFICES ASSUME NEW s \in Rows, NEW t \in Rows, deck[s] = deck[t]
                 PROVE  isMatched'[s] <=> isMatched'[t]
      BY <1>2 DEF PairsMatchTogether
    <3>1. s \in {one, r} <=> t \in {one, r}
      BY <1>2, Partners DEF IInv, CardInv
    <3> QED
      BY <2>1, <3>1 DEF IInv, CardInv, PairsMatchTogether
  <2>6. IsDeck(deck)'
    BY <1>2 DEF IInv, CardInv, IsDeck
  <2>7. TimerRunsWhileUndecided' /\ OneRightResult'
    BY <1>2, <1>3 DEF TimerRunsWhileUndecided, OneRightResult, AllMatched
  <2> QED
    BY <2>3, <2>4, <2>5, <2>6, <2>7 DEF CardInv
<1>10. \A s \in Rows : cellAt'[s] # NoCell => cellAt'[s] = cellAt[s] /\ (s = one => one \in visible)
  BY <1>1, <1>2 DEF IInv, TypeOK
<1>11. OneCellPerRow'
  <2>1. \A s \in visible' : cellAt'[s] # NoCell
    BY <1>1, <1>2 DEF IInv, TypeOK, ScreenInv, OneCellPerRow
  <2> QED
    BY <1>10, <2>1 DEF IInv, ScreenInv, OneCellPerRow
<1>12. ASSUME NEW s \in Rows, cellAt'[s] # NoCell
       PROVE  \/ /\ s \in {one, r} /\ isMatched'[s] /\ cells'[cellAt'[s]].alpha = 0
              \/ /\ s \notin {one, r} /\ isMatched'[s] = isMatched[s] /\ isFlipped'[s] = isFlipped[s]
                 /\ cellAt'[s] = cellAt[s] /\ cells'[cellAt'[s]] = cells[cellAt[s]]
  <2>1. CASE s \in {one, r}
    BY <2>1, <1>1, <1>2, <1>5, <1>7, <1>10, <1>12 DEF IInv, TypeOK
  <2>2. CASE s \notin {one, r}
    <3>1. cellAt[s] \in Cells \ there
      BY <2>2, <1>2, <1>4, <1>10, <1>12 DEF IInv, ScreenInv, OneCellPerRow
    <3> QED
      BY <2>2, <3>1, <1>1, <1>7, <1>10, <1>12 DEF IInv, TypeOK
  <2> QED
    BY <2>1, <2>2
<1>13. TransparentIffMatched'
  BY <1>10, <1>12 DEF IInv, ScreenInv, TransparentIffMatched
<1>14. FaceUpIsAccountedFor'
  <2> SUFFICES ASSUME NEW s \in Rows, FaceUp(s)'
               PROVE  isFlipped'[s] \/ flipBacks[cellAt'[s]] > 0
    BY <1>1 DEF FaceUpIsAccountedFor
  <2>1. cellAt'[s] # NoCell /\ cells'[cellAt'[s]].alpha = 1 /\ cells'[cellAt'[s]].face = "front"
    BY DEF FaceUp
  <2>2. /\ isFlipped'[s] = isFlipped[s]
        /\ cellAt'[s] = cellAt[s] /\ cells'[cellAt'[s]] = cells[cellAt[s]]
    BY <1>12, <2>1
  <2>3. FaceUp(s)
    BY <2>1, <2>2 DEF FaceUp
  <2> QED
    BY <2>2, <2>3 DEF IInv, ScreenInv, FaceUpIsAccountedFor
<1> QED
  BY <1>8, <1>9, <1>11, <1>13, <1>14 DEF IInv, ScreenInv

\* A wrong guess: neither card stays flipped, and where one still shows its
\* picture a flip-back waits for its cell.
LEMMA MissIInv ==
  ASSUME IInv, NEW r \in Rows, didSelectItemAt(r),
         firstFlippedCardIndex # NoRow, deck[firstFlippedCardIndex] # deck[r]
  PROVE  IInv'
<1> DEFINE one == firstFlippedCardIndex
           there == {cellAt[s] : s \in {one, r} \cap visible}
<1>1. /\ isFlipped' = [isFlipped EXCEPT ![one] = FALSE, ![r] = FALSE]
      /\ cells' = [cells EXCEPT ![cellAt[r]] = flip(@)]
      /\ cellAt' = IF one \in visible THEN cellAt ELSE [cellAt EXCEPT ![one] = NoCell]
      /\ firstFlippedCardIndex' = NoRow
      /\ \A c \in there : flipBacks[c] < MaxFlipBacks
      /\ flipBacks' = [c \in Cells |-> IF c \in there THEN flipBacks[c] + 1 ELSE flipBacks[c]]
      /\ UNCHANGED <<isMatched, timer, alert, results>>
  BY DEF didSelectItemAt, checkForMatches, reloadItems, TurnedBack, resultVars
<1>2. /\ one \in Rows /\ one # r /\ ~isMatched[one] /\ ~isMatched[r]
      /\ r \in visible /\ cellAt[r] \in Cells
      /\ UNCHANGED <<deck, milliseconds, onScreen, visible>>
  BY TouchFacts
<1>3. \A s \in Rows : cellAt[s] # NoCell => cellAt[s] \in Cells
  BY DEF IInv, TypeOK
<1>4. /\ cells'[cellAt[r]] \in Cell /\ cells'[cellAt[r]].alpha = cells[cellAt[r]].alpha
      /\ \A c \in Cells \ {cellAt[r]} : cells'[c] = cells[c]
  BY <1>1, <1>2, CellOperations DEF IInv, TypeOK
<1>5. \A c \in Cells : /\ flipBacks[c] \in 0 .. MaxFlipBacks
                       /\ flipBacks'[c] \in 0 .. MaxFlipBacks
                       /\ flipBacks'[c] >= flipBacks[c]
                       /\ c \in there => flipBacks'[c] > 0
  BY <1>1, BoundAssumption DEF IInv, TypeOK
<1>6. TypeOK'
  <2>1. flipBacks' \in [Cells -> 0 .. MaxFlipBacks] /\ cells' \in [Cells -> Cell]
    BY <1>1, <1>4, <1>5 DEF IInv, TypeOK
  <2> QED
    BY <1>1, <1>2, <2>1 DEF IInv, TypeOK
<1>7. \A s \in Rows : isFlipped'[s] = (s \notin {one, r} /\ isFlipped[s])
  BY <1>1, <1>2 DEF IInv, TypeOK
<1>8. CardInv'
  <2>1. MatchedIsFlipped'
    BY <1>1, <1>2, <1>7 DEF IInv, CardInv, MatchedIsFlipped
  <2>2. FirstFlippedIsOnlyOpenCard'
    BY <1>1, <1>2, <1>7, RowsAssumption DEF IInv, CardInv, FirstFlippedIsOnlyOpenCard
  <2>3. IsDeck(deck)' /\ PairsMatchTogether'
    BY <1>1, <1>2 DEF IInv, CardInv, IsDeck, PairsMatchTogether
  <2>4. TimerRunsWhileUndecided' /\ OneRightResult'
    BY <1>1, <1>2 DEF IInv, CardInv, TimerRunsWhileUndecided, OneRightResult, AllMatched
  <2> QED
    BY <2>1, <2>2, <2>3, <2>4 DEF CardInv
<1>9. \A s \in Rows : cellAt'[s] # NoCell => cellAt'[s] = cellAt[s] /\ (s = one => one \in visible)
  BY <1>1, <1>2 DEF IInv, TypeOK
<1>10. OneCellPerRow'
  <2>1. \A s \in visible' : cellAt'[s] # NoCell
    BY <1>1, <1>2 DEF IInv, TypeOK, ScreenInv, OneCellPerRow
  <2> QED
    BY <1>9, <2>1 DEF IInv, ScreenInv, OneCellPerRow
<1>11. TransparentIffMatched'
  BY <1>1, <1>3, <1>4, <1>9 DEF IInv, ScreenInv, TransparentIffMatched
<1>12. FaceUpIsAccountedFor'
  <2> SUFFICES ASSUME NEW s \in Rows, FaceUp(s)', ~isFlipped'[s]
               PROVE  flipBacks'[cellAt'[s]] > 0
    BY DEF FaceUpIsAccountedFor
  <2>1. cellAt'[s] = cellAt[s] /\ cellAt[s] \in Cells /\ (s = one => one \in visible)
    BY <1>3, <1>9 DEF FaceUp
  <2>2. CASE s \in {one, r}
    BY <2>1, <2>2, <1>2, <1>5
  <2>3. CASE s \notin {one, r}
    <3>1. cellAt[s] # cellAt[r]
      BY <2>1, <2>3, <1>2, CellsAssumption DEF IInv, ScreenInv, OneCellPerRow
    <3>2. FaceUp(s) /\ ~isFlipped[s]
      BY <2>1, <2>3, <3>1, <1>4, <1>7, CellsAssumption DEF FaceUp
    <3>3. flipBacks[cellAt[s]] > 0
      BY <3>2 DEF IInv, ScreenInv, FaceUpIsAccountedFor
    <3> QED
      BY <2>1, <3>3, <1>5
  <2> QED
    BY <2>2, <2>3
<1> QED
  BY <1>6, <1>8, <1>10, <1>11, <1>12 DEF IInv, ScreenInv

--------------------------------------------------------------------------------
(* The theorems *)

\* Every step of the controller and of the screen preserves the invariant.
LEMMA NextIInv == IInv /\ [Next]_vars => IInv'
<1> SUFFICES ASSUME IInv, [Next]_vars PROVE IInv'
  OBVIOUS
<1>1. ASSUME NEW r \in Rows, didSelectItemAt(r) PROVE IInv'
  BY <1>1, FirstCardIInv, MatchIInv, MissIInv
<1>2. CASE ScreenNext
  BY <1>2, FlipBackIInv, CellForItemIInv, ScrollIInv DEF ScreenNext
<1> QED
  BY <1>1, <1>2, TimerIInv, NavigationIInv, StutterIInv DEF Next

\* Every reachable state of a game satisfies the inductive invariant.
THEOREM Invariance == Spec => []IInv
BY InitIInv, NextIInv, PTL DEF Spec

\* Every variable of the controller stays in its range, in particular the
\* remaining time is never negative.
THEOREM TypeCorrect == Spec => []TypeOK
BY Invariance, PTL DEF IInv

\* However fast the player touches cards, only the first card of the current
\* try is flipped without being matched.
THEOREM OnlyOneOpenCard == Spec => []FirstFlippedIsOnlyOpenCard
BY Invariance, PTL DEF IInv, CardInv

\* Cards are matched in pairs, for every legal deck.
THEOREM PairsTogether == Spec => []PairsMatchTogether
BY Invariance, PTL DEF IInv, CardInv

\* The timer is scheduled exactly as long as the game is undecided.
THEOREM TimerRuns == Spec => []TimerRunsWhileUndecided
BY Invariance, PTL DEF IInv, CardInv

\* The last pair and the end of the time never both announce their result.
THEOREM ResultOnce == Spec => []OneRightResult
BY Invariance, PTL DEF IInv, CardInv

\* Recycled, kept and reloaded cells hide the matched cards and no others.
THEOREM Transparency == Spec => []TransparentIffMatched
BY Invariance, PTL DEF IInv, ScreenInv

\* No cell shows the picture of a card that is not flipped, unless its
\* flip-back is waiting.
THEOREM NoPictureGivenAway == Spec => []FaceUpIsAccountedFor
BY Invariance, PTL DEF IInv, ScreenInv

--------------------------------------------------------------------------------
(* What a patient player sees *)

\* As long as the player has always waited: no flip-back waits while a card is
\* open, and the open card, if it has a cell, shows its picture.
Patient ==
  ~hasty /\ firstFlippedCardIndex # NoRow =>
    /\ NoFlipBackWaits
    /\ cellAt[firstFlippedCardIndex] # NoCell => cells[cellAt[firstFlippedCardIndex]].face = "front"

\* What a step leaves alone when it does not concern the open card.
LEMMA OpenCardUnchanged ==
  ASSUME Patient, hasty => hasty', UNCHANGED <<firstFlippedCardIndex, cellAt, cells, flipBacks>>
  PROVE  Patient'
BY DEF Patient, NoFlipBackWaits

LEMMA StepPatient ==
  ASSUME IInv, IInv', Patient, [PlayerNext]_<<vars, hasty>>
  PROVE  Patient'
<1>1. hasty => hasty'
  BY DEF PlayerNext
<1>2. firstFlippedCardIndex # NoRow => firstFlippedCardIndex \in Rows
  BY DEF IInv, TypeOK
<1>3. CASE UNCHANGED <<vars, hasty>>
  BY <1>1, <1>3, OpenCardUnchanged DEF vars, cardVars, layoutVars
<1>4. CASE timerElapsed \/ dismissAlert \/ moveBack
  BY <1>1, <1>4, OpenCardUnchanged DEF timerElapsed, dismissAlert, moveBack, cardVars, layoutVars
<1>5. ASSUME NEW c \in Cells, flipBackFires(c) PROVE Patient'
  <2>1. firstFlippedCardIndex' = firstFlippedCardIndex /\ ~NoFlipBackWaits
    BY <1>5 DEF flipBackFires, cardVars, NoFlipBackWaits
  <2> QED
    BY <1>1, <2>1 DEF Patient
<1>6. ASSUME NEW r \in Rows, NEW c \in Cells, cellForItemAt(r, c) PROVE Patient'
  <2>1. /\ UNCHANGED <<isFlipped, isMatched, firstFlippedCardIndex, flipBacks>>
        /\ cellAt' = [cellAt EXCEPT ![r] = c]
        /\ cells' = [cells EXCEPT ![c] = setCard(@, isFlipped[r], isMatched[r])]
        /\ \A s \in Rows : cellAt[s] # c
    BY <1>6 DEF cellForItemAt, cardVars
  <2> SUFFICES ASSUME ~hasty', firstFlippedCardIndex # NoRow
               PROVE  /\ NoFlipBackWaits'
                      /\ cellAt'[firstFlippedCardIndex] # NoCell
                           => cells'[cellAt'[firstFlippedCardIndex]].face = "front"
    BY <2>1 DEF Patient
  <2>2. NoFlipBackWaits'
    BY <1>1, <2>1 DEF Patient, NoFlipBackWaits
  <2>3. CASE firstFlippedCardIndex = r
    <3>1. isFlipped[r] /\ ~isMatched[r]
      BY <2>3 DEF IInv, CardInv, FirstFlippedIsOnlyOpenCard
    <3>2. cellAt'[r] = c /\ cells'[c] = setCard(cells[c], isFlipped[r], isMatched[r])
      BY <2>1 DEF IInv, TypeOK
    <3>3. cells'[c].face = "front"
      BY <3>1, <3>2 DEF setCard
    <3> QED
      BY <2>2, <2>3, <3>2, <3>3
  <2>4. CASE firstFlippedCardIndex # r
    <3>1. cellAt'[firstFlippedCardIndex] = cellAt[firstFlippedCardIndex]
      BY <1>2, <2>1, <2>4 DEF IInv, TypeOK
    <3>2. cellAt[firstFlippedCardIndex] # NoCell =>
            cells'[cellAt[firstFlippedCardIndex]] = cells[cellAt[firstFlippedCardIndex]]
      BY <1>2, <2>1 DEF IInv, TypeOK
    <3> QED
      BY <1>1, <2>2, <3>1, <3>2 DEF Patient
  <2> QED
    BY <2>3, <2>4
<1>7. ASSUME NEW r \in Rows, redisplay(r) \/ scrollOff(r) PROVE Patient'
  BY <1>1, <1>7, OpenCardUnchanged DEF redisplay, scrollOff, cardVars, layoutVars
<1>8. ASSUME NEW r \in Rows, recycle(r) PROVE Patient'
  <2>1. /\ UNCHANGED <<firstFlippedCardIndex, cells, flipBacks>>
        /\ cellAt' = [cellAt EXCEPT ![r] = NoCell]
    BY <1>8 DEF recycle, cardVars
  <2>2. \A s \in Rows : cellAt'[s] \in {cellAt[s], NoCell}
    BY <2>1 DEF IInv, TypeOK
  <2> QED
    BY <1>1, <1>2, <2>1, <2>2 DEF Patient, NoFlipBackWaits
<1>9. ASSUME NEW r \in Rows, didSelectItemAt(r), PlayerNext PROVE Patient'
  <2>1. CASE firstFlippedCardIndex # NoRow
    <3>1. firstFlippedCardIndex' = NoRow
      BY <1>9, <2>1 DEF didSelectItemAt, checkForMatches
    <3> QED
      BY <3>1 DEF Patient
  <2>2. CASE firstFlippedCardIndex = NoRow
    <3>1. /\ firstFlippedCardIndex' = r
          /\ cells' = [cells EXCEPT ![cellAt[r]] = flip(@)]
          /\ UNCHANGED <<cellAt, flipBacks>>
      BY <1>9, <2>2 DEF didSelectItemAt, checkForMatches
    <3>2. cellAt[r] \in Cells
      BY <1>9, TouchFacts
    <3>3. cells'[cellAt[r]].face = "front"
      BY <3>1, <3>2 DEF flip, IInv, TypeOK, Cell
    <3>4. cardVars' # cardVars
      BY <2>2, <3>1, RowsAssumption DEF cardVars
    <3>5. ~hasty' => NoFlipBackWaits
      BY <1>9, <3>4 DEF PlayerNext
    <3> QED
      BY <3>1, <3>3, <3>5 DEF Patient, NoFlipBackWaits
  <2> QED
    BY <2>1, <2>2
<1> QED
  BY <1>3, <1>4, <1>5, <1>6, <1>7, <1>8, <1>9 DEF PlayerNext, Next, ScreenNext

\* Whoever waits for the flip-backs sees exactly the pictures of the cards that
\* are flipped, for every deck, limit, number of cells and scrollable rows.
THEOREM PatienceIsRewarded == PlayerSpec => []PatientSeesTruth
<1>1. PlayerInit => IInv /\ Patient
  BY InitIInv DEF PlayerInit, Patient, Init
<1>2. IInv /\ Patient /\ [PlayerNext]_<<vars, hasty>> => (IInv /\ Patient)'
  <2>1. [PlayerNext]_<<vars, hasty>> => [Next]_vars
    BY DEF PlayerNext
  <2> QED
    BY <2>1, NextIInv, StepPatient
<1>3. IInv /\ Patient => PatientSeesTruth
  <2> SUFFICES ASSUME IInv, Patient, ~hasty, NEW r \in Rows, cellAt[r] # NoCell, ~isMatched[r],
                      flipBacks[cellAt[r]] = 0
               PROVE  FaceUp(r) <=> isFlipped[r]
    BY DEF PatientSeesTruth, ScreenAgreesWithCards
  <2>1. ASSUME FaceUp(r) PROVE isFlipped[r]
    BY <2>1 DEF IInv, ScreenInv, FaceUpIsAccountedFor
  <2>2. ASSUME isFlipped[r] PROVE FaceUp(r)
    <3>1. firstFlippedCardIndex = r
      BY <2>2 DEF IInv, CardInv, FirstFlippedIsOnlyOpenCard
    <3>2. cells[cellAt[r]].face = "front"
      BY <3>1, RowsAssumption DEF Patient
    <3>3. cells[cellAt[r]] \in Cell /\ cells[cellAt[r]].alpha # 0
      BY DEF IInv, TypeOK, ScreenInv, TransparentIffMatched
    <3> QED
      BY <3>2, <3>3 DEF FaceUp, Cell
  <2>3. isFlipped[r] \in BOOLEAN
    BY DEF IInv, TypeOK
  <2> QED
    BY <2>1, <2>2, <2>3, Zenon DEF FaceUp
<1> QED
  BY <1>1, <1>2, <1>3, PTL DEF PlayerSpec

--------------------------------------------------------------------------------
(* Finality and refinement *)

\* A step other than an effective touch or a firing of the timer leaves the
\* cards, the clock and the results alone.
LEMMA OtherSteps ==
  ASSUME dismissAlert \/ moveBack \/ ScreenNext \/ UNCHANGED vars
  PROVE  UNCHANGED <<cardVars, clockVars, results>>
BY DEF dismissAlert, moveBack, ScreenNext, flipBackFires, cellForItemAt, redisplay,
       scrollOff, recycle, vars, cardVars, clockVars, resultVars

\* Once a result is announced no event changes the cards, the remaining time
\* or the result: touches are ignored and the timer is stopped.
THEOREM ResultIsFinal == Spec => DecidedIsFinal
<1>1. IInv /\ [Next]_vars => [results # <<>> => UNCHANGED <<cardVars, milliseconds, results>>]_vars
  <2> SUFFICES ASSUME IInv, Next, results # <<>>
               PROVE  UNCHANGED <<cardVars, milliseconds, results>>
    OBVIOUS
  <2>1. ~timer
    BY DEF IInv, CardInv, OneRightResult
  <2>2. ~timerElapsed
    BY <2>1 DEF timerElapsed
  <2>3. \A r \in Rows : ~didSelectItemAt(r)
    BY TouchFacts
  <2> QED
    BY <2>2, <2>3, OtherSteps DEF Next, clockVars
<1> QED
  BY <1>1, Invariance, PTL DEF Spec, DecidedIsFinal

\* A new game maps to a new game of the rules.
LEMMA InitRefines == Init => Game!GameInit
BY DEF Init, Game!GameInit, Outcome, Decks, IsDeck, Game!Decks, Game!IsDeck

\* An effective touch is a move of the game.
LEMMA TouchRefines ==
  ASSUME IInv, NEW r \in Rows, didSelectItemAt(r)
  PROVE  Game!OpenFirst(r) \/ Game!FindPair(r) \/ Game!Miss(r)
<1> DEFINE found == {s \in Rows : isMatched[s]}
           one == firstFlippedCardIndex
<1>1. /\ results = <<>> /\ Outcome = "playing"
      /\ r \notin found \cup {one} /\ deck' = deck
      /\ one # NoRow => one \in Rows \ found
      /\ timer = TRUE /\ milliseconds > 0
  BY TouchFacts DEF Outcome
<1>2. CASE one = NoRow
  <2>1. isMatched' = isMatched /\ firstFlippedCardIndex' = r /\ results' = results
    BY <1>2 DEF didSelectItemAt, resultVars
  <2> QED
    BY <1>1, <1>2, <2>1 DEF Game!OpenFirst, Outcome
<1>3. CASE one # NoRow /\ deck[one] = deck[r]
  <2>1. /\ isMatched' = [isMatched EXCEPT ![one] = TRUE, ![r] = TRUE]
        /\ firstFlippedCardIndex' = NoRow
        /\ checkGameEnded(isMatched', milliseconds, timer)
    BY <1>3 DEF didSelectItemAt, checkForMatches
  <2>2. found' = found \cup {one, r}
    BY <1>1, <1>3, <2>1 DEF IInv, TypeOK
  <2>3. AllMatched' <=> found' = Rows
    BY DEF AllMatched
  <2>4. results' = IF AllMatched' THEN <<"won">> ELSE <<>>
    <3>1. CASE AllMatched'
      <4>1. showAlert("won")
        BY <2>1, <3>1 DEF checkGameEnded, AllMatched
      <4> QED
        BY <1>1, <3>1, <4>1 DEF showAlert
    <3>2. CASE ~AllMatched'
      BY <1>1, <2>1, <3>2 DEF checkGameEnded, AllMatched, resultVars
    <3> QED
      BY <3>1, <3>2
  <2>5. Outcome' = IF found' = Rows THEN "won" ELSE "playing"
    BY <2>3, <2>4 DEF Outcome
  <2> QED
    BY <1>1, <1>3, <2>1, <2>2, <2>5 DEF Game!FindPair
<1>4. CASE one # NoRow /\ deck[one] # deck[r]
  <2>1. isMatched' = isMatched /\ firstFlippedCardIndex' = NoRow /\ results' = results
    BY <1>4 DEF didSelectItemAt, checkForMatches, resultVars
  <2> QED
    BY <1>1, <1>4, <2>1 DEF Game!Miss, Outcome
<1> QED
  BY <1>2, <1>3, <1>4

\* A firing of the timer is the end of the time or invisible.
LEMMA TimerRefines ==
  ASSUME IInv, timerElapsed
  PROVE  Game!TimeUp \/ UNCHANGED Game!gameVars
<1>1. ~AllMatched /\ results = <<>>
  BY DEF IInv, CardInv, timerElapsed, TimerRunsWhileUndecided, OneRightResult
<1>2. UNCHANGED <<deck, isMatched, firstFlippedCardIndex>>
  BY DEF timerElapsed, cardVars
<1>3. results' = results \/ results' = <<"lost">>
  <2>1. results' = results \/ showAlert("lost")
    BY <1>1 DEF timerElapsed, checkGameEnded, AllMatched, resultVars
  <2> QED
    BY <1>1, <2>1 DEF showAlert
<1>4. {r \in Rows : isMatched[r]} # Rows
  BY <1>1 DEF AllMatched
<1> QED
  BY <1>1, <1>2, <1>3, <1>4 DEF Game!TimeUp, Game!gameVars, Outcome

\* Every behaviour of a game mode, for every deck and time limit, is a play
\* of the memory game under the refinement mapping.
THEOREM Refinement == Spec => ImplementsMemoryGame
<1>1. IInv /\ [Next]_vars => [Game!GameNext]_(Game!gameVars)
  <2> SUFFICES ASSUME IInv, [Next]_vars PROVE [Game!GameNext]_(Game!gameVars)
    OBVIOUS
  <2>1. ASSUME UNCHANGED <<cardVars, clockVars, results>> PROVE UNCHANGED Game!gameVars
    BY <2>1 DEF cardVars, Game!gameVars, Outcome
  <2>2. ASSUME NEW r \in Rows, didSelectItemAt(r) PROVE Game!GameNext
    BY <2>2, TouchRefines DEF Game!GameNext
  <2>3. CASE timerElapsed
    BY <2>3, TimerRefines DEF Game!GameNext
  <2> QED
    BY <2>1, <2>2, <2>3, OtherSteps DEF Next
<1> QED
  BY <1>1, InitRefines, Invariance, PTL DEF Spec, ImplementsMemoryGame, Game!GameSpec
===============================================================================
