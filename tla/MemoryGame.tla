------------------------------ MODULE MemoryGame ------------------------------
(***************************************************************************)
(* What a game mode promises, without timers, cells, alerts and navigation *)
(* : the rules of a memory game played against a clock.  A game starts     *)
(* with a legal deck; one card at a time lies open; a second card either   *)
(* completes its pair, and both are found for good, or both are turned     *)
(* back; the game is won when every card is found and lost when the time   *)
(* is up before that; and once it is decided nothing changes any more.     *)
(***************************************************************************)
EXTENDS Deck

CONSTANTS
  Rows,     \* the positions of the cards
  Images,   \* the pictures
  NoRow     \* no card lies open

VARIABLES
  deck,     \* the picture of every row
  found,    \* the rows whose pair has been found
  open,     \* the row of the card that lies open, or NoRow
  outcome   \* "playing", "won" or "lost"

gameVars == <<deck, found, open, outcome>>

GameInit ==
  /\ deck \in Decks(Rows, Images)
  /\ found = {}
  /\ open = NoRow
  /\ outcome = "playing"

OpenFirst(r) ==
  /\ outcome = "playing"
  /\ open = NoRow
  /\ r \notin found
  /\ open' = r
  /\ UNCHANGED <<deck, found, outcome>>

FindPair(r) ==
  /\ outcome = "playing"
  /\ open \in Rows \ found
  /\ r \notin found \cup {open}
  /\ deck[r] = deck[open]
  /\ found' = found \cup {open, r}
  /\ open' = NoRow
  /\ outcome' = IF found' = Rows THEN "won" ELSE "playing"
  /\ UNCHANGED deck

Miss(r) ==
  /\ outcome = "playing"
  /\ open \in Rows \ found
  /\ r \notin found \cup {open}
  /\ deck[r] # deck[open]
  /\ open' = NoRow
  /\ UNCHANGED <<deck, found, outcome>>

TimeUp ==
  /\ outcome = "playing"
  /\ found # Rows
  /\ outcome' = "lost"
  /\ UNCHANGED <<deck, found, open>>

GameNext ==
  \/ \E r \in Rows : OpenFirst(r) \/ FindPair(r) \/ Miss(r)
  \/ TimeUp

GameSpec == GameInit /\ [][GameNext]_gameVars
===============================================================================
