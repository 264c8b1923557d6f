--------------------------------- MODULE Deck ---------------------------------
(***************************************************************************)
(* What a legal deck of the memory game is.  CardModel shows that the      *)
(* generators of CardModel.swift only return legal decks, and the game     *)
(* specifications start from an arbitrary legal deck.                      *)
(***************************************************************************)

\* d gives the image of every row (or position).  Every image that occurs in
\* d occurs exactly twice: each row p has exactly one partner q.
IsDeck(d) ==
  \A p \in DOMAIN d : \E q \in DOMAIN d \ {p} :
     \A r \in DOMAIN d : d[r] = d[p] <=> r \in {p, q}

\* The legal decks over the rows S with pictures from Pictures.
Decks(S, Pictures) == {d \in [S -> Pictures] : IsDeck(d)}
===============================================================================
