-------------------------------- MODULE Deck --------------------------------
(***************************************************************************)
(* What the scripts for presentations promise.  A deck is what its listed  *)
(* slides show.  The author puts a slide of the package in, takes one out  *)
(* or takes something off a slide; add_slide.py puts a slide into the      *)
(* package, clean.py takes slides out of it and pack.py looks at it, and   *)
(* none of them changes what a slide of the deck shows.                    *)
(***************************************************************************)
CONSTANTS Page, Item

VARIABLES
  deck,   \* what the slides in the deck show, by slide
  pages,  \* the slides in the package
  turn    \* "edited", "cleaning" for as long as clean.py runs, or "judged"

Init ==
  /\ pages \in SUBSET Page /\ turn = "edited"
  /\ deck \in UNION {[listed -> SUBSET Item] : listed \in SUBSET pages}

(* What the slides in the deck shall be, those of kept showing what they   *)
(* did.                                                                    *)
Lists(listed, kept) ==
  deck' \in [listed -> SUBSET Item] /\ \A p \in kept : deck'[p] = deck[p]

(* The author.                                                             *)
Edit == turn # "cleaning" /\ turn' = "edited" /\ UNCHANGED pages

Insert(p) == Edit /\ p \in pages \ DOMAIN deck /\ Lists(DOMAIN deck \cup {p}, DOMAIN deck)

Remove(p) == Edit /\ p \in DOMAIN deck /\ Lists(DOMAIN deck \ {p}, DOMAIN deck \ {p})

Trim(p) ==
  /\ Edit /\ p \in DOMAIN deck
  /\ Lists(DOMAIN deck, DOMAIN deck \ {p}) /\ deck'[p] \subseteq deck[p]

(* What is written elsewhere, or comes to nothing.                         *)
Touch == Edit /\ UNCHANGED deck

(* add_slide.py: the new slide is in the deck at once only where the list  *)
(* has an entry that waits for it.                                         *)
Provide(p) ==
  /\ turn # "cleaning" /\ turn' = "edited"
  /\ p \notin pages /\ pages' = pages \cup {p}
  /\ \E listed \in {DOMAIN deck, DOMAIN deck \cup {p}} : Lists(listed, DOMAIN deck)

(* clean.py: slides go that are not in the deck.                           *)
Clean ==
  /\ turn' = "cleaning" \/ (turn = "cleaning" /\ turn' = "edited")
  /\ DOMAIN deck \subseteq pages' /\ pages' \subseteq pages
  /\ UNCHANGED deck

(* pack.py and validate.py.                                                *)
Judge == turn # "cleaning" /\ turn' = "judged" /\ UNCHANGED <<deck, pages>>

Next ==
  \/ \E p \in Page : Insert(p) \/ Remove(p) \/ Trim(p) \/ Provide(p)
  \/ Touch \/ Clean \/ Judge

Spec == Init /\ [][Next]_<<deck, pages, turn>>
=============================================================================
