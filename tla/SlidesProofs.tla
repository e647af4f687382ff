---------------------------- MODULE SlidesProofs ----------------------------
(***************************************************************************)
(* Theorems about presentations, for every deck, author and number of      *)
(* slides and parts.                                                       *)
(***************************************************************************)
EXTENDS Office, TLAPS, WellFoundedInduction, FiniteSetTheorems

(* A set of naturals with a bound has a maximum, which is what Max gives.  *)
LEMMA BoundedHasMax ==
  ASSUME NEW S \in SUBSET Nat, S # {}, NEW b \in Nat, \A x \in S : x <= b
  PROVE  Max(S) \in S /\ \A x \in S : x <= Max(S)
<1> DEFINE B == {c \in Nat : \A x \in S : x <= c}
<1>1. IsWellFoundedOn({ss \in Nat \X Nat : ss[1] < ss[2]}, Nat)
  BY NatLessThanWellFounded DEF OpToRel
<1>2. B \subseteq Nat /\ B # {}
  OBVIOUS
<1>3. PICK m \in B : \A c \in B : <<c, m>> \notin {ss \in Nat \X Nat : ss[1] < ss[2]}
  <2> HIDE DEF B
  <2> QED BY <1>1, <1>2, WFMin
<1>4. \A c \in B : m <= c
  <2>1. ASSUME NEW c \in B PROVE m <= c
    <3>1. <<c, m>> \in Nat \X Nat /\ <<c, m>>[1] = c /\ <<c, m>>[2] = m
      OBVIOUS
    <3>2. ~(<<c, m>>[1] < <<c, m>>[2])
      BY <1>3, <3>1, Zenon
    <3> QED BY <3>1, <3>2
  <2> QED BY <2>1
<1>5. m \in S
  <2> SUFFICES ASSUME m \notin S PROVE FALSE
    OBVIOUS
  <2>1. \A x \in S : x < m
    OBVIOUS
  <2>2. PICK y \in S : TRUE
    OBVIOUS
  <2>3. m - 1 \in Nat /\ \A x \in S : x <= m - 1
    BY <2>1, <2>2
  <2> QED BY <1>4, <2>3
<1>6. \A x \in S : m >= x
  OBVIOUS
<1> QED BY <1>5, <1>6 DEF Max
-----------------------------------------------------------------------------
Item == Resource \cup Theme
Showing == [s \in Listed(sldIdLst, presRels) |-> Shown(s)]

(* What makes the relationships of presentation.xml lead to one slide      *)
(* each, which is there.                                                   *)
Connected ==
  /\ relsOf = [p \in DOMAIN relsOf |-> relsOf[p]]
  /\ presRels \subseteq PresRel /\ \A r \in presRels : r.slide \in files
  /\ \A r, q \in presRels : r.rid = q.rid => r = q
  /\ \E b \in Nat : \A r \in presRels : r.rid <= b

(* What clean.py follows: every .rels file is of a part that is there, or  *)
(* of a chart or drawing, only those of slides are ever written, and a     *)
(* part that refers to others keeps its own for as long as it is a slide's *)
(* or none of those that clean.py looks at.                                *)
Wired ==
  /\ files \subseteq Part /\ DOMAIN uses = Part
  /\ DOMAIN relsOf \subseteq (files \cup WithRels) \ (Media \cup Trash)
  /\ \A p \in DOMAIN relsOf \ Slide : p \in DOMAIN original.relsOf /\ relsOf[p] = original.relsOf[p]
  /\ \A p \in files \ (WithRels \ LinkedFromSlides) : uses[p] # {} => p \in DOMAIN relsOf

LEMMA LinkedIs ==
  \A t : t \in LinkedFromSlides <=> \E s \in DOMAIN relsOf \cap Slide : t \in relsOf[s]
BY DEF LinkedFromSlides, Targets, Restrict

LEMMA Kinds ==
  /\ Slide \cap Item = {} /\ Slide \cap Notes = {} /\ Slide \cap Trash = {} /\ WithRels \subseteq Resource
  /\ (Layout \cup Notes \cup Trash) \cap Item = {} /\ Resource \subseteq Item /\ WithRels \cap Slide = {}
  /\ Unswept \cap (Slide \cup Layout \cup Notes \cup Item \cup Trash) = {}
BY SlidesAssumption DEF Item, Resource, WithRels

LEMMA ListedIs ==
  ASSUME NEW list, NEW pres
  PROVE  \A s : s \in Listed(list, pres) <=> \E r \in pres, e \in list : e.rid = r.rid /\ s = r.slide
BY DEF Listed

LEMMA ListedSlides == Connected => Listed(sldIdLst, presRels) \subseteq Slides
BY DEF Connected, Listed, PresRel, Slides

(* A slide shows what it did if its own targets are the same, as are those *)
(* of the charts and drawings on it.                                       *)
LEMMA ShownSame ==
  ASSUME NEW s, s \in DOMAIN relsOf <=> s \in DOMAIN relsOf',
         s \in DOMAIN relsOf => relsOf'[s] \cap files' \cap Item = relsOf[s] \cap files \cap Item,
         \A c \in Direct(s) \cap WithRels :
           /\ c \in DOMAIN relsOf <=> c \in DOMAIN relsOf'
           /\ c \in DOMAIN relsOf => relsOf'[c] \cap files' \cap Item = relsOf[c] \cap files \cap Item
  PROVE  Shown(s)' = Shown(s)
<1>1. Direct(s)' = Direct(s)
  BY DEF Direct, Item
<1>2. Direct(s) \cap WithRels \cap DOMAIN relsOf' = Direct(s) \cap WithRels \cap DOMAIN relsOf
  OBVIOUS
<1> QED BY <1>1, <1>2 DEF Shown, Item

(* The steps of the deck, in the author's turn.                            *)
Edits == Turn # "cleaning" /\ Turn' = "edited"

LEMMA ChangeEdits ==
  ASSUME NEW cost, NEW lapse, Change(cost, lapse)
  PROVE  Edits
BY DEF Change, Edited, Edits, Turn

ShowsItems == Showing \in [Listed(sldIdLst, presRels) -> SUBSET (Resource \cup Theme)]

LEMMA ShowingTyped == ShowsItems
<1>1. \A s : Shown(s) \in SUBSET (Resource \cup Theme)
  BY DEF Shown, Direct
<1> QED BY <1>1 DEF Showing, ShowsItems

LEMMA ShowingTypedNext == Showing' \in [Listed(sldIdLst, presRels)' -> SUBSET (Resource \cup Theme)]
<1>1. ShowsItems'
  BY ShowingTyped, PTL
<1> QED BY <1>1 DEF ShowsItems

LEMMA Stutters ==
  ASSUME Listed(sldIdLst, presRels)' = Listed(sldIdLst, presRels),
         \A s \in Listed(sldIdLst, presRels) : Shown(s)' = Shown(s)
  PROVE  UNCHANGED Showing
BY DEF Showing

LEMMA Touches ==
  ASSUME Edits, UNCHANGED Slides, UNCHANGED Showing
  PROVE  AsDeck!Next
BY DEF AsDeck!Next, AsDeck!Touch, AsDeck!Edit, Edits, Showing

LEMMA Inserts ==
  ASSUME Edits, UNCHANGED Slides,
         NEW p \in Slide, p \in Slides \ Listed(sldIdLst, presRels),
         Listed(sldIdLst, presRels)' = Listed(sldIdLst, presRels) \cup {p},
         \A s \in Listed(sldIdLst, presRels) : Shown(s)' = Shown(s)
  PROVE  AsDeck!Next
<1>1. \A s \in Listed(sldIdLst, presRels) : Showing'[s] = Showing[s]
  BY DEF Showing
<1>2. DOMAIN Showing = Listed(sldIdLst, presRels)
  BY DEF Showing
<1>3. AsDeck!Lists(DOMAIN Showing \cup {p}, DOMAIN Showing)
  BY <1>1, <1>2, ShowingTypedNext DEF AsDeck!Lists, Showing
<1>4. AsDeck!Insert(p)
  BY <1>2, <1>3 DEF AsDeck!Insert, AsDeck!Edit, Edits, Showing
<1> QED BY <1>4 DEF AsDeck!Next

LEMMA Removes ==
  ASSUME Edits, UNCHANGED Slides,
         NEW p \in Slide, p \in Listed(sldIdLst, presRels),
         Listed(sldIdLst, presRels)' = Listed(sldIdLst, presRels) \ {p},
         \A s \in Listed(sldIdLst, presRels) : Shown(s)' = Shown(s)
  PROVE  AsDeck!Next
<1>1. \A s \in Listed(sldIdLst, presRels) \ {p} : Showing'[s] = Showing[s]
  BY DEF Showing
<1>2. DOMAIN Showing = Listed(sldIdLst, presRels)
  BY DEF Showing
<1>3. AsDeck!Lists(DOMAIN Showing \ {p}, DOMAIN Showing \ {p})
  BY <1>1, <1>2, ShowingTypedNext DEF AsDeck!Lists, Showing
<1>4. AsDeck!Remove(p)
  BY <1>2, <1>3 DEF AsDeck!Remove, AsDeck!Edit, Edits, Showing
<1> QED BY <1>4 DEF AsDeck!Next

LEMMA Trims ==
  ASSUME Edits, UNCHANGED Slides,
         NEW p \in Slide, p \in Listed(sldIdLst, presRels),
         Listed(sldIdLst, presRels)' = Listed(sldIdLst, presRels),
         Shown(p)' \subseteq Shown(p),
         \A s \in Listed(sldIdLst, presRels) : s # p => Shown(s)' = Shown(s)
  PROVE  AsDeck!Next
<1>1. Showing'[p] \subseteq Showing[p] /\ \A s \in Listed(sldIdLst, presRels) \ {p} : Showing'[s] = Showing[s]
  BY DEF Showing
<1>2. DOMAIN Showing = Listed(sldIdLst, presRels)
  BY DEF Showing
<1>3. AsDeck!Lists(DOMAIN Showing, DOMAIN Showing \ {p})
  BY <1>1, <1>2, ShowingTypedNext DEF AsDeck!Lists, Showing
<1>4. AsDeck!Trim(p)
  BY <1>1, <1>2, <1>3 DEF AsDeck!Trim, AsDeck!Edit, Edits, Showing
<1> QED BY <1>4 DEF AsDeck!Next

LEMMA Provides ==
  ASSUME Edits, NEW p \in Slide, p \notin Slides, Slides' = Slides \cup {p},
         \/ Listed(sldIdLst, presRels)' = Listed(sldIdLst, presRels)
         \/ Listed(sldIdLst, presRels)' = Listed(sldIdLst, presRels) \cup {p},
         \A s \in Listed(sldIdLst, presRels) : Shown(s)' = Shown(s)
  PROVE  AsDeck!Next
<1>1. \A s \in Listed(sldIdLst, presRels) : Showing'[s] = Showing[s]
  BY DEF Showing
<1>2. DOMAIN Showing = Listed(sldIdLst, presRels)
  BY DEF Showing
<1>3. \E listed \in {DOMAIN Showing, DOMAIN Showing \cup {p}} : AsDeck!Lists(listed, DOMAIN Showing)
  BY <1>1, <1>2, ShowingTypedNext DEF AsDeck!Lists, Showing
<1>4. AsDeck!Provide(p)
  BY <1>3 DEF AsDeck!Provide, Edits, Showing
<1> QED BY <1>4 DEF AsDeck!Next

(* A step of clean.py.                                                     *)
LEMMA Cleans ==
  ASSUME Turn' = "cleaning" \/ (Turn = "cleaning" /\ Turn' = "edited"),
         Listed(sldIdLst, presRels) \subseteq Slides', Slides' \subseteq Slides, UNCHANGED Showing
  PROVE  AsDeck!Next
<1>1. DOMAIN Showing = Listed(sldIdLst, presRels)
  BY DEF Showing
<1>2. AsDeck!Clean
  BY <1>1 DEF AsDeck!Clean, Showing
<1> QED BY <1>2 DEF AsDeck!Next

LEMMA Judges ==
  ASSUME Turn # "cleaning", Turn' = "judged", UNCHANGED Slides, UNCHANGED Showing
  PROVE  AsDeck!Next
BY DEF AsDeck!Next, AsDeck!Judge, Showing
-----------------------------------------------------------------------------
LEMMA NextNumbers ==
  ASSUME Connected
  PROVE  /\ NextSlideNumber \notin Slides
         /\ NextRid \in Nat /\ \A r \in presRels : r.rid # NextRid /\ r.rid <= NextRid
<1>1. Max(Slides \cup {0}) \in Slides \cup {0} /\ \A x \in Slides \cup {0} : x <= Max(Slides \cup {0})
  <2>1. Slides \cup {0} \in SUBSET Nat /\ Slides \cup {0} # {} /\ MaxSlide \in Nat /\ \A x \in Slides \cup {0} : x <= MaxSlide
    BY SlidesAssumption DEF Slides, Slide
  <2> HIDE DEF Slides
  <2> QED BY <2>1, BoundedHasMax
<1>2. NextSlideNumber \notin Slides
  <2> DEFINE top == Max(Slides \cup {0})
  <2>1. \A x \in Slides : x \in Int
    BY DEF Slides, Slide
  <2>2. top \in Int /\ \A x \in Slides : x <= top
    BY <1>1, <2>1
  <2>3. NextSlideNumber = top + 1
    BY DEF NextSlideNumber
  <2> HIDE DEF top
  <2> QED BY <2>1, <2>2, <2>3
<1> DEFINE rids == {r.rid : r \in presRels} \cup {0}
<1>3. Max(rids) \in rids /\ \A x \in rids : x <= Max(rids)
  <2>1. PICK b \in Nat : \A r \in presRels : r.rid <= b
    BY DEF Connected
  <2>2. rids \in SUBSET Nat /\ rids # {} /\ \A x \in rids : x <= b
    BY <2>1 DEF Connected, PresRel
  <2> HIDE DEF rids
  <2> QED BY <2>1, <2>2, BoundedHasMax
<1>4. rids \in SUBSET Nat
  BY DEF Connected, PresRel
<1>5. NextRid = Max(rids) + 1
  BY DEF NextRid
<1>6. \A r \in presRels : r.rid \in rids
  OBVIOUS
<1>7. NextRid \in Nat /\ \A r \in presRels : r.rid # NextRid /\ r.rid <= NextRid
  <2> DEFINE top == Max(rids)
  <2>1. top \in Nat /\ \A x \in rids : x \in Nat /\ x <= top
    BY <1>3, <1>4
  <2>2. NextRid = top + 1
    BY <1>5
  <2> HIDE DEF rids, top
  <2>3. \A r \in presRels : r.rid \in Nat /\ r.rid <= top
    BY <1>6, <2>1
  <2> QED BY <2>1, <2>2, <2>3
<1> QED BY <1>2, <1>7

(* A slide is added: what the others show is the same, and the new one is  *)
(* in the deck only if the list has an entry of that number already.       *)
LEMMA AddSlideSteps ==
  ASSUME Connected, NEW n, n = NextSlideNumber, NEW rels, NEW used0, NEW wrong, AddSlide(n, rels, used0, wrong),
         rels = [p \in DOMAIN rels |-> rels[p]],
         \A p : p # n => (p \in DOMAIN rels <=> p \in DOMAIN relsOf) /\ (p \in DOMAIN relsOf => rels[p] = relsOf[p])
  PROVE  Connected' /\ AsDeck!Next
<1>1. /\ n \in Slide /\ files' = files \cup {n} /\ relsOf' = rels /\ UNCHANGED sldIdLst
      /\ presRels' = presRels \cup
           (IF \E r \in presRels : r.slide = n THEN {} ELSE {[rid |-> NextRid, slide |-> n]})
  BY Zenon DEF AddSlide, AddToPresentationRels
<1>2. n \notin files /\ NextRid \in Nat /\ \A r \in presRels : r.rid # NextRid /\ r.rid <= NextRid
  BY <1>1, NextNumbers DEF Slides
<1>3. presRels' = presRels \cup {[rid |-> NextRid, slide |-> n]}
  BY <1>1, <1>2 DEF Connected
<1>4. Connected'
  <2>1. [rid |-> NextRid, slide |-> n] \in PresRel
    BY <1>1, <1>2 DEF PresRel
  <2>2. \A r \in presRels' : r.slide \in files'
    BY <1>1, <1>3 DEF Connected
  <2>3. \A r, q \in presRels' : r.rid = q.rid => r = q
    BY <1>2, <1>3 DEF Connected
  <2>4. \A r \in presRels' : r.rid <= NextRid
    BY <1>2, <1>3
  <2> QED BY <1>1, <1>2, <1>3, <2>1, <2>2, <2>3, <2>4 DEF Connected
<1>5. \A s : s \in Listed(sldIdLst, presRels)' <=>
         s \in Listed(sldIdLst, presRels) \/ (s = n /\ \E e \in sldIdLst : e.rid = NextRid)
  <2> DEFINE new == [rid |-> NextRid, slide |-> n]
  <2>1. new.rid = NextRid /\ new.slide = n
    OBVIOUS
  <2>2. \A s : s \in Listed(sldIdLst, presRels \cup {new}) <=>
           s \in Listed(sldIdLst, presRels) \/ (s = n /\ \E e \in sldIdLst : e.rid = NextRid)
    <3> HIDE DEF new
    <3> QED BY <2>1, ListedIs
  <2> QED BY <1>1, <1>3, <2>2
<1>6. n \notin Listed(sldIdLst, presRels)
  BY <1>2, ListedSlides DEF Slides
<1>7. ASSUME NEW s \in Listed(sldIdLst, presRels) PROVE Shown(s)' = Shown(s)
  <2>1. s # n
    BY <1>6
  <2>2. n \notin Item /\ n \notin WithRels
    BY <1>1, Kinds
  <2>3. \A p : p # n /\ p \in DOMAIN relsOf => relsOf'[p] \cap files' \cap Item = relsOf[p] \cap files \cap Item
    BY <1>1, <2>2
  <2> QED BY <1>1, <2>1, <2>2, <2>3, ShownSame
<1>8. \/ Listed(sldIdLst, presRels)' = Listed(sldIdLst, presRels)
      \/ Listed(sldIdLst, presRels)' = Listed(sldIdLst, presRels) \cup {n}
  BY <1>5
<1>9. Slides' = Slides \cup {n} /\ n \notin Slides
  BY <1>1, <1>2 DEF Slides
<1>10. Edits
  BY ChangeEdits, Zenon DEF AddSlide
<1> QED BY <1>1, <1>4, <1>7, <1>8, <1>9, <1>10, Provides

LEMMA CreateSteps ==
  ASSUME Connected, NEW l \in Layout, CreateSlideFromLayout(l)
  PROVE  Connected' /\ AsDeck!Next
<1> DEFINE n == NextSlideNumber
           rels == [p \in DOMAIN relsOf \cup {n} |-> IF p = n THEN {l} ELSE relsOf[p]]
<1>1. AddSlide(n, rels, {}, {})
  BY DEF CreateSlideFromLayout
<1>2. rels = [p \in DOMAIN rels |-> rels[p]]
  OBVIOUS
<1>3. \A p : p # n => (p \in DOMAIN rels <=> p \in DOMAIN relsOf) /\ (p \in DOMAIN relsOf => rels[p] = relsOf[p])
  OBVIOUS
<1> HIDE DEF n, rels
<1>4. n = NextSlideNumber
  BY DEF n
<1> QED BY <1>1, <1>2, <1>3, <1>4, AddSlideSteps

LEMMA DuplicateSteps ==
  ASSUME Connected, NEW s \in Slide, DuplicateSlide(s)
  PROVE  Connected' /\ AsDeck!Next
<1> DEFINE n == NextSlideNumber
           rels == IF s \in DOMAIN relsOf
                   THEN [p \in DOMAIN relsOf \cup {n} |-> IF p = n THEN CopiedRels(s) ELSE relsOf[p]]
                   ELSE relsOf
<1>1. AddSlide(n, rels, uses[s], faults[s])
  BY DEF DuplicateSlide
<1>2. rels = [p \in DOMAIN rels |-> rels[p]]
  BY DEF Connected
<1>3. \A p : p # n => (p \in DOMAIN rels <=> p \in DOMAIN relsOf) /\ (p \in DOMAIN relsOf => rels[p] = relsOf[p])
  OBVIOUS
<1> HIDE DEF n, rels
<1>4. n = NextSlideNumber
  BY DEF n
<1> QED BY <1>1, <1>2, <1>3, <1>4, AddSlideSteps

(* The list alone changes: an entry names one slide or none.               *)
LEMMA ListedWith ==
  ASSUME Connected, NEW list, NEW e
  PROVE  \/ Listed(list \cup {e}, presRels) = Listed(list, presRels)
         \/ \E p \in Slide : /\ p \notin Listed(list, presRels)
                             /\ Listed(list \cup {e}, presRels) = Listed(list, presRels) \cup {p}
<1> DEFINE named == {r.slide : r \in {r \in presRels : r.rid = e.rid}}
<1>1. Listed(list \cup {e}, presRels) = Listed(list, presRels) \cup named
  BY DEF Listed
<1>2. \A q, t \in named : q = t /\ q \in Slide
  BY DEF Connected, PresRel
<1>3. named = {} \/ \E p \in Slide : named = {p}
  BY <1>2, SMTT(20)
<1> HIDE DEF named
<1> QED BY <1>1, <1>3

LEMMA ListSteps ==
  ASSUME Connected, Edits, UNCHANGED <<files, relsOf, presRels>>, NEW e,
         \/ sldIdLst' = sldIdLst \cup {e}
         \/ sldIdLst' = sldIdLst \ {e} /\ e \in sldIdLst
  PROVE  Connected' /\ AsDeck!Next
<1>1. Connected'
  BY DEF Connected
<1>2. \A s : Shown(s)' = Shown(s)
  BY DEF Shown, Direct
<1>5. UNCHANGED Slides /\ Listed(sldIdLst, presRels)' \subseteq Slides
  <2>1. (Listed(sldIdLst, presRels) \subseteq Slides)'
    BY <1>1, ListedSlides, PTL
  <2> QED BY <2>1 DEF Slides
<1>3. CASE sldIdLst' = sldIdLst \cup {e}
  <2>1. \/ Listed(sldIdLst, presRels)' = Listed(sldIdLst, presRels)
        \/ \E p \in Slide : /\ p \notin Listed(sldIdLst, presRels)
                            /\ Listed(sldIdLst, presRels)' = Listed(sldIdLst, presRels) \cup {p}
    <3>1. Listed(sldIdLst, presRels)' = Listed(sldIdLst \cup {e}, presRels)
      BY <1>3
    <3>2. \/ Listed(sldIdLst \cup {e}, presRels) = Listed(sldIdLst, presRels)
          \/ \E p \in Slide : /\ p \notin Listed(sldIdLst, presRels)
                              /\ Listed(sldIdLst \cup {e}, presRels) = Listed(sldIdLst, presRels) \cup {p}
      BY ListedWith
    <3> QED BY <3>1, <3>2
  <2> QED BY <1>1, <1>2, <1>5, <2>1, Stutters, Touches, Inserts
<1>4. CASE sldIdLst' = sldIdLst \ {e} /\ e \in sldIdLst
  <2>1. sldIdLst' \cup {e} = sldIdLst
    BY <1>4
  <2>2. \/ Listed(sldIdLst, presRels)' = Listed(sldIdLst, presRels)
        \/ \E p \in Slide : /\ p \in Listed(sldIdLst, presRels)
                            /\ Listed(sldIdLst, presRels)' = Listed(sldIdLst, presRels) \ {p}
    <3>1. \/ Listed(sldIdLst' \cup {e}, presRels) = Listed(sldIdLst', presRels)
          \/ \E p \in Slide : /\ p \notin Listed(sldIdLst', presRels)
                              /\ Listed(sldIdLst' \cup {e}, presRels) = Listed(sldIdLst', presRels) \cup {p}
      BY ListedWith
    <3> QED BY <2>1, <3>1
  <2> QED BY <1>1, <1>2, <1>5, <2>2, Stutters, Touches, Removes
<1> QED BY <1>3, <1>4

LEMMA EditSteps ==
  ASSUME Connected, NEW s \in Slide, NEW p \in Resource, NEW what, EditSlide(s, p, what)
  PROVE  Connected' /\ AsDeck!Next
<1> DEFINE less == relsOf[s] \ (IF "relationship" \in what THEN {p} ELSE {})
<1>1. s \in DOMAIN relsOf /\ relsOf' = [relsOf EXCEPT ![s] = less] /\ UNCHANGED <<files, presRels, sldIdLst>>
  BY DEF EditSlide
<1>2. DOMAIN relsOf' = DOMAIN relsOf /\ relsOf'[s] = less /\ \A q \in DOMAIN relsOf : q # s => relsOf'[q] = relsOf[q]
  BY <1>1
<1>3. Connected'
  BY <1>1, <1>2 DEF Connected
<1>4. s \notin WithRels
  BY Kinds
<1>5. ASSUME NEW t, t # s PROVE Shown(t)' = Shown(t)
  BY <1>1, <1>2, <1>4, <1>5, ShownSame
<1>6. Shown(s)' \subseteq Shown(s)
  <2>1. Direct(s)' \subseteq Direct(s)
    BY <1>1, <1>2 DEF Direct
  <2>2. \A c \in WithRels \cap DOMAIN relsOf : relsOf'[c] = relsOf[c]
    BY <1>2, <1>4
  <2> QED BY <1>1, <1>2, <2>1, <2>2 DEF Shown
<1>7. Listed(sldIdLst, presRels)' = Listed(sldIdLst, presRels)
  BY <1>1
<1>10. Edits /\ UNCHANGED Slides
  BY <1>1, ChangeEdits, Zenon DEF EditSlide, Slides
<1>8. CASE s \in Listed(sldIdLst, presRels)
  BY <1>3, <1>5, <1>6, <1>7, <1>8, <1>10, Trims
<1>9. CASE s \notin Listed(sldIdLst, presRels)
  BY <1>3, <1>5, <1>7, <1>9, <1>10, Stutters, Touches
<1> QED BY <1>8, <1>9

LEMMA RelayoutSteps ==
  ASSUME Connected, NEW s \in Slide, NEW l \in Layout, NEW too \in BOOLEAN, Relayout(s, l, too)
  PROVE  Connected' /\ AsDeck!Next
<1> DEFINE other == (IF too THEN relsOf[s] ELSE relsOf[s] \ Layout) \cup {l}
<1>1. s \in DOMAIN relsOf /\ relsOf' = [relsOf EXCEPT ![s] = other] /\ UNCHANGED <<files, presRels, sldIdLst>>
  BY Zenon DEF Relayout
<1>2. DOMAIN relsOf' = DOMAIN relsOf /\ relsOf'[s] = other /\ \A q \in DOMAIN relsOf : q # s => relsOf'[q] = relsOf[q]
  BY <1>1
<1>3. Connected'
  BY <1>1, <1>2 DEF Connected
<1>4. s \notin WithRels /\ other \cap Item = relsOf[s] \cap Item
  BY Kinds
<1>5. \A q \in DOMAIN relsOf : relsOf'[q] \cap Item = relsOf[q] \cap Item
  BY <1>2, <1>4
<1>6. ASSUME NEW t PROVE Shown(t)' = Shown(t)
  BY <1>1, <1>2, <1>5, ShownSame
<1>7. Listed(sldIdLst, presRels)' = Listed(sldIdLst, presRels)
  BY <1>1
<1>8. Edits /\ UNCHANGED Slides
  BY <1>1, ChangeEdits, Zenon DEF Relayout, Slides
<1> QED BY <1>3, <1>6, <1>7, <1>8, Stutters, Touches
-----------------------------------------------------------------------------
(* Cleaning: what a listed slide shows is referred to, and stays.          *)
LEMMA RemoveSlidesSteps ==
  ASSUME Connected, RemoveOrphanedSlides
  PROVE  /\ Connected' /\ AsDeck!Next
         /\ Listed(sldIdLst, presRels)' = Listed(sldIdLst, presRels)
<1> DEFINE listed == Listed(sldIdLst, presRels)
           gone == Slides \ listed
<1>1. /\ files' = files \ (gone \cup Trash) /\ relsOf' = Without(relsOf, gone) /\ UNCHANGED sldIdLst
      /\ presRels' = (IF gone = {} THEN presRels ELSE {r \in presRels : r.slide \in listed})
  BY DEF RemoveOrphanedSlides
<1>2. gone \subseteq Slide /\ listed \subseteq Slides
  BY ListedSlides DEF Slides
<1>3. /\ DOMAIN relsOf' = DOMAIN relsOf \ gone /\ \A p \in DOMAIN relsOf' : relsOf'[p] = relsOf[p]
      /\ relsOf' = [p \in DOMAIN relsOf' |-> relsOf'[p]]
  BY <1>1 DEF Without, Restrict
<1>4. \A r \in presRels' : r \in presRels /\ r.slide \in files /\ r.slide \in Slide /\ r.slide \notin gone
  BY <1>1 DEF Connected, PresRel, Slides
<1>5. Connected'
  <2>1. \A r \in presRels' : r.slide \in files'
    BY <1>1, <1>4, Kinds
  <2> QED BY <1>3, <1>4, <2>1 DEF Connected
<1>6. Listed(sldIdLst, presRels)' = listed
  <2>1. \A r \in presRels, e \in sldIdLst : e.rid = r.rid => r.slide \in listed
    BY ListedIs
  <2>2. \A r \in presRels, e \in sldIdLst : e.rid = r.rid => r \in presRels'
    BY <1>1, <2>1
  <2> HIDE DEF listed
  <2>3. \A s : s \in Listed(sldIdLst', presRels') <=> \E r \in presRels', e \in sldIdLst' : e.rid = r.rid /\ s = r.slide
    BY ListedIs
  <2>4. \A s : s \in listed <=> \E r \in presRels, e \in sldIdLst : e.rid = r.rid /\ s = r.slide
    BY ListedIs DEF listed
  <2>5. sldIdLst' = sldIdLst /\ \A r \in presRels' : r \in presRels
    BY <1>1, <1>4
  <2> HIDE DEF gone
  <2>6. \A s : s \in Listed(sldIdLst', presRels') <=> s \in listed
    BY <2>2, <2>3, <2>4, <2>5
  <2> QED BY <2>6
<1>7. files' \cap Item = files \cap Item
  BY <1>1, <1>2, Kinds
<1>8. ASSUME NEW s \in listed PROVE Shown(s)' = Shown(s)
  <2>1. s \notin gone /\ WithRels \cap gone = {}
    BY <1>2, Kinds
  <2> HIDE DEF gone
  <2> QED BY <1>3, <1>7, <2>1, ShownSame
<1>9. UNCHANGED Showing
  BY <1>6, <1>8, Stutters
<1>10. Listed(sldIdLst, presRels) \subseteq Slides' /\ Slides' \subseteq Slides
  BY <1>1, <1>2, Kinds DEF Slides
<1>11. Turn' = "cleaning"
  BY DEF RemoveOrphanedSlides, Turn
<1> QED BY <1>5, <1>6, <1>9, <1>10, <1>11, Cleans

LEMMA RemoveFilesSteps ==
  ASSUME Connected, RemoveOrphanedFiles
  PROVE  Connected' /\ AsDeck!Next
<1> DEFINE rels == Without(relsOf, OrphanedRels)
           gone == OrphanedFiles(rels)
           goneRels == {p \in DOMAIN rels : (p \in Theme /\ p \in gone) \/ (p \in Notes /\ p \notin files \ gone)}
<1>1. files' = files \ gone /\ relsOf' = Without(rels, goneRels) /\ UNCHANGED <<presRels, sldIdLst>>
  BY DEF RemoveOrphanedFiles
<1>2. /\ DOMAIN rels = DOMAIN relsOf \ OrphanedRels /\ \A p \in DOMAIN rels : rels[p] = relsOf[p]
      /\ DOMAIN relsOf' = DOMAIN rels \ goneRels /\ \A p \in DOMAIN relsOf' : relsOf'[p] = rels[p]
      /\ relsOf' = [p \in DOMAIN relsOf' |-> relsOf'[p]]
  BY <1>1 DEF Without, Restrict
<1>3. \A p \in gone : p \in Resource \cup Theme \cup Notes /\ p \notin Targets(rels)
  BY DEF OrphanedFiles, Swept, Referenced
<1>4. OrphanedRels \subseteq WithRels /\ goneRels \subseteq Theme \cup Notes
  BY DEF OrphanedRels
<1>5. Connected'
  <2>1. \A r \in presRels : r.slide \in files'
    BY <1>1, <1>3, Kinds DEF Connected, PresRel, Item
  <2> QED BY <1>1, <1>2, <2>1 DEF Connected
<1>6. \A p \in DOMAIN rels : rels[p] \cap gone = {}
  BY <1>3 DEF Targets
<1>7. ASSUME NEW s \in Slide PROVE Shown(s)' = Shown(s)
  <2>1. s \notin OrphanedRels /\ s \notin goneRels
    BY <1>4, Kinds DEF Item
  <2>2. s \in DOMAIN relsOf <=> s \in DOMAIN relsOf'
    BY <1>2, <2>1
  <2>3. \A p \in DOMAIN relsOf' : relsOf'[p] \cap files' \cap Item = relsOf[p] \cap files \cap Item
    BY <1>1, <1>2, <1>6
  <2>4. ASSUME NEW c \in Direct(s) \cap WithRels PROVE c \in DOMAIN relsOf <=> c \in DOMAIN relsOf'
    <3>1. c \in files /\ s \in DOMAIN relsOf /\ c \in relsOf[s]
      BY <2>4 DEF Direct
    <3>2. c \in LinkedFromSlides
      BY <3>1 DEF LinkedFromSlides, Targets, Restrict
    <3>3. c \notin OrphanedRels
      BY <3>1, <3>2 DEF OrphanedRels
    <3>4. c \notin goneRels
      BY <1>4, Kinds, SlidesAssumption DEF Item
    <3> QED BY <1>2, <3>3, <3>4
  <2> QED BY <1>2, <2>2, <2>3, <2>4, ShownSame
<1>8. Listed(sldIdLst, presRels)' = Listed(sldIdLst, presRels)
  BY <1>1
<1>9. Listed(sldIdLst, presRels) \subseteq Slide
  BY ListedSlides DEF Slides
<1>10. UNCHANGED Showing
  BY <1>7, <1>8, <1>9, Stutters
<1>11. Listed(sldIdLst, presRels) \subseteq Slides' /\ Slides' \subseteq Slides
  <2>1. \A p \in gone : p \notin Slide
    BY <1>3, Kinds DEF Item
  <2>2. files' = files \ gone
    BY <1>1
  <2> HIDE DEF gone
  <2> QED BY <2>1, <2>2, ListedSlides DEF Slides
<1>12. Turn' = "cleaning"
  <2>1. pc' \in {"files", "types"}
    BY DEF RemoveOrphanedFiles, Loops
  <2> QED BY <2>1 DEF Turn
<1> QED BY <1>5, <1>10, <1>11, <1>12, Cleans
-----------------------------------------------------------------------------
(* What holds from one script to the next: while clean.py is at work every *)
(* slide is listed and nothing has been judged; when it is not, it has     *)
(* forgotten what it removed.                                              *)
Tidy ==
  /\ pc \in {"idle", "files", "types"}
  /\ pc # "idle" => Slides \subseteq Listed(sldIdLst, presRels) /\ files \cap Trash = {} /\ verdict = "none"
  /\ pc = "idle" => removed = {}
  /\ NothingLeftBehind /\ DeclaredPartsExist /\ PackedOpens

Inv ==
  /\ Connected /\ Wired /\ Tidy
  /\ suffix # ".pptx" => pc = "idle" /\ files = {} /\ sldIdLst = {} /\ overrides = {}
  /\ suffix = ".pptx" => original \in Original
-----------------------------------------------------------------------------
(* A slide that is added, with the charts and drawings of another.         *)
LEMMA AddSlideWired ==
  ASSUME Connected, Wired, NEW n, n = NextSlideNumber, NEW rels, NEW used0, NEW wrong, AddSlide(n, rels, used0, wrong),
         DOMAIN rels \subseteq DOMAIN relsOf \cup {n},
         \A p : p # n => (p \in DOMAIN rels <=> p \in DOMAIN relsOf) /\ (p \in DOMAIN relsOf => rels[p] = relsOf[p]),
         n \in DOMAIN rels \ DOMAIN relsOf => rels[n] \cap WithRels \subseteq LinkedFromSlides,
         used0 # {} => n \in DOMAIN rels
  PROVE  Wired'
<1>1. /\ n \in Slide /\ files' = files \cup {n} /\ relsOf' = rels /\ UNCHANGED original
      /\ uses' = [uses EXCEPT ![n] = used0]
  BY Zenon DEF AddSlide, Change
<1>2. n \notin files /\ n \notin DOMAIN relsOf /\ n \notin Media \cup Trash \cup WithRels
  <2>1. n \notin files
    BY <1>1, NextNumbers DEF Slides
  <2>2. n \notin Media \cup Trash \cup WithRels
    BY <1>1, Kinds, SlidesAssumption
  <2> QED BY <2>1, <2>2 DEF Wired
<1>3. files' \subseteq Part /\ DOMAIN uses' = Part /\ \A p \in Part : uses'[p] = IF p = n THEN used0 ELSE uses[p]
  BY <1>1 DEF Wired, Part
<1>4. \A t \in WithRels : t \in LinkedFromSlides' => t \in LinkedFromSlides
  <2> SUFFICES ASSUME NEW t \in WithRels, t \in LinkedFromSlides' PROVE t \in LinkedFromSlides
    OBVIOUS
  <2>1. PICK s \in DOMAIN rels \cap Slide : t \in rels[s]
    BY <1>1 DEF LinkedFromSlides, Targets, Restrict
  <2> QED BY <1>2, <2>1, LinkedIs
<1>5. DOMAIN rels \subseteq (files' \cup WithRels) \ (Media \cup Trash)
  BY <1>1, <1>2 DEF Wired
<1>6. \A p \in DOMAIN rels \ Slide : p \in DOMAIN original.relsOf /\ rels[p] = original.relsOf[p]
  BY <1>1 DEF Wired
<1>7. \A p \in files' \ (WithRels \ LinkedFromSlides') : uses'[p] # {} => p \in DOMAIN rels
  BY <1>1, <1>3, <1>4 DEF Wired
<1> QED BY <1>1, <1>3, <1>5, <1>6, <1>7 DEF Wired

(* A slide's .rels file changes, and what it refers to.                    *)
LEMMA SlideWired ==
  ASSUME Wired, NEW s \in Slide, s \in DOMAIN relsOf, NEW rels, NEW used0,
         rels \cap WithRels \subseteq relsOf[s], used0 \subseteq uses[s],
         relsOf' = [relsOf EXCEPT ![s] = rels], uses' = [uses EXCEPT ![s] = used0] \/ uses' = uses,
         UNCHANGED <<original, files>>
  PROVE  Wired'
<1>1. DOMAIN relsOf' = DOMAIN relsOf /\ \A p \in DOMAIN relsOf : relsOf'[p] = IF p = s THEN rels ELSE relsOf[p]
  OBVIOUS
<1>2. \A p \in Part : uses'[p] \subseteq uses[p]
  BY DEF Wired
<1>3. \A t \in WithRels : t \in LinkedFromSlides' => t \in LinkedFromSlides
  <2> SUFFICES ASSUME NEW t \in WithRels, t \in LinkedFromSlides' PROVE t \in LinkedFromSlides
    OBVIOUS
  <2>1. PICK q \in DOMAIN relsOf' \cap Slide : t \in relsOf'[q]
    BY DEF LinkedFromSlides, Targets, Restrict
  <2> QED BY <1>1, <2>1, LinkedIs
<1>4. \A p \in files \ (WithRels \ LinkedFromSlides') : uses'[p] # {} => p \in DOMAIN relsOf
  BY <1>2, <1>3 DEF Wired
<1>5. \A p \in DOMAIN relsOf' \ Slide : p \in DOMAIN original.relsOf /\ relsOf'[p] = original.relsOf[p]
  BY <1>1 DEF Wired
<1>6. DOMAIN uses' = Part
  BY DEF Wired
<1> QED BY <1>1, <1>4, <1>5, <1>6 DEF Wired

LEMMA AuthorWired ==
  ASSUME Connected, Wired, Author
  PROVE  Wired'
<1>1. ASSUME NEW l \in Layout, CreateSlideFromLayout(l) PROVE Wired'
  <2> DEFINE n == NextSlideNumber
             rels == [p \in DOMAIN relsOf \cup {n} |-> IF p = n THEN {l} ELSE relsOf[p]]
  <2>1. AddSlide(n, rels, {}, {})
    BY <1>1, Zenon DEF CreateSlideFromLayout
  <2>2. /\ DOMAIN rels = DOMAIN relsOf \cup {n} /\ rels[n] = {l}
        /\ \A p : p # n => (p \in DOMAIN rels <=> p \in DOMAIN relsOf) /\ (p \in DOMAIN relsOf => rels[p] = relsOf[p])
    OBVIOUS
  <2>3. {l} \cap WithRels = {}
    BY SlidesAssumption DEF Resource
  <2> HIDE DEF n, rels
  <2>4. n = NextSlideNumber
    BY DEF n
  <2>5. PICK none : none = {} /\ AddSlide(n, rels, none, none)
    BY <2>1, Zenon
  <2> QED BY <2>2, <2>3, <2>4, <2>5, AddSlideWired
<1>2. ASSUME NEW s \in Slide, DuplicateSlide(s) PROVE Wired'
  <2> DEFINE n == NextSlideNumber
             rels == IF s \in DOMAIN relsOf
                     THEN [p \in DOMAIN relsOf \cup {n} |-> IF p = n THEN CopiedRels(s) ELSE relsOf[p]]
                     ELSE relsOf
  <2>1. s \in Slides /\ AddSlide(n, rels, uses[s], faults[s])
    BY <1>2, Zenon DEF DuplicateSlide
  <2>2. /\ DOMAIN rels \subseteq DOMAIN relsOf \cup {n}
        /\ \A p : p # n => (p \in DOMAIN rels <=> p \in DOMAIN relsOf) /\ (p \in DOMAIN relsOf => rels[p] = relsOf[p])
        /\ s \in DOMAIN relsOf => n \in DOMAIN rels /\ rels[n] \subseteq relsOf[s]
        /\ s \notin DOMAIN relsOf => rels = relsOf
    BY DEF CopiedRels
  <2>3. uses[s] # {} => s \in DOMAIN relsOf
    <3>1. s \in files /\ s \notin WithRels
      BY <2>1, Kinds DEF Slides
    <3> QED BY <3>1 DEF Wired
  <2>4. s \in DOMAIN relsOf => relsOf[s] \subseteq LinkedFromSlides
    BY LinkedIs
  <2> HIDE DEF n, rels
  <2>5. n = NextSlideNumber
    BY DEF n
  <2>6. n \in DOMAIN rels \ DOMAIN relsOf => rels[n] \cap WithRels \subseteq LinkedFromSlides
    BY <2>2, <2>4
  <2> QED BY <2>1, <2>2, <2>3, <2>5, <2>6, AddSlideWired
<1>3. ASSUME NEW s \in Slide, NEW p \in Resource, NEW what, EditSlide(s, p, what) PROVE Wired'
  <2> DEFINE less == relsOf[s] \ (IF "relationship" \in what THEN {p} ELSE {})
             fewer == uses[s] \ (IF "element" \in what THEN {p} ELSE {})
  <2>1. /\ s \in DOMAIN relsOf /\ relsOf' = [relsOf EXCEPT ![s] = less] /\ uses' = [uses EXCEPT ![s] = fewer]
        /\ UNCHANGED <<original, files>>
    BY <1>3, Zenon DEF EditSlide, Change
  <2>2. less \cap WithRels \subseteq relsOf[s] /\ fewer \subseteq uses[s]
    OBVIOUS
  <2> HIDE DEF less, fewer
  <2> QED BY <2>1, <2>2, SlideWired
<1>4. ASSUME NEW s \in Slide, NEW l \in Layout, NEW too \in BOOLEAN, Relayout(s, l, too) PROVE Wired'
  <2> DEFINE other == (IF too THEN relsOf[s] ELSE relsOf[s] \ Layout) \cup {l}
  <2>1. /\ s \in DOMAIN relsOf /\ relsOf' = [relsOf EXCEPT ![s] = other]
        /\ uses' = uses /\ UNCHANGED <<original, files>>
    BY <1>4, Zenon DEF Relayout, Change
  <2>2. other \cap WithRels \subseteq relsOf[s]
    <3>1. l \notin WithRels
      BY SlidesAssumption DEF Resource
    <3> QED BY <3>1
  <2> HIDE DEF other
  <2> QED BY <2>1, <2>2, SlideWired
<1>5. ASSUME NEW p, NEW fault, PasteSldId(p) \/ DeleteSldId(p) \/ Spoil(p, fault) PROVE Wired'
  <2>1. UNCHANGED <<original, files, relsOf, uses>>
    BY <1>5, Zenon DEF PasteSldId, DeleteSldId, Spoil, Change
  <2> QED BY <2>1 DEF Wired, LinkedFromSlides
<1> QED BY <1>1, <1>2, <1>3, <1>4, <1>5 DEF Author

LEMMA RemoveSlidesWired ==
  ASSUME Wired, RemoveOrphanedSlides
  PROVE  Wired'
<1> DEFINE gone == Slides \ Listed(sldIdLst, presRels)
<1>1. files' = files \ (gone \cup Trash) /\ relsOf' = Without(relsOf, gone) /\ UNCHANGED <<original, uses>>
  BY DEF RemoveOrphanedSlides
<1>2. gone \subseteq Slide
  BY DEF Slides
<1> HIDE DEF gone
<1>3. DOMAIN relsOf' = DOMAIN relsOf \ gone /\ \A p \in DOMAIN relsOf' : relsOf'[p] = relsOf[p]
  BY <1>1 DEF Without, Restrict
<1>4. \A t : t \in LinkedFromSlides' => t \in LinkedFromSlides
  <2> SUFFICES ASSUME NEW t, t \in LinkedFromSlides' PROVE t \in LinkedFromSlides
    OBVIOUS
  <2>1. PICK q \in DOMAIN relsOf' \cap Slide : t \in relsOf'[q]
    BY DEF LinkedFromSlides, Targets, Restrict
  <2> QED BY <1>3, <2>1, LinkedIs
<1>5. DOMAIN relsOf' \subseteq (files' \cup WithRels) \ (Media \cup Trash)
  BY <1>1, <1>3 DEF Wired
<1>6. \A p \in files' \ (WithRels \ LinkedFromSlides') : uses'[p] # {} => p \in DOMAIN relsOf'
  BY <1>1, <1>3, <1>4 DEF Wired
<1>7. files' \subseteq Part /\ DOMAIN uses' = Part
  BY <1>1 DEF Wired
<1>8. \A p \in DOMAIN relsOf' \ Slide : p \in DOMAIN original'.relsOf /\ relsOf'[p] = original'.relsOf[p]
  BY <1>1, <1>3 DEF Wired
<1> QED BY <1>5, <1>6, <1>7, <1>8 DEF Wired

LEMMA RemoveFilesWired ==
  ASSUME Wired, RemoveOrphanedFiles
  PROVE  Wired'
<1> DEFINE rels == Without(relsOf, OrphanedRels)
           gone == OrphanedFiles(rels)
           goneRels == {p \in DOMAIN rels : (p \in Theme /\ p \in gone) \/ (p \in Notes /\ p \notin files \ gone)}
<1>1. files' = files \ gone /\ relsOf' = Without(rels, goneRels) /\ UNCHANGED <<original, uses>>
  BY DEF RemoveOrphanedFiles
<1>2. /\ DOMAIN rels = DOMAIN relsOf \ OrphanedRels /\ \A p \in DOMAIN rels : rels[p] = relsOf[p]
      /\ DOMAIN relsOf' = DOMAIN rels \ goneRels /\ \A p \in DOMAIN relsOf' : relsOf'[p] = rels[p]
  BY <1>1 DEF Without, Restrict
<1>3. /\ gone \subseteq Resource \cup Theme \cup Notes
      /\ \A p \in gone \cap DOMAIN rels : p \in Theme => p \in goneRels
      /\ \A p \in gone \cap DOMAIN rels : p \in Notes => p \in goneRels
      /\ \A p \in goneRels : p \in Theme \cup Notes /\ (p \in gone \/ p \notin files)
  BY DEF OrphanedFiles, Swept
<1>4. \A p : p \in OrphanedRels <=> p \in DOMAIN relsOf \cap WithRels /\ (p \notin files \/ p \notin LinkedFromSlides)
  BY DEF OrphanedRels
<1> HIDE DEF rels, gone, goneRels
<1>5. \A p \in Slide : p \notin OrphanedRels /\ p \notin goneRels
  BY <1>3, <1>4, Kinds DEF Item
<1>6. \A t : t \in LinkedFromSlides' => t \in LinkedFromSlides
  <2> SUFFICES ASSUME NEW t, t \in LinkedFromSlides' PROVE t \in LinkedFromSlides
    OBVIOUS
  <2>1. PICK q \in DOMAIN relsOf' \cap Slide : t \in relsOf'[q]
    BY DEF LinkedFromSlides, Targets, Restrict
  <2> QED BY <1>2, <2>1, LinkedIs
<1>7. DOMAIN relsOf' \subseteq (files' \cup WithRels) \ (Media \cup Trash)
  <2> SUFFICES ASSUME NEW p \in DOMAIN relsOf', p \notin WithRels PROVE p \in files' /\ p \notin Media \cup Trash
    BY <1>2 DEF Wired
  <2>1. p \in DOMAIN relsOf /\ p \in DOMAIN rels /\ p \notin goneRels
    BY <1>2
  <2>2. p \in files /\ p \notin Media \cup Trash
    BY <2>1 DEF Wired
  <2>3. p \notin Theme /\ p \notin Notes /\ p \notin Resource => p \notin gone
    BY <1>3
  <2>4. p \notin Resource
    BY <2>2 DEF Resource
  <2> QED BY <1>1, <1>3, <2>1, <2>2, <2>3, <2>4
<1>8. \A p \in files' \ (WithRels \ LinkedFromSlides') : uses'[p] # {} => p \in DOMAIN relsOf'
  <2> SUFFICES ASSUME NEW p \in files', p \notin WithRels \/ p \in LinkedFromSlides', uses[p] # {}
               PROVE  p \in DOMAIN relsOf'
    BY <1>1
  <2>1. p \in files /\ p \notin gone /\ (p \notin WithRels \/ p \in LinkedFromSlides)
    BY <1>1, <1>6
  <2>2. p \in DOMAIN relsOf
    BY <2>1 DEF Wired
  <2> QED BY <1>2, <1>3, <1>4, <2>1, <2>2
<1>9. files' \subseteq Part /\ DOMAIN uses' = Part
  BY <1>1 DEF Wired
<1>10. \A p \in DOMAIN relsOf' \ Slide : p \in DOMAIN original'.relsOf /\ relsOf'[p] = original'.relsOf[p]
  BY <1>1, <1>2 DEF Wired
<1> QED BY <1>7, <1>8, <1>9, <1>10 DEF Wired
-----------------------------------------------------------------------------
(* When a turn removes nothing, all that is left is reached.  What is left *)
(* has a referrer that is left; the referrer is a slide or other root, or  *)
(* a chart or drawing on a slide, or notes or a theme, whose own referrers *)
(* are these.                                                              *)
Thorough ==
  /\ OrphanedRels = {} /\ OrphanedFiles(relsOf) = {}
  /\ Slides \subseteq Listed(sldIdLst, presRels) /\ files \cap Trash = {}

AllReached ==
  \A kept \in SUBSET files :
    /\ files \cap (Listed(sldIdLst, presRels) \cup Layout \cup Unswept) \subseteq kept
    /\ \A p \in kept \cap DOMAIN relsOf : relsOf[p] \cap files \subseteq kept
    => kept = files

LEMMA ThoroughReaches == Connected /\ Wired /\ original \in Original /\ Thorough => AllReached
<1> SUFFICES ASSUME Connected, Wired, original \in Original, Thorough, NEW kept \in SUBSET files,
                    files \cap (Listed(sldIdLst, presRels) \cup Layout \cup Unswept) \subseteq kept,
                    \A p \in kept \cap DOMAIN relsOf : relsOf[p] \cap files \subseteq kept
             PROVE  kept = files
  BY DEF AllReached
<1>1. \A p \in DOMAIN relsOf \ Slide :
        relsOf[p] \cap Notes = {} /\ (p \in Theme => relsOf[p] \subseteq Media)
  <2>1. \A p \in DOMAIN relsOf \ Slide : p \in DOMAIN original.relsOf /\ relsOf[p] = original.relsOf[p]
    BY DEF Wired
  <2>2. /\ \A p \in DOMAIN original.relsOf \ Slide : original.relsOf[p] \cap Notes = {}
        /\ \A p \in DOMAIN original.relsOf \cap Theme : original.relsOf[p] \subseteq Media
    BY OriginalAssumption
  <2> QED BY <2>1, <2>2
<1>2. \A p \in files \cap (Slide \cup Layout \cup Unswept) : p \in kept
  BY DEF Thorough, Slides
<1>3. \A p \in files \cap (Resource \cup Theme \cup Notes) : \E q \in DOMAIN relsOf : p \in relsOf[q]
  <2> SUFFICES ASSUME NEW p \in files \cap (Resource \cup Theme \cup Notes)
               PROVE  \E q \in DOMAIN relsOf : p \in relsOf[q]
    OBVIOUS
  <2>1. p \in Referenced(relsOf)
    BY DEF Thorough, OrphanedFiles, Swept
  <2>2. p \notin Slide /\ p \notin Layout
    BY Kinds, SlidesAssumption DEF Item
  <2>3. p \in Targets(relsOf)
    BY <2>1, <2>2 DEF Referenced, Connected, PresRel
  <2> QED BY <2>3 DEF Targets
<1>4. \A p \in DOMAIN relsOf \cap WithRels : p \in kept
  <2> SUFFICES ASSUME NEW p \in DOMAIN relsOf \cap WithRels PROVE p \in kept
    OBVIOUS
  <2>1. p \in files /\ p \in LinkedFromSlides
    BY DEF Thorough, OrphanedRels
  <2>2. PICK s \in DOMAIN relsOf \cap Slide : p \in relsOf[s]
    BY <2>1, LinkedIs
  <2>3. s \in files
    BY <2>2, Kinds DEF Wired
  <2> QED BY <1>2, <2>1, <2>2, <2>3
<1>5. \A p \in DOMAIN relsOf : p \in files
  BY <1>4 DEF Wired
<1>6. \A p \in files \cap Notes : p \in kept
  <2> SUFFICES ASSUME NEW p \in files \cap Notes PROVE p \in kept
    OBVIOUS
  <2>1. PICK q \in DOMAIN relsOf : p \in relsOf[q]
    BY <1>3
  <2>2. q \in Slide /\ q \in files
    BY <1>1, <1>5, <2>1
  <2> QED BY <1>2, <2>1, <2>2
<1>7. \A p \in DOMAIN relsOf \ Theme : p \in kept
  <2> SUFFICES ASSUME NEW p \in DOMAIN relsOf \ Theme, p \notin WithRels PROVE p \in kept
    BY <1>4
  <2>1. p \in files /\ p \notin Media /\ p \notin Trash /\ p \in Part
    BY <1>5 DEF Wired
  <2> QED BY <1>2, <1>6, <2>1 DEF Part, Resource
<1>8. \A p \in files \cap Theme : p \in kept
  <2> SUFFICES ASSUME NEW p \in files \cap Theme PROVE p \in kept
    OBVIOUS
  <2>1. PICK q \in DOMAIN relsOf : p \in relsOf[q]
    BY <1>3
  <2>2. p \notin Media
    BY SlidesAssumption DEF Resource
  <2>3. q \notin Theme
    BY <1>1, <2>1, <2>2, Kinds DEF Item
  <2> QED BY <1>7, <2>1, <2>3
<1>9. \A p \in files \cap Resource : p \in kept
  <2> SUFFICES ASSUME NEW p \in files \cap Resource PROVE p \in kept
    OBVIOUS
  <2>1. PICK q \in DOMAIN relsOf : p \in relsOf[q]
    BY <1>3
  <2> QED BY <1>5, <1>7, <1>8, <2>1
<1>10. files \subseteq Part /\ files \cap Trash = {}
  BY DEF Wired, Thorough
<1>11. files \subseteq kept
  BY <1>2, <1>6, <1>8, <1>9, <1>10 DEF Part
<1> QED BY <1>11
-----------------------------------------------------------------------------

LEMMA ChangeTidy ==
  ASSUME Tidy, NEW cost, NEW lapse, Change(cost, lapse),
         overrides' \subseteq overrides \cup files', files \subseteq files'
  PROVE  Tidy'
<1>1. /\ pc = "idle" /\ UNCHANGED <<pc, removed>> /\ verdict' = "none" /\ lapses \subseteq lapses'
  BY DEF Change, Edited
<1>2. DeclaredPartsExist'
  BY <1>1 DEF Tidy, DeclaredPartsExist
<1>3. NothingLeftBehind'
  BY <1>1 DEF NothingLeftBehind
<1>4. PackedOpens'
  BY <1>1 DEF PackedOpens
<1> QED BY <1>1, <1>2, <1>3, <1>4 DEF Tidy

LEMMA AuthorSteps ==
  ASSUME Connected, Tidy, Author
  PROVE  Connected' /\ Tidy' /\ AsDeck!Next
<1>1. ASSUME NEW l \in Layout, CreateSlideFromLayout(l)
      PROVE  Connected' /\ Tidy' /\ AsDeck!Next
  <2>1. \E n, lapse : /\ Change(1, lapse) /\ files' = files \cup {n} /\ overrides' = overrides \cup {n}
    BY <1>1, Zenon DEF CreateSlideFromLayout, AddSlide, AddToContentTypes
  <2>2. Tidy'
    BY <2>1, ChangeTidy
  <2> QED BY <1>1, <2>2, CreateSteps
<1>2. ASSUME NEW s \in Slide, DuplicateSlide(s)
      PROVE  Connected' /\ Tidy' /\ AsDeck!Next
  <2>1. \E n, lapse : /\ Change(1, lapse) /\ files' = files \cup {n} /\ overrides' = overrides \cup {n}
    BY <1>2, Zenon DEF DuplicateSlide, AddSlide, AddToContentTypes
  <2>2. Tidy'
    BY <2>1, ChangeTidy
  <2> QED BY <1>2, <2>2, DuplicateSteps
<1>3. ASSUME NEW e, PasteSldId(e) \/ (e \in sldIdLst /\ DeleteSldId(e))
      PROVE  Connected' /\ Tidy' /\ AsDeck!Next
  <2>1. Tidy'
    <3>1. \E cost, lapse : Change(cost, lapse) /\ UNCHANGED <<files, overrides>>
      BY <1>3, Zenon DEF PasteSldId, DeleteSldId
    <3> QED BY <3>1, ChangeTidy
  <2>2. UNCHANGED <<files, relsOf, presRels>>
        /\ (sldIdLst' = sldIdLst \cup {e} \/ (sldIdLst' = sldIdLst \ {e} /\ e \in sldIdLst))
    BY <1>3, Zenon DEF PasteSldId, DeleteSldId
  <2>3. Edits
    BY <1>3, ChangeEdits, Zenon DEF PasteSldId, DeleteSldId
  <2> QED BY <2>1, <2>2, <2>3, ListSteps
<1>4. ASSUME NEW s \in Slide, NEW p \in Resource, NEW what, EditSlide(s, p, what)
      PROVE  Connected' /\ Tidy' /\ AsDeck!Next
  <2>1. Tidy'
    <3>1. \E lapse : Change(1, lapse) /\ UNCHANGED <<files, overrides>>
      BY <1>4, Zenon DEF EditSlide
    <3> QED BY <3>1, ChangeTidy
  <2> QED BY <1>4, <2>1, EditSteps
<1>5. ASSUME NEW s \in Slide, NEW l \in Layout, NEW too \in BOOLEAN, Relayout(s, l, too)
      PROVE  Connected' /\ Tidy' /\ AsDeck!Next
  <2>1. Tidy'
    <3>1. \E lapse : Change(1, lapse) /\ UNCHANGED <<files, overrides>>
      BY <1>5, Zenon DEF Relayout
    <3> QED BY <3>1, ChangeTidy
  <2> QED BY <1>5, <2>1, RelayoutSteps
<1>6. ASSUME NEW p, NEW fault, Spoil(p, fault)
      PROVE  Connected' /\ Tidy' /\ AsDeck!Next
  <2>1. Tidy'
    <3>1. \E lapse : Change(1, lapse) /\ UNCHANGED <<files, overrides>>
      BY <1>6, Zenon DEF Spoil
    <3> QED BY <3>1, ChangeTidy
  <2>2. UNCHANGED <<files, relsOf, presRels, sldIdLst>>
    BY <1>6 DEF Spoil
  <2>3. Connected' /\ UNCHANGED Showing /\ UNCHANGED Slides
    BY <2>2 DEF Connected, Showing, Shown, Direct, Slides
  <2>4. Edits
    BY <1>6, ChangeEdits, Zenon DEF Spoil
  <2> QED BY <2>1, <2>3, <2>4, Touches
<1> QED BY <1>1, <1>2, <1>3, <1>4, <1>5, <1>6 DEF Author

LEMMA RemoveSlidesTidy ==
  ASSUME Connected, Tidy, RemoveOrphanedSlides
  PROVE  Tidy'
<1>1. /\ pc = "idle" /\ pc' = "files" /\ verdict' = "none" /\ UNCHANGED overrides /\ lapses \subseteq lapses'
      /\ files' = files \ ((Slides \ Listed(sldIdLst, presRels)) \cup Trash)
      /\ removed' = (Slides \ Listed(sldIdLst, presRels)) \cup (files \cap Trash)
  BY DEF RemoveOrphanedSlides
<1>2. Listed(sldIdLst, presRels)' = Listed(sldIdLst, presRels)
  BY RemoveSlidesSteps
<1>3. Slides' \subseteq Listed(sldIdLst, presRels)' /\ files' \cap Trash = {}
  BY <1>1, <1>2 DEF Slides
<1>4. DeclaredPartsExist'
  BY <1>1 DEF Tidy, DeclaredPartsExist
<1>5. NothingLeftBehind' /\ PackedOpens'
  BY <1>1 DEF NothingLeftBehind, PackedOpens
<1> QED BY <1>1, <1>3, <1>4, <1>5 DEF Tidy

(* The turn that finds nothing to remove changes nothing.                  *)
LEMMA LastTurn ==
  ASSUME Connected, RemoveOrphanedFiles, pc' = "types"
  PROVE  OrphanedRels' = {} /\ OrphanedFiles(relsOf)' = {}
<1> DEFINE rels == Without(relsOf, OrphanedRels)
           gone == OrphanedFiles(rels)
           goneRels == {p \in DOMAIN rels : (p \in Theme /\ p \in gone) \/ (p \in Notes /\ p \notin files \ gone)}
<1>1. /\ pc' = (IF Loops(OrphanedRels \cup gone \cup goneRels) THEN "files" ELSE "types")
      /\ files' = files \ gone /\ relsOf' = Without(rels, goneRels)
      /\ UNCHANGED presRels
  BY DEF RemoveOrphanedFiles
<1>2. OrphanedRels = {} /\ gone = {} /\ goneRels = {}
  BY <1>1 DEF Loops
<1>3. rels = relsOf
  BY <1>2 DEF Without, Restrict, Connected
<1>4. Without(rels, goneRels) = rels
  BY <1>2, <1>3 DEF Without, Restrict, Connected
<1> HIDE DEF rels, goneRels
<1>5. files' = files /\ relsOf' = relsOf
  BY <1>1, <1>2, <1>3, <1>4
<1>6. OrphanedRels' = OrphanedRels
  BY <1>5 DEF OrphanedRels, LinkedFromSlides
<1>7. OrphanedFiles(relsOf)' = OrphanedFiles(relsOf)
  BY <1>1, <1>5 DEF OrphanedFiles, Swept, Referenced
<1> QED BY <1>2, <1>3, <1>6, <1>7

LEMMA RemoveFilesTidy ==
  ASSUME Connected, Wired, Tidy, original \in Original, RemoveOrphanedFiles
  PROVE  Tidy'
<1> DEFINE rels == Without(relsOf, OrphanedRels)
           gone == OrphanedFiles(rels)
           goneRels == {p \in DOMAIN rels : (p \in Theme /\ p \in gone) \/ (p \in Notes /\ p \notin files \ gone)}
<1>1. /\ pc = "files" /\ pc' = (IF Loops(OrphanedRels \cup gone \cup goneRels) THEN "files" ELSE "types")
      /\ files' = files \ gone /\ relsOf' = Without(rels, goneRels) /\ removed' = removed \cup gone
      /\ UNCHANGED <<presRels, sldIdLst, overrides, verdict, lapses>>
  BY DEF RemoveOrphanedFiles, editingVars
<1>2. verdict' = "none" /\ pc' \in {"files", "types"}
  BY <1>1 DEF Tidy
<1>3. Slides' \subseteq Listed(sldIdLst, presRels)' /\ files' \cap Trash = {}
  BY <1>1 DEF Tidy, Slides
<1>4. DeclaredPartsExist'
  BY <1>1 DEF Tidy, DeclaredPartsExist
<1>5. PackedOpens'
  BY <1>2 DEF PackedOpens
<1>6. NothingLeftBehind'
  <2> SUFFICES ASSUME pc' = "types" PROVE AllReached'
    BY DEF NothingLeftBehind, AllReached
  <2>1. OrphanedRels' = {} /\ OrphanedFiles(relsOf)' = {}
    BY LastTurn
  <2>2. Thorough'
    BY <1>3, <2>1 DEF Thorough
  <2>3. Connected' /\ Wired' /\ (original \in Original)'
    <3>1. original' = original
      BY DEF RemoveOrphanedFiles
    <3> QED BY <3>1, RemoveFilesSteps, RemoveFilesWired
  <2> QED BY <2>2, <2>3, ThoroughReaches, PTL
<1> QED BY <1>2, <1>3, <1>4, <1>5, <1>6 DEF Tidy

LEMMA CleanEndsTidy ==
  ASSUME Tidy, UpdateContentTypes \/ CleanFails
  PROVE  Tidy' /\ UNCHANGED <<original, files, relsOf, presRels, sldIdLst, uses>>
<1>1. /\ pc # "idle" /\ pc' = "idle" /\ removed' = {}
      /\ UNCHANGED <<original, files, relsOf, presRels, sldIdLst, uses, verdict>>
  BY DEF UpdateContentTypes, CleanFails
<1>2. verdict' = "none"
  BY <1>1 DEF Tidy
<1>3. DeclaredPartsExist'
  <2>1. CASE UpdateContentTypes
    <3>1. overrides' = overrides \ removed /\ ("interrupted" \in lapses => "interrupted" \in lapses')
      BY <2>1 DEF UpdateContentTypes, Undeclared
    <3> QED BY <1>1, <3>1 DEF Tidy, DeclaredPartsExist
  <2>2. CASE CleanFails
    BY <2>2 DEF CleanFails, DeclaredPartsExist
  <2> QED BY <2>1, <2>2
<1>4. NothingLeftBehind' /\ PackedOpens'
  BY <1>1, <1>2 DEF NothingLeftBehind, PackedOpens
<1> QED BY <1>1, <1>3, <1>4 DEF Tidy

(* A presentation that is found valid opens.                               *)
LEMMA PackTidy ==
  ASSUME Connected, Wired, Tidy, PackPresentation
  PROVE  Tidy' /\ UNCHANGED <<original, files, relsOf, presRels, sldIdLst, uses>>
<1>1. pc = "idle" /\ UNCHANGED slidesVars /\ UNCHANGED lapses /\ (verdict' = "packed" => PresentationValid)
  BY DEF PackPresentation, Judged
<1>2. UNCHANGED <<original, files, relsOf, presRels, sldIdLst, overrides, uses, pc, removed>>
  BY <1>1 DEF slidesVars
<1>3. PackedOpens'
  <2> SUFFICES ASSUME PresentationValid
               PROVE  /\ \A e \in sldIdLst :
                           /\ \A f \in sldIdLst : e.id = f.id => e = f
                           /\ \E r \in presRels : r.rid = e.rid /\ r.slide \in files
                      /\ \A p \in files \ (WithRels \ LinkedFromSlides), q \in Part \ Diagram :
                           q \in uses[p] => p \in DOMAIN relsOf /\ q \in relsOf[p] \cap files
    BY <1>1, <1>2 DEF PackedOpens, LinkedFromSlides
  <2>1. UniqueSlideIds /\ Targets(relsOf) \subseteq files /\ RelationshipIds
    BY DEF PresentationValid, FileReferences
  <2>2. ASSUME NEW p \in files \ (WithRels \ LinkedFromSlides), NEW q \in Part \ Diagram, q \in uses[p]
        PROVE  p \in DOMAIN relsOf /\ q \in relsOf[p] \cap files
    <3>1. p \in DOMAIN relsOf
      BY <2>2 DEF Wired
    <3> QED BY <2>1, <2>2, <3>1 DEF RelationshipIds, Targets
  <2> QED BY <2>1, <2>2 DEF UniqueSlideIds, RelationshipIds, Connected
<1>4. NothingLeftBehind' /\ DeclaredPartsExist'
  BY <1>1, <1>2 DEF NothingLeftBehind, DeclaredPartsExist, Tidy
<1> QED BY <1>1, <1>2, <1>3, <1>4 DEF Tidy
-----------------------------------------------------------------------------
LEMMA InitInv == Init => Inv /\ AsDeck!Init
<1> SUFFICES ASSUME Init PROVE Inv /\ AsDeck!Init
  OBVIOUS
<1>1. /\ relsOf = original.relsOf /\ presRels = original.presRels /\ files = original.files
      /\ sldIdLst = original.sldIdLst /\ overrides = original.files \ (Media \cup Trash)
      /\ uses = original.uses /\ removed = {} /\ pc = "idle" /\ verdict = "none"
  BY DEF Init, SlidesInit
<1>2. IF suffix = ".pptx" THEN original \in Original ELSE original = NoSlides
  BY DEF Init, SlidesInit
<1>3. Connected
  <2>1. CASE original \in Original
    <3>1. /\ relsOf \in [DOMAIN relsOf -> SUBSET Part] /\ presRels \subseteq PresRel /\ {r.slide : r \in presRels} \subseteq files
          /\ \A r, q \in presRels : r.rid = q.rid => r = q
          /\ presRels # {} => \E r \in presRels : \A q \in presRels : q.rid <= r.rid
      BY <1>1, <2>1, SlidesAssumption
    <3>2. \E b \in Nat : \A r \in presRels : r.rid <= b
      BY <3>1 DEF PresRel
    <3> QED BY <3>1, <3>2 DEF Connected
  <2>2. CASE original = NoSlides
    <3>1. relsOf = [p \in {} |-> {}] /\ presRels = {}
      BY <1>1, <2>2 DEF NoSlides
    <3> QED BY <3>1 DEF Connected
  <2> QED BY <1>2, <2>1, <2>2
<1>4. Wired
  <2>1. CASE original \in Original
    <3>1. files \subseteq Part /\ uses \in [Part -> SUBSET Part]
      BY <1>1, <2>1, SlidesAssumption
    <3>2. DOMAIN relsOf \subseteq files \ (Media \cup Trash) /\ \A p \in Part : uses[p] # {} => p \in DOMAIN relsOf
      BY <1>1, <2>1, OriginalAssumption
    <3> QED BY <1>1, <3>1, <3>2 DEF Wired
  <2>2. CASE original = NoSlides
    BY <1>1, <2>2 DEF NoSlides, Wired
  <2> QED BY <1>2, <2>1, <2>2
<1>5. Tidy
  BY <1>1 DEF Tidy, NothingLeftBehind, DeclaredPartsExist, PackedOpens
<1>6. suffix # ".pptx" => files = {} /\ sldIdLst = {} /\ overrides = {}
  BY <1>1, <1>2 DEF NoSlides
<1>7. AsDeck!Init
  <2>1. Listed(sldIdLst, presRels) \in SUBSET Slides /\ Slides \in SUBSET Slide
    BY <1>3, ListedSlides DEF Slides
  <2>2. Turn = "edited"
    BY <1>1 DEF Turn
  <2> QED BY <2>1, <2>2, ShowingTyped DEF AsDeck!Init, ShowsItems, Showing
<1> QED BY <1>1, <1>2, <1>3, <1>4, <1>5, <1>6, <1>7 DEF Inv

Seen == <<Showing, Slides, Turn>>

LEMMA Still ==
  ASSUME UNCHANGED <<original, files, relsOf, presRels, sldIdLst, uses>>
  PROVE  /\ UNCHANGED Showing /\ UNCHANGED Slides /\ UNCHANGED Listed(sldIdLst, presRels)
         /\ Connected => Connected'
         /\ Wired => Wired'
<1>1. UNCHANGED Slides /\ UNCHANGED Listed(sldIdLst, presRels) /\ UNCHANGED LinkedFromSlides
  BY DEF Slides, LinkedFromSlides
<1>2. UNCHANGED Showing
  <2>1. \A s : Shown(s)' = Shown(s)
    BY DEF Shown, Direct
  <2> QED BY <2>1, Stutters
<1>3. Connected => Connected'
  BY DEF Connected
<1>4. Wired => Wired'
  BY <1>1 DEF Wired
<1> QED BY <1>1, <1>2, <1>3, <1>4

(* Each step of a presentation is one of its deck.                         *)
LEMMA PresentationSteps ==
  ASSUME Connected, Wired, Tidy, original \in Original, SlidesNext
  PROVE  Connected' /\ Wired' /\ Tidy' /\ AsDeck!Next /\ UNCHANGED original
<1>1. CASE Author
  <2>1. UNCHANGED original
    BY <1>1, Zenon DEF Author, CreateSlideFromLayout, DuplicateSlide, AddSlide, PasteSldId, DeleteSldId,
                       EditSlide, Relayout, Spoil, Change
  <2> QED BY <1>1, <2>1, AuthorSteps, AuthorWired
<1>2. CASE RemoveOrphanedSlides
  <2>1. UNCHANGED original
    BY <1>2 DEF RemoveOrphanedSlides
  <2> QED BY <1>2, <2>1, RemoveSlidesSteps, RemoveSlidesTidy, RemoveSlidesWired
<1>3. CASE RemoveOrphanedFiles
  <2>1. UNCHANGED original
    BY <1>3 DEF RemoveOrphanedFiles
  <2> QED BY <1>3, <2>1, RemoveFilesSteps, RemoveFilesTidy, RemoveFilesWired
<1>4. CASE UpdateContentTypes \/ CleanFails
  <2>1. Tidy' /\ UNCHANGED <<original, files, relsOf, presRels, sldIdLst, uses>>
    BY <1>4, CleanEndsTidy
  <2>2. Connected' /\ Wired' /\ UNCHANGED Showing /\ UNCHANGED Slides /\ UNCHANGED Listed(sldIdLst, presRels)
    BY <2>1, Still
  <2>3. pc # "idle" /\ pc' = "idle" /\ UNCHANGED verdict
    BY <1>4 DEF UpdateContentTypes, CleanFails
  <2>4. Turn = "cleaning" /\ Turn' = "edited"
    BY <2>3 DEF Turn, Tidy
  <2>5. Listed(sldIdLst, presRels)' \subseteq Slides' /\ Slides' \subseteq Slides
    BY <2>2, ListedSlides
  <2> QED BY <2>1, <2>2, <2>4, <2>5, Cleans
<1>5. CASE PackPresentation
  <2>1. Tidy' /\ UNCHANGED <<original, files, relsOf, presRels, sldIdLst, uses>>
    BY <1>5, PackTidy
  <2>2. Connected' /\ Wired' /\ UNCHANGED Showing /\ UNCHANGED Slides
    BY <2>1, Still
  <2>3. pc = "idle" /\ pc' = "idle" /\ verdict' # "none"
    BY <1>5 DEF PackPresentation, Judged, slidesVars
  <2>4. Turn # "cleaning" /\ Turn' = "judged"
    BY <2>3 DEF Turn
  <2> QED BY <2>1, <2>2, <2>4, Judges
<1> QED BY <1>1, <1>2, <1>3, <1>4, <1>5 DEF SlidesNext, Clean

LEMMA NextInv == Inv /\ [Next]_vars => Inv' /\ (AsDeck!Next \/ UNCHANGED Seen)
<1> SUFFICES ASSUME Inv, [Next]_vars
             PROVE  Inv' /\ (AsDeck!Next \/ UNCHANGED Seen)
  OBVIOUS
<1>1. CASE Presentation
  <2>1. suffix = ".pptx" /\ UNCHANGED suffix /\ SlidesNext
    BY <1>1 DEF Presentation
  <2>2. Connected /\ Wired /\ Tidy /\ original \in Original
    BY <2>1 DEF Inv
  <2>3. Connected' /\ Wired' /\ Tidy' /\ AsDeck!Next /\ UNCHANGED original
    BY <2>1, <2>2, PresentationSteps
  <2> QED BY <2>1, <2>2, <2>3 DEF Inv
<1>2. CASE UNCHANGED <<suffix, slidesVars>> /\ suffix # ".pptx"
  <2>1. UNCHANGED <<original, files, relsOf, presRels, sldIdLst, overrides, uses, pc, removed, suffix>>
    BY <1>2 DEF slidesVars
  <2>2. Connected' /\ Wired' /\ UNCHANGED <<Showing, Slides>>
    BY <2>1, Still DEF Inv
  <2>3. pc = "idle" /\ files = {} /\ sldIdLst = {} /\ overrides = {} /\ removed = {}
    BY <1>2 DEF Inv, Tidy
  <2>4. PackedOpens' /\ DeclaredPartsExist' /\ NothingLeftBehind'
    BY <2>1, <2>3 DEF PackedOpens, DeclaredPartsExist, NothingLeftBehind
  <2>5. Tidy'
    BY <2>1, <2>3, <2>4 DEF Tidy
  <2>6. AsDeck!Next
    <3>1. CASE verdict' = "none"
      <4>1. Edits
        BY <2>1, <2>3, <3>1 DEF Edits, Turn
      <4> QED BY <2>2, <4>1, Touches
    <3>2. CASE verdict' # "none"
      <4>1. Turn # "cleaning" /\ Turn' = "judged"
        BY <2>1, <2>3, <3>2 DEF Turn
      <4> QED BY <2>2, <4>1, Judges
    <3> QED BY <3>1, <3>2
  <2> QED BY <1>2, <2>1, <2>2, <2>3, <2>5, <2>6 DEF Inv
<1>3. CASE UNCHANGED vars
  <2>1. UNCHANGED <<original, files, relsOf, presRels, sldIdLst, overrides, uses, pc, removed, suffix, verdict, lapses>>
    BY <1>3 DEF vars, slidesVars, editingVars
  <2>2. Connected' /\ Wired' /\ UNCHANGED Seen
    <3>1. UNCHANGED Turn
      BY <2>1 DEF Turn
    <3> QED BY <2>1, <3>1, Still DEF Inv, Seen
  <2>3. NothingLeftBehind' /\ DeclaredPartsExist' /\ PackedOpens'
    <3>1. NothingLeftBehind' = NothingLeftBehind
      BY <2>1 DEF NothingLeftBehind
    <3>2. PackedOpens' = PackedOpens
      BY <2>1 DEF PackedOpens, LinkedFromSlides
    <3> QED BY <2>1, <3>1, <3>2 DEF Inv, Tidy, DeclaredPartsExist
  <2>4. Tidy'
    BY <2>1, <2>3 DEF Inv, Tidy, Slides
  <2> QED BY <2>1, <2>2, <2>4 DEF Inv
<1> QED BY <1>1, <1>2, <1>3 DEF Next, TextDocument, Spreadsheet, PackWorkbook

(* The scripts for presentations implement Deck: whatever is added,        *)
(* edited and cleaned in whatever order, and wherever clean.py is          *)
(* interrupted, the slides of the deck and what they show change only as   *)
(* the author says, and never in a turn of clean.py or pack.py.            *)
THEOREM ScriptsKeepDeck == Spec => DeckSpec
<1>1. Inv /\ [Next]_vars => [AsDeck!Next]_Seen
  BY NextInv
<1>2. Inv /\ [Next]_vars => Inv'
  BY NextInv
<1>3. Spec => AsDeck!Init /\ [][[AsDeck!Next]_Seen]_Seen
  BY <1>1, <1>2, InitInv, PTL DEF Spec
<1> QED BY <1>3, PTL DEF DeckSpec, AsDeck!Spec, Seen, Showing

(* No part is declared that is not there, but after an interruption.       *)
THEOREM NoDeadDeclarations == Spec => []DeclaredPartsExist
<1>1. Inv => DeclaredPartsExist
  BY DEF Inv, Tidy
<1> QED BY <1>1, InitInv, NextInv, PTL DEF Spec

(* However many turns it takes, cleaning leaves no orphan.                 *)
THEOREM CleanIsThorough == Spec => []NothingLeftBehind
<1>1. Inv => NothingLeftBehind
  BY DEF Inv, Tidy
<1> QED BY <1>1, InitInv, NextInv, PTL DEF Spec

(* What pack.py lets through has its slides and what they use.             *)
THEOREM PackedDeckOpens == Spec => []PackedOpens
<1>1. Inv => PackedOpens
  BY DEF Inv, Tidy
<1> QED BY <1>1, InitInv, NextInv, PTL DEF Spec
-----------------------------------------------------------------------------
(* The types of a presentation, and the last number in its slide list.     *)
SlidesTyped ==
  /\ SlidesTypeOK /\ verdict \in Verdict
  /\ \E b \in Nat : \A e \in sldIdLst : e.id <= b

LEMMA NextSlideIdTyped ==
  ASSUME SlidesTyped
  PROVE  NextSlideId \in Nat
<1> DEFINE numbers == {e.id : e \in sldIdLst} \cup {255}
<1>1. PICK b \in Nat : \A e \in sldIdLst : e.id <= b
  BY DEF SlidesTyped
<1>2. numbers \in SUBSET Nat /\ numbers # {} /\ \A x \in numbers : x <= b + 255
  BY <1>1 DEF SlidesTyped, SlidesTypeOK, SldId
<1>3. Max(numbers) \in Nat
  <2> HIDE DEF numbers
  <2>1. b + 255 \in Nat
    BY <1>1
  <2> QED BY <1>2, <2>1, BoundedHasMax
<1>4. NextSlideId = Max(numbers) + 1
  BY DEF NextSlideId
<1> HIDE DEF numbers
<1> QED BY <1>3, <1>4

LEMMA NextSlideIdAbove ==
  ASSUME SlidesTyped
  PROVE  \A e \in sldIdLst : e.id # NextSlideId
<1> DEFINE numbers == {e.id : e \in sldIdLst} \cup {255}
<1>1. PICK b \in Nat : \A e \in sldIdLst : e.id <= b
  BY DEF SlidesTyped
<1>2. numbers \in SUBSET Nat /\ numbers # {} /\ \A x \in numbers : x <= b + 255
  BY <1>1 DEF SlidesTyped, SlidesTypeOK, SldId
<1>3. Max(numbers) \in Nat /\ \A x \in numbers : x \in Nat /\ x <= Max(numbers)
  <2> HIDE DEF numbers
  <2>1. b + 255 \in Nat
    BY <1>1
  <2> QED BY <1>2, <2>1, BoundedHasMax
<1>4. NextSlideId = Max(numbers) + 1 /\ \A e \in sldIdLst : e.id \in numbers
  BY DEF NextSlideId
<1> HIDE DEF numbers
<1> QED BY <1>3, <1>4

LEMMA ChangeKeeps ==
  ASSUME NEW cost, NEW lapse, Change(cost, lapse)
  PROVE  UNCHANGED <<original, pc, removed>> /\ verdict' = "none"
BY DEF Change, Edited

LEMMA AddSlideTyped ==
  ASSUME SlidesTyped, Connected, NEW n \in Slide, NEW rels, NEW refers \in SUBSET Part, NEW wrong \in SUBSET Fault,
         DOMAIN rels \subseteq Part, rels \in [DOMAIN rels -> SUBSET Part], AddSlide(n, rels, refers, wrong)
  PROVE  SlidesTyped'
<1>1. UNCHANGED <<original, pc, removed>> /\ verdict' = "none"
  <2>1. Change(1, IF printed = {} THEN {} ELSE {"printed twice"})
    BY Zenon DEF AddSlide
  <2> QED BY <2>1, ChangeKeeps, Zenon
<1>2. /\ files' = files \cup {n} /\ relsOf' = rels /\ overrides' = overrides \cup {n}
      /\ uses' = [uses EXCEPT ![n] = refers] /\ faults' = [faults EXCEPT ![n] = wrong]
      /\ presRels' = presRels \cup (IF \E r \in presRels : r.slide = n THEN {} ELSE {[rid |-> NextRid, slide |-> n]})
      /\ printed' = printed \cup {[id |-> NextSlideId, rid |-> NextRid]}
      /\ UNCHANGED sldIdLst
  BY Zenon DEF AddSlide, AddToContentTypes, AddToPresentationRels
<1>3. NextRid \in Nat /\ NextSlideId \in Nat
  BY NextNumbers, NextSlideIdTyped
<1>4. [rid |-> NextRid, slide |-> n] \in PresRel /\ [id |-> NextSlideId, rid |-> NextRid] \in SldId
  BY <1>3 DEF PresRel, SldId
<1>5. n \in Part
  BY DEF Part
<1>6. uses' \in [Part -> SUBSET Part] /\ faults' \in [Slide \cup Chart -> SUBSET Fault]
  BY <1>2 DEF SlidesTyped, SlidesTypeOK
<1> QED BY <1>1, <1>2, <1>4, <1>5, <1>6 DEF SlidesTyped, SlidesTypeOK, Verdict

LEMMA AuthorTyped ==
  ASSUME SlidesTyped, Connected, Author
  PROVE  SlidesTyped'
<1> USE DEF SlidesTyped, SlidesTypeOK
<1>1. ASSUME NEW l \in Layout, CreateSlideFromLayout(l)
      PROVE  SlidesTyped'
  <2> DEFINE n == NextSlideNumber
             rels == [p \in DOMAIN relsOf \cup {n} |-> IF p = n THEN {l} ELSE relsOf[p]]
  <2>1. AddSlide(n, rels, {}, {})
    BY <1>1, Zenon DEF CreateSlideFromLayout
  <2> HIDE DEF n, rels
  <2>2. n \in Slide
    BY <2>1, Zenon DEF AddSlide
  <2>3. n \in Part /\ {l} \in SUBSET Part
    BY <2>2 DEF Part
  <2>4. rels = [p \in DOMAIN relsOf \cup {n} |-> IF p = n THEN {l} ELSE relsOf[p]]
    BY DEF rels
  <2>5. DOMAIN rels = DOMAIN relsOf \cup {n}
    BY <2>4
  <2>6. DOMAIN rels \subseteq Part /\ rels \in [DOMAIN rels -> SUBSET Part]
    BY <2>3, <2>4, <2>5
  <2>7. PICK none : none \in SUBSET Part /\ none \in SUBSET Fault /\ AddSlide(n, rels, none, none)
    BY <2>1, Zenon
  <2> QED BY <2>2, <2>6, <2>7, AddSlideTyped
<1>2. ASSUME NEW s \in Slide, DuplicateSlide(s)
      PROVE  SlidesTyped'
  <2> DEFINE n == NextSlideNumber
             rels == IF s \in DOMAIN relsOf
                     THEN [p \in DOMAIN relsOf \cup {n} |-> IF p = n THEN CopiedRels(s) ELSE relsOf[p]]
                     ELSE relsOf
  <2>1. AddSlide(n, rels, uses[s], faults[s])
    BY <1>2, Zenon DEF DuplicateSlide
  <2> HIDE DEF n, rels
  <2>2. n \in Slide
    BY <2>1, Zenon DEF AddSlide
  <2>3. DOMAIN rels \subseteq Part /\ rels \in [DOMAIN rels -> SUBSET Part]
    BY <2>2 DEF Part, CopiedRels, rels
  <2>4. uses[s] \in SUBSET Part /\ faults[s] \in SUBSET Fault
    BY DEF Part
  <2> QED BY <2>1, <2>2, <2>3, <2>4, AddSlideTyped
<1>3. ASSUME NEW e \in printed, PasteSldId(e)
      PROVE  SlidesTyped'
  <2>1. /\ sldIdLst' = sldIdLst \cup {e} /\ printed' = printed \ {e}
        /\ UNCHANGED <<files, relsOf, presRels, overrides, uses, faults>>
    BY <1>3, Zenon DEF PasteSldId
  <2>5. UNCHANGED <<original, pc, removed>> /\ verdict' = "none"
    BY <1>3, ChangeKeeps, Zenon DEF PasteSldId
  <2>2. PICK b \in Nat : \A f \in sldIdLst : f.id <= b
    OBVIOUS
  <2>3. e.id \in Nat /\ \A f \in sldIdLst : f.id \in Nat
    BY DEF SldId
  <2>4. b + e.id \in Nat /\ \A f \in sldIdLst' : f.id <= b + e.id
    BY <2>1, <2>2, <2>3
  <2> QED BY <2>1, <2>4, <2>5 DEF Verdict
<1>4. ASSUME NEW e \in sldIdLst, DeleteSldId(e)
      PROVE  SlidesTyped'
  BY <1>4, ChangeKeeps DEF DeleteSldId, Verdict
<1>5. ASSUME NEW s \in Slide, NEW p \in Resource, NEW what, EditSlide(s, p, what)
      PROVE  SlidesTyped'
  BY <1>5, ChangeKeeps DEF EditSlide, Verdict
<1>6. ASSUME NEW s \in Slide, NEW l \in Layout, NEW too \in BOOLEAN, Relayout(s, l, too)
      PROVE  SlidesTyped'
  <2>1. Layout \subseteq Part
    BY DEF Part
  <2>2. relsOf' = [relsOf EXCEPT ![s] = (IF too THEN @ ELSE @ \ Layout) \cup {l}]
        /\ UNCHANGED <<files, presRels, sldIdLst, overrides, uses, faults, printed>>
    BY <1>6, Zenon DEF Relayout
  <2>3. UNCHANGED <<original, pc, removed>> /\ verdict' = "none"
    BY <1>6, ChangeKeeps, Zenon DEF Relayout
  <2>4. DOMAIN relsOf' \subseteq Part /\ relsOf' \in [DOMAIN relsOf' -> SUBSET Part]
    BY <2>1, <2>2
  <2> QED BY <2>2, <2>3, <2>4 DEF Verdict
<1>7. ASSUME NEW p \in Slide \cup Chart, NEW fault \in Fault, Spoil(p, fault)
      PROVE  SlidesTyped'
  BY <1>7, ChangeKeeps DEF Spoil, Verdict
<1> QED BY <1>1, <1>2, <1>3, <1>4, <1>5, <1>6, <1>7 DEF Author

(* The scripts that clean and pack only take away.                         *)
LEMMA ScriptsTyped ==
  ASSUME SlidesTyped, RemoveOrphanedSlides \/ Clean \/ CleanFails \/ PackPresentation
  PROVE  SlidesTyped'
<1> USE DEF SlidesTyped, SlidesTypeOK, Verdict
<1>1. ASSUME NEW rels, NEW gone, DOMAIN rels \subseteq Part, rels \in [DOMAIN rels -> SUBSET Part]
      PROVE  DOMAIN Without(rels, gone) \subseteq Part
             /\ Without(rels, gone) \in [DOMAIN Without(rels, gone) -> SUBSET Part]
  BY <1>1 DEF Without, Restrict
<1>2. CASE RemoveOrphanedSlides
  <2> DEFINE gone == Slides \ Listed(sldIdLst, presRels)
  <2>1. /\ files' \subseteq files /\ relsOf' = Without(relsOf, gone) /\ presRels' \subseteq presRels
        /\ removed' = gone \cup (files \cap Trash) /\ pc' = "files" /\ verdict' = "none"
        /\ UNCHANGED <<original, sldIdLst, overrides, uses, faults, printed>>
    BY <1>2 DEF RemoveOrphanedSlides
  <2>2. removed' \subseteq Part
    BY <2>1 DEF Slides
  <2> HIDE DEF gone
  <2>3. DOMAIN relsOf' \subseteq Part /\ relsOf' \in [DOMAIN relsOf' -> SUBSET Part]
    BY <1>1, <2>1
  <2> QED BY <2>1, <2>2, <2>3
<1>3. CASE RemoveOrphanedFiles
  <2> DEFINE rels == Without(relsOf, OrphanedRels)
  <2>1. PICK gone, goneRels :
          /\ files' = files \ gone /\ gone \subseteq files /\ relsOf' = Without(rels, goneRels)
          /\ removed' = removed \cup gone /\ pc' \in {"files", "types"}
          /\ UNCHANGED <<original, presRels, sldIdLst, overrides, uses, faults, printed, verdict>>
    BY <1>3 DEF RemoveOrphanedFiles, OrphanedFiles, Swept, editingVars
  <2>2. DOMAIN rels \subseteq Part /\ rels \in [DOMAIN rels -> SUBSET Part]
    BY <1>1
  <2> HIDE DEF rels
  <2>3. DOMAIN relsOf' \subseteq Part /\ relsOf' \in [DOMAIN relsOf' -> SUBSET Part]
    BY <1>1, <2>1, <2>2
  <2> QED BY <2>1, <2>3
<1>4. CASE UpdateContentTypes \/ CleanFails
  BY <1>4 DEF UpdateContentTypes, CleanFails
<1>5. CASE PackPresentation
  BY <1>5 DEF PackPresentation, Judged, slidesVars
<1> QED BY <1>2, <1>3, <1>4, <1>5 DEF Clean

LEMMA SlidesInitTyped ==
  ASSUME SlidesInit(Original), verdict = "none"
  PROVE  SlidesTyped
<1>1. /\ original \in Original
      /\ files = original.files /\ relsOf = original.relsOf
      /\ presRels = original.presRels /\ sldIdLst = original.sldIdLst
      /\ overrides \subseteq original.files
      /\ uses = original.uses /\ faults = original.faults
      /\ printed = {} /\ pc = "idle" /\ removed = {}
  BY DEF SlidesInit
<1>2. /\ files \subseteq Part /\ sldIdLst \subseteq SldId /\ presRels \subseteq PresRel
      /\ relsOf \in [DOMAIN relsOf -> SUBSET Part] /\ DOMAIN relsOf \subseteq Part
      /\ uses \in [Part -> SUBSET Part] /\ faults \in [Slide \cup Chart -> SUBSET Fault]
      /\ sldIdLst # {} => \E e \in sldIdLst : \A f \in sldIdLst : f.id <= e.id
  BY <1>1, SlidesAssumption
<1>3. \E b \in Nat : \A e \in sldIdLst : e.id <= b
  BY <1>2 DEF SldId
<1> QED BY <1>1, <1>2, <1>3 DEF SlidesTyped, SlidesTypeOK, Verdict
-----------------------------------------------------------------------------
(* What keeps a presentation valid in the hands of a careful author, from  *)
(* whom a mistake is but something to be cleaned up.                       *)
Careful == lapses \subseteq {"unclean"}

(* A slide has an ID of its own, and one that is printed will have.        *)
ListSound ==
  /\ \A e, f \in sldIdLst : e.id = f.id => e = f
  /\ \A e \in sldIdLst : \E r \in presRels : r.rid = e.rid
  /\ \A e, f \in printed : e = f
  /\ \A e \in printed, f \in sldIdLst : e.id # f.id

(* Notes whose slide was removed, and that will be, are loose.             *)
Loose(p) == pc = "files" /\ p \in Notes /\ \A q \in DOMAIN relsOf : p \notin relsOf[q]

(* What a part leads to is there, and stays when slides are removed.       *)
LinksSound ==
  /\ DOMAIN relsOf \cap Slide \subseteq files
  /\ \A s \in DOMAIN relsOf \cap Slide : relsOf[s] \cap Slide \subseteq Listed(sldIdLst, presRels)
  /\ \A p \in DOMAIN relsOf : relsOf[p] \cap Trash = {} /\ (relsOf[p] \subseteq files \/ Loose(p))
  /\ \A p \in DOMAIN relsOf \ Slide :
       /\ relsOf[p] \cap Notes = {}
       /\ \A s \in relsOf[p] \cap Slide : p \in Notes /\ ((s \in DOMAIN relsOf /\ p \in relsOf[s]) \/ Loose(p))

(* A slide has what it uses, one layout, and notes of its own.             *)
PartsSound ==
  /\ \A p \in DOMAIN relsOf \cap files : uses[p] \ Diagram \subseteq relsOf[p]
  /\ \A s \in Slide : uses[s] \cap (Notes \cup Layout) = {}
  /\ \A s, t \in DOMAIN relsOf \cap Slide : relsOf[s] \cap relsOf[t] \cap Notes # {} => s = t
  /\ \A s \in DOMAIN relsOf \cap Slide : \A l, m \in relsOf[s] \cap Layout : l = m
  /\ \A s \in Slide : faults[s] \subseteq {"old"}
  /\ \A p \in Chart : faults[p] = original.faults[p]

(* Comments and controls are on some slide.                                *)
UnsweptSound == \A p \in files \cap Unswept : \E q \in DOMAIN relsOf : p \in relsOf[q]

(* Nothing else is left over, until something is taken off a slide.        *)
Clear == files \ Unswept \subseteq Referenced(relsOf)

Sound ==
  /\ Careful => ListSound /\ LinksSound /\ PartsSound /\ UnsweptSound
  /\ (pc = "idle" /\ lapses = {}) \/ pc = "types" => Clear
  /\ files \cap (Slide \cup Layout) \subseteq overrides
  /\ removed \cap files = {} /\ (pc = "idle" => removed = {})
  /\ files \ Slide \subseteq original.files
  /\ pc # "idle" => verdict = "none"
  /\ CarefulAuthorPacks

(* Listed slides stay listed when relationships and entries are added.     *)
LEMMA ListedGrows ==
  ASSUME NEW list, NEW pres, NEW list2, NEW pres2, list \subseteq list2, pres \subseteq pres2
  PROVE  Listed(list, pres) \subseteq Listed(list2, pres2)
BY DEF Listed

LEMMA UnsweptStays ==
  ASSUME UnsweptSound, files' \cap Unswept \subseteq files,
         \A p \in Unswept, q \in DOMAIN relsOf : p \in relsOf[q] => q \in DOMAIN relsOf' /\ p \in relsOf'[q]
  PROVE  UnsweptSound'
BY DEF UnsweptSound

LEMMA ChangeFacts ==
  ASSUME Sound, NEW cost, NEW lapse, Change(cost, lapse)
  PROVE  /\ pc = "idle" /\ pc' = "idle" /\ verdict' = "none" /\ lapses' = lapses \cup lapse
         /\ removed = {} /\ removed' = {} /\ original' = original
         /\ Careful' => Careful /\ lapse \subseteq {"unclean"}
         /\ \A p : ~Loose(p) /\ ~Loose(p)'
BY DEF Sound, Change, Edited, Careful, Loose

(* A step that leaves the parts and their declarations alone.              *)
LEMMA SoundSteps ==
  ASSUME Sound, SlidesTyped, NEW cost, NEW lapse, Change(cost, lapse),
         Careful' => ListSound' /\ LinksSound' /\ PartsSound' /\ UnsweptSound',
         lapses' = {} => Clear', files \subseteq files', files' \ Slide \subseteq files,
         overrides \subseteq overrides', files' \cap Slide \subseteq files \cup overrides'
  PROVE  Sound'
<1>1. /\ pc' = "idle" /\ verdict' = "none" /\ removed' = {} /\ original' = original
  BY ChangeFacts
<1>2. files' \cap (Slide \cup Layout) \subseteq overrides'
  <2>1. files \cap (Slide \cup Layout) \subseteq overrides /\ Layout \cap Slide = {}
    BY SlidesAssumption DEF Sound
  <2> QED BY <2>1
<1>3. files' \ Slide \subseteq original'.files
  BY <1>1 DEF Sound
<1> QED BY <1>1, <1>2, <1>3 DEF Sound, CarefulAuthorPacks

LEMMA AddSlideSound ==
  ASSUME SlidesTyped, Connected, Sound, NEW n, n = NextSlideNumber, NEW rels, NEW refers, NEW wrong,
         AddSlide(n, rels, refers, wrong),
         Careful =>
           /\ DOMAIN relsOf \subseteq DOMAIN rels /\ DOMAIN rels \subseteq DOMAIN relsOf \cup {n}
           /\ \A p \in DOMAIN relsOf : p # n => rels[p] = relsOf[p]
           /\ n \in DOMAIN rels =>
                /\ rels[n] \subseteq files \ (Notes \cup Trash) /\ refers \ Diagram \subseteq rels[n]
                /\ rels[n] \cap Slide \subseteq Listed(sldIdLst, presRels)
                /\ \A l, m \in rels[n] \cap Layout : l = m
           /\ refers \cap (Notes \cup Layout) = {} /\ wrong \subseteq {"old"}
  PROVE  Sound'
<1> DEFINE lapse == IF printed = {} THEN {} ELSE {"printed twice"}
<1>1. Change(1, lapse)
  BY Zenon DEF AddSlide
<1>a. lapse \subseteq {"unclean"} => printed = {}
  BY Zenon
<1> HIDE DEF lapse
<1>2. /\ n \in Slide /\ files' = files \cup {n} /\ relsOf' = rels /\ overrides' = overrides \cup {n}
      /\ uses' = [uses EXCEPT ![n] = refers] /\ faults' = [faults EXCEPT ![n] = wrong]
      /\ presRels' = presRels \cup (IF \E r \in presRels : r.slide = n THEN {} ELSE {[rid |-> NextRid, slide |-> n]})
      /\ printed' = printed \cup {[id |-> NextSlideId, rid |-> NextRid]}
      /\ UNCHANGED sldIdLst
  BY Zenon DEF AddSlide, AddToContentTypes, AddToPresentationRels
<1>3. n \notin files
  BY <1>2, NextNumbers DEF Slides
<1>4. \A r \in presRels : r.slide # n
  BY <1>3 DEF Connected
<1>5. /\ presRels' = presRels \cup {[rid |-> NextRid, slide |-> n]}
      /\ Listed(sldIdLst, presRels) \subseteq Listed(sldIdLst, presRels)'
  BY <1>2, <1>4, ListedGrows
<1>6. /\ pc = "idle" /\ pc' = "idle" /\ lapses' = lapses \cup lapse /\ original' = original
      /\ Careful' => Careful /\ printed = {}
      /\ \A p : ~Loose(p) /\ ~Loose(p)'
  BY <1>1, <1>a, ChangeFacts
<1>7. ASSUME Careful, printed = {}
      PROVE  ListSound' /\ LinksSound' /\ PartsSound' /\ UnsweptSound' /\ (lapses = {} => Clear')
  <2>1. ListSound /\ LinksSound /\ PartsSound /\ UnsweptSound /\ (lapses = {} => Clear) /\ printed = {}
    BY <1>6, <1>7 DEF Sound
  <2>2. n \notin DOMAIN relsOf
    BY <1>2, <1>3, <2>1 DEF LinksSound
  <2>3. /\ DOMAIN relsOf \subseteq DOMAIN rels /\ DOMAIN rels \subseteq DOMAIN relsOf \cup {n}
        /\ \A p \in DOMAIN relsOf : rels[p] = relsOf[p]
        /\ n \in DOMAIN rels =>
             /\ rels[n] \subseteq files \ (Notes \cup Trash) /\ refers \ Diagram \subseteq rels[n]
             /\ rels[n] \cap Slide \subseteq Listed(sldIdLst, presRels)
             /\ \A l, m \in rels[n] \cap Layout : l = m
        /\ refers \cap (Notes \cup Layout) = {} /\ wrong \subseteq {"old"}
    BY <1>7, <2>2
  <2>4. ListSound'
    <3>1. \A e \in sldIdLst : e.id # NextSlideId
      BY NextSlideIdAbove
    <3>2. \A e \in sldIdLst' : \E r \in presRels' : r.rid = e.rid
      BY <1>2, <1>5, <2>1 DEF ListSound
    <3> QED BY <1>2, <2>1, <3>1, <3>2 DEF ListSound
  <2>5. LinksSound'
    <3>1. \A s \in DOMAIN rels \cap Slide : rels[s] \cap Slide \subseteq Listed(sldIdLst, presRels)'
      BY <1>5, <2>1, <2>3 DEF LinksSound
    <3>2. \A p \in DOMAIN rels : rels[p] \cap Trash = {} /\ rels[p] \subseteq files'
      BY <1>2, <1>6, <2>1, <2>3 DEF LinksSound
    <3>3. \A p \in DOMAIN rels \ Slide :
             /\ rels[p] \cap Notes = {}
             /\ \A s \in rels[p] \cap Slide : p \in Notes /\ s \in DOMAIN rels /\ p \in rels[s]
      BY <1>2, <1>6, <2>1, <2>3 DEF LinksSound
    <3>4. DOMAIN rels \cap Slide \subseteq files'
      BY <1>2, <2>1, <2>3 DEF LinksSound
    <3> QED BY <1>2, <3>1, <3>2, <3>3, <3>4 DEF LinksSound
  <2>6. PartsSound'
    <3>1. /\ \A p \in Part : uses'[p] = IF p = n THEN refers ELSE uses[p]
          /\ \A p \in Slide \cup Chart : faults'[p] = IF p = n THEN wrong ELSE faults[p]
      BY <1>2 DEF SlidesTyped, SlidesTypeOK
    <3>2. Slide \subseteq Part /\ DOMAIN rels \subseteq Part /\ n \notin Chart
      <4>1. DOMAIN relsOf \subseteq Part /\ Slide \subseteq Part /\ Chart \cap Slide = {}
        BY SlidesAssumption DEF SlidesTyped, SlidesTypeOK, Part
      <4> QED BY <1>2, <2>3, <4>1
    <3>3. \A p \in DOMAIN rels \cap files' : uses'[p] \ Diagram \subseteq rels[p]
      BY <1>2, <2>1, <2>3, <3>1, <3>2 DEF PartsSound
    <3>4. \A s \in Slide : uses'[s] \cap (Notes \cup Layout) = {} /\ faults'[s] \subseteq {"old"}
      BY <2>1, <2>3, <3>1, <3>2 DEF PartsSound
    <3>5. \A s, t \in DOMAIN rels \cap Slide : rels[s] \cap rels[t] \cap Notes # {} => s = t
      BY <2>1, <2>3 DEF PartsSound
    <3>6. \A s \in DOMAIN rels \cap Slide : \A l, m \in rels[s] \cap Layout : l = m
      BY <2>1, <2>3 DEF PartsSound
    <3>7. \A p \in Chart : faults'[p] = original'.faults[p]
      BY <1>6, <2>1, <3>1, <3>2 DEF PartsSound
    <3> QED BY <1>2, <3>3, <3>4, <3>5, <3>6, <3>7 DEF PartsSound
  <2>7. lapses = {} => Clear'
    <3>1. Targets(relsOf) \subseteq Targets(rels)
      BY <2>3 DEF Targets
    <3>2. {r.slide : r \in presRels'} = {r.slide : r \in presRels} \cup {n}
      <4> DEFINE new == [rid |-> NextRid, slide |-> n]
      <4>1. new.slide = n /\ presRels' = presRels \cup {new}
        BY <1>5
      <4> HIDE DEF new
      <4> QED BY <4>1
    <3> QED BY <1>2, <2>1, <3>1, <3>2 DEF Clear, Referenced
  <2>8. UnsweptSound'
    <3>1. n \notin Unswept
      BY <1>2, Kinds
    <3> QED BY <1>2, <2>1, <2>3, <3>1, UnsweptStays
  <2> QED BY <2>4, <2>5, <2>6, <2>7, <2>8
<1>8. Careful' => ListSound' /\ LinksSound' /\ PartsSound' /\ UnsweptSound'
  BY <1>6, <1>7
<1>9. lapses' = {} => Clear'
  BY <1>6, <1>7 DEF Careful
<1>10. n \in overrides' /\ overrides \subseteq overrides'
  BY <1>2
<1> QED BY <1>1, <1>2, <1>8, <1>9, <1>10, SoundSteps

LEMMA SlideListSound ==
  ASSUME SlidesTyped, Connected, Sound, NEW e, PasteSldId(e) \/ DeleteSldId(e)
  PROVE  Sound'
<1>1. CASE PasteSldId(e)
  <2> DEFINE lapse == IF \E r \in presRels : r.rid = e.rid THEN {} ELSE {"stale entry"}
  <2>1. /\ e \in printed \ sldIdLst /\ Change(0, lapse)
        /\ sldIdLst' = sldIdLst \cup {e} /\ printed' = printed \ {e}
        /\ UNCHANGED <<files, relsOf, presRels, overrides, uses, faults>>
    BY <1>1, Zenon DEF PasteSldId
  <2>2. lapse \subseteq {"unclean"} => \E r \in presRels : r.rid = e.rid
    BY Zenon
  <2> HIDE DEF lapse
  <2>3. /\ pc = "idle" /\ pc' = "idle" /\ original' = original /\ lapses' = lapses \cup lapse
        /\ Careful' => Careful /\ \E r \in presRels : r.rid = e.rid
        /\ \A p : ~Loose(p) /\ ~Loose(p)'
    BY <2>1, <2>2, ChangeFacts
  <2>4. ASSUME Careful' PROVE ListSound' /\ LinksSound' /\ PartsSound' /\ UnsweptSound'
    <3>1. ListSound /\ LinksSound /\ PartsSound /\ UnsweptSound
      BY <2>3, <2>4 DEF Sound
    <3>2. ListSound'
      BY <2>1, <2>3, <2>4, <3>1 DEF ListSound
    <3>3. LinksSound'
      <4>1. Listed(sldIdLst, presRels) \subseteq Listed(sldIdLst, presRels)'
        BY <2>1, ListedGrows
      <4> QED BY <2>1, <2>3, <3>1, <4>1 DEF LinksSound
    <3>4. PartsSound'
      BY <2>1, <2>3, <3>1 DEF PartsSound
    <3>5. UnsweptSound'
      BY <2>1, <3>1, UnsweptStays
    <3> QED BY <3>2, <3>3, <3>4, <3>5
  <2>5. lapses' = {} => Clear'
    BY <2>1, <2>3 DEF Sound, Clear, Referenced
  <2> QED BY <2>1, <2>4, <2>5, SoundSteps
<1>2. CASE DeleteSldId(e)
  <2> DEFINE named == {r.slide : r \in {q \in presRels : q.rid = e.rid}}
             lapse == IF named \cap LinkedFromSlides = {} THEN {} ELSE {"linked"}
  <2>1. /\ e \in sldIdLst /\ Change(1, lapse) /\ sldIdLst' = sldIdLst \ {e}
        /\ UNCHANGED <<files, relsOf, presRels, overrides, uses, faults, printed>>
    BY <1>2, Zenon DEF DeleteSldId
  <2>2. lapse \subseteq {"unclean"} => named \cap LinkedFromSlides = {}
    BY Zenon
  <2> HIDE DEF lapse
  <2>3. /\ pc = "idle" /\ pc' = "idle" /\ original' = original /\ lapses' = lapses \cup lapse
        /\ Careful' => Careful /\ named \cap LinkedFromSlides = {}
        /\ \A p : ~Loose(p) /\ ~Loose(p)'
    BY <2>1, <2>2, ChangeFacts
  <2>4. ASSUME Careful' PROVE ListSound' /\ LinksSound' /\ PartsSound' /\ UnsweptSound'
    <3>1. ListSound /\ LinksSound /\ PartsSound /\ UnsweptSound
      BY <2>3, <2>4 DEF Sound
    <3>2. ListSound'
      BY <2>1, <3>1 DEF ListSound
    <3>3. LinksSound'
      <4>1. ASSUME NEW s \in DOMAIN relsOf \cap Slide, NEW t \in relsOf[s] \cap Slide
            PROVE  t \in Listed(sldIdLst, presRels)'
        <5>1. PICK r \in presRels, f \in sldIdLst : f.rid = r.rid /\ t = r.slide
          BY <3>1, ListedIs DEF LinksSound
        <5>2. f # e
          BY <2>3, <2>4, <5>1, LinkedIs
        <5> QED BY <2>1, <5>1, <5>2, ListedIs
      <4> QED BY <2>1, <2>3, <3>1, <4>1 DEF LinksSound
    <3>4. PartsSound'
      BY <2>1, <2>3, <3>1 DEF PartsSound
    <3>5. UnsweptSound'
      BY <2>1, <3>1, UnsweptStays
    <3> QED BY <3>2, <3>3, <3>4, <3>5
  <2>5. lapses' = {} => Clear'
    BY <2>1, <2>3 DEF Sound, Clear, Referenced
  <2> QED BY <2>1, <2>4, <2>5, SoundSteps
<1> QED BY <1>1, <1>2

LEMMA EditSlideSound ==
  ASSUME SlidesTyped, Connected, Sound, NEW s \in Slide, NEW p \in Resource,
         NEW what \in SUBSET {"element", "relationship"} \ {{}}, EditSlide(s, p, what)
  PROVE  Sound'
<1> DEFINE lapse == CASE what = {"element"} -> {}
                      [] what = {"relationship"} /\ p \in uses[s] -> {"unclean", "dropped"}
                      [] OTHER -> {"unclean"}
           used0 == uses[s] \ (IF "element" \in what THEN {p} ELSE {})
           rels0 == relsOf[s] \ (IF "relationship" \in what THEN {p} ELSE {})
<1>1. /\ s \in Slides \cap DOMAIN relsOf /\ p \in relsOf[s] \cap Resource /\ Change(1, lapse)
      /\ uses' = [uses EXCEPT ![s] = used0] /\ relsOf' = [relsOf EXCEPT ![s] = rels0]
      /\ UNCHANGED <<files, presRels, sldIdLst, overrides, faults, printed>>
  BY Zenon DEF EditSlide
<1>2. lapse \subseteq {"unclean"} => p \notin used0 \/ "relationship" \notin what
  BY DEF used0
<1>3. lapse = {} => "relationship" \notin what
  OBVIOUS
<1>4. used0 \subseteq uses[s] /\ rels0 \subseteq relsOf[s] /\ rels0 \cup {p} = relsOf[s]
      /\ ("relationship" \notin what => rels0 = relsOf[s])
  BY <1>1
<1> HIDE DEF lapse, used0, rels0
<1>5. /\ pc = "idle" /\ pc' = "idle" /\ original' = original /\ lapses' = lapses \cup lapse
      /\ Careful' => Careful /\ (p \notin used0 \/ "relationship" \notin what)
      /\ \A q : ~Loose(q) /\ ~Loose(q)'
  BY <1>1, <1>2, ChangeFacts
<1>6. /\ DOMAIN relsOf' = DOMAIN relsOf
      /\ \A q \in DOMAIN relsOf : relsOf'[q] = IF q = s THEN rels0 ELSE relsOf[q]
      /\ \A q \in Part : uses'[q] = IF q = s THEN used0 ELSE uses[q]
      /\ DOMAIN relsOf \subseteq Part /\ s \in DOMAIN relsOf
  BY <1>1 DEF SlidesTyped, SlidesTypeOK
<1>7. p \notin Notes \cup Layout \cup Slide
  BY Kinds DEF Item
<1>8. ASSUME Careful' PROVE ListSound' /\ LinksSound' /\ PartsSound' /\ UnsweptSound'
  <2>1. ListSound /\ LinksSound /\ PartsSound /\ UnsweptSound
    BY <1>5, <1>8 DEF Sound
  <2>2. ListSound'
    BY <1>1, <2>1 DEF ListSound
  <2>3. LinksSound'
    <3>1. /\ DOMAIN relsOf' \cap Slide \subseteq files'
          /\ \A q \in DOMAIN relsOf' \cap Slide : relsOf'[q] \cap Slide \subseteq Listed(sldIdLst, presRels)'
          /\ \A q \in DOMAIN relsOf' : relsOf'[q] \cap Trash = {} /\ relsOf'[q] \subseteq files'
      BY <1>1, <1>4, <1>5, <1>6, <2>1 DEF LinksSound
    <3>2. \A q \in DOMAIN relsOf' \ Slide :
            /\ relsOf'[q] \cap Notes = {}
            /\ \A t \in relsOf'[q] \cap Slide : q \in Notes /\ t \in DOMAIN relsOf' /\ q \in relsOf'[t]
      BY <1>4, <1>5, <1>6, <1>7, <2>1 DEF LinksSound
    <3> QED BY <3>1, <3>2 DEF LinksSound
  <2>4. PartsSound'
    <3>1. \A q \in DOMAIN relsOf' \cap files' : uses'[q] \ Diagram \subseteq relsOf'[q]
      <4>1. used0 \ Diagram \subseteq rels0
        BY <1>1, <1>4, <1>5, <1>8, <2>1 DEF PartsSound, Slides
      <4> QED BY <1>1, <1>6, <2>1, <4>1 DEF PartsSound
    <3>2. \A q \in Slide : uses'[q] \cap (Notes \cup Layout) = {}
      BY <1>4, <1>6, <2>1 DEF PartsSound, Part
    <3>3. \A q, t \in DOMAIN relsOf' \cap Slide : relsOf'[q] \cap relsOf'[t] \cap Notes # {} => q = t
      BY <1>4, <1>6, <2>1 DEF PartsSound
    <3>4. \A q \in DOMAIN relsOf' \cap Slide : \A l, m \in relsOf'[q] \cap Layout : l = m
      BY <1>4, <1>6, <2>1 DEF PartsSound
    <3> QED BY <1>1, <1>5, <2>1, <3>1, <3>2, <3>3, <3>4 DEF PartsSound
  <2>5. UnsweptSound'
    <3>1. p \notin Unswept
      BY Kinds DEF Item
    <3> QED BY <1>1, <1>4, <1>6, <2>1, <3>1, UnsweptStays
  <2> QED BY <2>2, <2>3, <2>4, <2>5
<1>9. lapses' = {} => Clear'
  <2> SUFFICES ASSUME lapses' = {} PROVE Clear'
    OBVIOUS
  <2>1. Clear /\ rels0 = relsOf[s]
    BY <1>3, <1>4, <1>5 DEF Sound
  <2>2. Targets(relsOf) \subseteq Targets(relsOf')
    BY <1>6, <2>1 DEF Targets
  <2> QED BY <1>1, <2>1, <2>2 DEF Clear, Referenced
<1> QED BY <1>1, <1>8, <1>9, SoundSteps

LEMMA RelayoutSound ==
  ASSUME SlidesTyped, Connected, Sound, NEW s \in Slide, NEW l \in Layout, NEW too \in BOOLEAN, Relayout(s, l, too)
  PROVE  Sound'
<1> DEFINE lapse == IF too THEN {"two layouts"} ELSE {}
           rels0 == (IF too THEN relsOf[s] ELSE relsOf[s] \ Layout) \cup {l}
<1>1. /\ s \in Slides \cap DOMAIN relsOf /\ l \in files \ relsOf[s] /\ Change(1, lapse)
      /\ relsOf' = [relsOf EXCEPT ![s] = rels0]
      /\ UNCHANGED <<files, presRels, sldIdLst, overrides, uses, faults, printed>>
  BY Zenon DEF Relayout
<1>2. lapse \subseteq {"unclean"} => ~too
  BY Zenon
<1>3. rels0 \subseteq relsOf[s] \cup {l} /\ relsOf[s] \subseteq rels0 \cup Layout /\ (~too => rels0 \cap Layout = {l})
  OBVIOUS
<1> HIDE DEF lapse, rels0
<1>4. /\ pc = "idle" /\ pc' = "idle" /\ original' = original /\ lapses' = lapses \cup lapse
      /\ Careful' => Careful /\ ~too
      /\ \A q : ~Loose(q) /\ ~Loose(q)'
  BY <1>1, <1>2, ChangeFacts
<1>5. /\ DOMAIN relsOf' = DOMAIN relsOf
      /\ \A q \in DOMAIN relsOf : relsOf'[q] = IF q = s THEN rels0 ELSE relsOf[q]
      /\ s \in DOMAIN relsOf
  BY <1>1 DEF SlidesTyped, SlidesTypeOK
<1>6. l \notin Notes \cup Trash \cup Slide /\ Layout \cap (Notes \cup Slide) = {}
  BY SlidesAssumption
<1>7. ASSUME Careful' PROVE ListSound' /\ LinksSound' /\ PartsSound' /\ UnsweptSound'
  <2>1. ListSound /\ LinksSound /\ PartsSound /\ UnsweptSound /\ rels0 \cap Layout = {l}
    BY <1>3, <1>4, <1>7 DEF Sound
  <2>2. ListSound'
    BY <1>1, <2>1 DEF ListSound
  <2>3. LinksSound'
    <3>1. /\ DOMAIN relsOf' \cap Slide \subseteq files'
          /\ \A q \in DOMAIN relsOf' \cap Slide : relsOf'[q] \cap Slide \subseteq Listed(sldIdLst, presRels)'
          /\ \A q \in DOMAIN relsOf' : relsOf'[q] \cap Trash = {} /\ relsOf'[q] \subseteq files'
      BY <1>1, <1>3, <1>4, <1>5, <1>6, <2>1 DEF LinksSound
    <3>2. \A q \in DOMAIN relsOf' \ Slide :
            /\ relsOf'[q] \cap Notes = {}
            /\ \A t \in relsOf'[q] \cap Slide : q \in Notes /\ t \in DOMAIN relsOf' /\ q \in relsOf'[t]
      BY <1>3, <1>4, <1>5, <1>6, <2>1 DEF LinksSound
    <3> QED BY <3>1, <3>2 DEF LinksSound
  <2>4. PartsSound'
    <3>1. \A q \in DOMAIN relsOf' \cap files' : uses'[q] \ Diagram \subseteq relsOf'[q]
      <4>1. uses[s] \ Diagram \subseteq rels0
        BY <1>1, <1>3, <2>1 DEF PartsSound, Slides
      <4> QED BY <1>1, <1>5, <2>1, <4>1 DEF PartsSound
    <3>2. \A q, t \in DOMAIN relsOf' \cap Slide : relsOf'[q] \cap relsOf'[t] \cap Notes # {} => q = t
      BY <1>3, <1>5, <1>6, <2>1 DEF PartsSound
    <3>3. \A q \in DOMAIN relsOf' \cap Slide : \A k, m \in relsOf'[q] \cap Layout : k = m
      BY <1>5, <2>1 DEF PartsSound
    <3> QED BY <1>1, <1>4, <2>1, <3>1, <3>2, <3>3 DEF PartsSound
  <2>5. UnsweptSound'
    <3>1. Layout \cap Unswept = {}
      BY Kinds
    <3> QED BY <1>1, <1>3, <1>5, <2>1, <3>1, UnsweptStays
  <2> QED BY <2>2, <2>3, <2>4, <2>5
<1>8. lapses' = {} => Clear'
  <2> SUFFICES ASSUME lapses' = {} PROVE Clear'
    OBVIOUS
  <2>1. Clear
    BY <1>4 DEF Sound
  <2>2. Targets(relsOf) \subseteq Targets(relsOf') \cup Layout
    BY <1>3, <1>5 DEF Targets
  <2> QED BY <1>1, <2>1, <2>2 DEF Clear, Referenced
<1> QED BY <1>1, <1>7, <1>8, SoundSteps

LEMMA AuthorSound ==
  ASSUME SlidesTyped, Connected, Sound, Author
  PROVE  Sound'
<1>1. ASSUME NEW l \in Layout, CreateSlideFromLayout(l)
      PROVE  Sound'
  <2> DEFINE n == NextSlideNumber
             rels == [p \in DOMAIN relsOf \cup {n} |-> IF p = n THEN {l} ELSE relsOf[p]]
  <2>1. l \in files /\ AddSlide(n, rels, {}, {})
    BY <1>1, Zenon DEF CreateSlideFromLayout
  <2>2. /\ DOMAIN rels = DOMAIN relsOf \cup {n} /\ rels[n] = {l}
        /\ \A p \in DOMAIN relsOf : p # n => rels[p] = relsOf[p]
    OBVIOUS
  <2>3. l \notin Notes \cup Trash \cup Slide
    BY SlidesAssumption
  <2> HIDE DEF rels
  <2>4. PICK none : none = {} /\ AddSlide(n, rels, none, none)
    BY <2>1, Zenon
  <2> QED BY <2>1, <2>2, <2>3, <2>4, AddSlideSound
<1>2. ASSUME NEW s \in Slide, DuplicateSlide(s)
      PROVE  Sound'
  <2> DEFINE n == NextSlideNumber
             rels == IF s \in DOMAIN relsOf
                     THEN [p \in DOMAIN relsOf \cup {n} |-> IF p = n THEN CopiedRels(s) ELSE relsOf[p]]
                     ELSE relsOf
  <2>1. s \in Slides /\ AddSlide(n, rels, uses[s], faults[s])
    BY <1>2, Zenon DEF DuplicateSlide
  <2>2. /\ DOMAIN relsOf \subseteq DOMAIN rels /\ DOMAIN rels \subseteq DOMAIN relsOf \cup {n}
        /\ \A p \in DOMAIN relsOf : p # n => rels[p] = relsOf[p]
        /\ s \in DOMAIN relsOf => rels[n] = relsOf[s] \ Notes
        /\ s \notin DOMAIN relsOf => rels = relsOf
    BY DEF CopiedRels
  <2> HIDE DEF rels
  <2>3. n \in Slide /\ n \notin Slides /\ pc = "idle"
    <3>1. n \in Slide /\ Change(1, IF printed = {} THEN {} ELSE {"printed twice"})
      BY <2>1, Zenon DEF AddSlide
    <3>2. pc = "idle"
      BY <3>1, Zenon DEF Change
    <3> QED BY <3>1, <3>2, NextNumbers, Zenon
  <2>4. ASSUME Careful
        PROVE  /\ n \in DOMAIN rels =>
                    /\ rels[n] \subseteq files \ (Notes \cup Trash) /\ uses[s] \ Diagram \subseteq rels[n]
                    /\ rels[n] \cap Slide \subseteq Listed(sldIdLst, presRels)
                    /\ \A l, m \in rels[n] \cap Layout : l = m
               /\ uses[s] \cap (Notes \cup Layout) = {} /\ faults[s] \subseteq {"old"}
    <3>1. LinksSound /\ PartsSound /\ \A p : ~Loose(p)
      BY <2>3, <2>4 DEF Sound, Loose
    <3>2. n \notin DOMAIN relsOf
      BY <2>3, <3>1 DEF LinksSound, Slides
    <3>3. uses[s] \cap (Notes \cup Layout) = {} /\ faults[s] \subseteq {"old"}
      BY <3>1 DEF PartsSound
    <3>4. ASSUME n \in DOMAIN rels
          PROVE  /\ rels[n] \subseteq files \ (Notes \cup Trash) /\ uses[s] \ Diagram \subseteq rels[n]
                 /\ rels[n] \cap Slide \subseteq Listed(sldIdLst, presRels)
                 /\ \A l, m \in rels[n] \cap Layout : l = m
      <4>1. s \in DOMAIN relsOf /\ rels[n] = relsOf[s] \ Notes /\ s \in files
        BY <2>1, <2>2, <3>2, <3>4 DEF Slides
      <4> QED BY <3>1, <3>3, <4>1 DEF LinksSound, PartsSound
    <3> QED BY <3>3, <3>4
  <2> QED BY <2>1, <2>2, <2>4, AddSlideSound
<1>3. ASSUME NEW p \in Slide \cup Chart, NEW fault \in Fault \ {"old"}, Spoil(p, fault)
      PROVE  Sound'
  <2>1. Change(1, {"faulty"}) /\ UNCHANGED <<files, overrides>>
    BY <1>3, Zenon DEF Spoil
  <2>2. ~Careful' /\ lapses' # {}
    BY <2>1, ChangeFacts DEF Careful
  <2> QED BY <2>1, <2>2, SoundSteps
<1> QED BY <1>1, <1>2, <1>3, SlideListSound, EditSlideSound, RelayoutSound DEF Author
-----------------------------------------------------------------------------
(* The slides that clean.py removes are linked from none that stays; their *)
(* notes go in the first turn of its loop.                                 *)
LEMMA RemoveSlidesSound ==
  ASSUME SlidesTyped, Connected, Sound, RemoveOrphanedSlides
  PROVE  Sound'
<1> DEFINE listed == Listed(sldIdLst, presRels)
           gone == Slides \ listed
<1>1. /\ pc = "idle" /\ pc' = "files" /\ files' = files \ (gone \cup Trash) /\ relsOf' = Without(relsOf, gone)
      /\ presRels' = IF gone = {} THEN presRels ELSE {r \in presRels : r.slide \in listed}
      /\ removed' = gone \cup (files \cap Trash) /\ verdict' = "none"
      /\ lapses' = lapses \cup (IF Stranded(relsOf') = {} THEN {} ELSE {"stranded"})
      /\ UNCHANGED <<original, sldIdLst, overrides, uses, faults, printed>>
  BY Zenon DEF RemoveOrphanedSlides
<1>2. /\ DOMAIN relsOf' = DOMAIN relsOf \ gone
      /\ \A p \in DOMAIN relsOf' : relsOf'[p] = relsOf[p]
  BY <1>1 DEF Without, Restrict
<1>3. \A r \in presRels : r.slide \in listed => r \in presRels'
  BY <1>1
<1>4. listed \subseteq Listed(sldIdLst, presRels)'
  <2> SUFFICES ASSUME NEW t \in listed PROVE t \in Listed(sldIdLst, presRels)'
    OBVIOUS
  <2>1. PICK r \in presRels, e \in sldIdLst : e.rid = r.rid /\ t = r.slide
    BY ListedIs
  <2> QED BY <1>1, <1>3, <2>1, ListedIs
<1>5. gone \subseteq Slide /\ Slide \cap Trash = {}
  BY SlidesAssumption DEF Slides
<1>6. ASSUME Careful' PROVE ListSound' /\ LinksSound' /\ PartsSound' /\ UnsweptSound'
  <2>1. /\ ListSound /\ LinksSound /\ PartsSound /\ \A p : ~Loose(p)
        /\ Stranded(relsOf') = {}
    BY <1>1, <1>6 DEF Sound, Loose, Careful
  <2>2. ListSound'
    <3>1. ASSUME NEW e \in sldIdLst PROVE \E r \in presRels' : r.rid = e.rid
      <4>1. PICK r \in presRels : r.rid = e.rid
        BY <2>1 DEF ListSound
      <4> QED BY <1>3, <4>1, ListedIs
    <3> QED BY <1>1, <2>1, <3>1 DEF ListSound
  <2>3. LinksSound'
    <3> HIDE DEF listed, gone
    <3>1. DOMAIN relsOf' \cap Slide \subseteq files'
      BY <1>1, <1>2, <1>5, <2>1 DEF LinksSound
    <3>2. \A s \in DOMAIN relsOf' \cap Slide : relsOf'[s] \cap Slide \subseteq Listed(sldIdLst, presRels)'
      BY <1>2, <1>4, <2>1 DEF LinksSound, listed
    <3>3. ASSUME NEW p \in DOMAIN relsOf' \ Slide, NEW s \in relsOf[p] \cap Slide
          PROVE  p \in Notes /\ ((s \in DOMAIN relsOf' /\ p \in relsOf'[s]) \/ Loose(p)')
      <4>1. p \in Notes /\ s \in DOMAIN relsOf /\ p \in relsOf[s]
        BY <1>2, <2>1, <3>3 DEF LinksSound
      <4>2. CASE s \notin gone
        BY <1>2, <4>1, <4>2
      <4>3. CASE s \in gone
        <5>1. ASSUME NEW q \in DOMAIN relsOf' PROVE p \notin relsOf'[q]
          BY <1>2, <2>1, <4>1, <4>3, <5>1 DEF LinksSound, PartsSound
        <5> QED BY <1>1, <4>1, <5>1 DEF Loose
      <4> QED BY <4>2, <4>3
    <3>4. ASSUME NEW p \in DOMAIN relsOf'
          PROVE  relsOf'[p] \cap Trash = {} /\ (relsOf'[p] \subseteq files' \/ Loose(p)')
      <4>1. relsOf[p] \cap Trash = {} /\ relsOf[p] \subseteq files /\ relsOf'[p] = relsOf[p]
        BY <1>2, <2>1 DEF LinksSound
      <4>2. CASE relsOf[p] \cap gone = {}
        BY <1>1, <4>1, <4>2
      <4>3. CASE p \in Slide
        <5>1. relsOf[p] \cap Slide \subseteq listed
          BY <1>2, <2>1, <4>3 DEF LinksSound, listed
        <5> QED BY <4>2, <1>5, <5>1 DEF gone
      <4>4. CASE p \notin Slide /\ relsOf[p] \cap gone # {}
        <5>1. PICK s \in relsOf[p] : s \in gone /\ s \in Slide
          BY <1>5, <4>4
        <5>2. s \notin DOMAIN relsOf'
          BY <1>2, <5>1
        <5>3. Loose(p)'
          BY <3>3, <4>4, <5>1, <5>2
        <5> QED BY <4>1, <5>3
      <4> QED BY <4>2, <4>3, <4>4
    <3>5. \A p \in DOMAIN relsOf' \ Slide : relsOf'[p] \cap Notes = {}
      BY <1>2, <2>1 DEF LinksSound
    <3> QED BY <1>2, <3>1, <3>2, <3>3, <3>4, <3>5 DEF LinksSound
  <2>4. PartsSound'
    <3> HIDE DEF listed, gone
    <3> QED BY <1>1, <1>2, <2>1 DEF PartsSound
  <2>5. UnsweptSound'
    <3> HIDE DEF listed, gone
    <3>1. files' \subseteq files
      BY <1>1
    <3>2. \A p \in files \cap Unswept : \E q \in DOMAIN relsOf' : p \in relsOf'[q]
      BY <2>1 DEF Stranded, Targets
    <3> QED BY <3>1, <3>2 DEF UnsweptSound
  <2> QED BY <2>2, <2>3, <2>4, <2>5
<1>7. removed' \cap files' = {} /\ files' \subseteq files
  BY <1>1
<1> HIDE DEF listed, gone
<1>8. files' \cap (Slide \cup Layout) \subseteq overrides' /\ files' \ Slide \subseteq original'.files
  BY <1>1, <1>7 DEF Sound
<1>9. Careful' => Careful
  BY <1>1 DEF Careful
<1> QED BY <1>1, <1>6, <1>7, <1>8, <1>9 DEF Sound, CarefulAuthorPacks

LEMMA RemoveFilesSound ==
  ASSUME SlidesTyped, Connected, Wired, Tidy, Sound, RemoveOrphanedFiles
  PROVE  Sound'
<1> DEFINE rels == Without(relsOf, OrphanedRels)
           gone == OrphanedFiles(rels)
           goneRels == {p \in DOMAIN rels : (p \in Theme /\ p \in gone) \/ (p \in Notes /\ p \notin files \ gone)}
<1>1. /\ pc = "files" /\ files' = files \ gone /\ relsOf' = Without(rels, goneRels)
      /\ removed' = removed \cup gone
      /\ UNCHANGED <<original, presRels, sldIdLst, overrides, uses, faults, printed, verdict, lapses>>
  BY Zenon DEF RemoveOrphanedFiles, editingVars
<1>2. /\ DOMAIN rels = DOMAIN relsOf \ OrphanedRels
      /\ \A p \in DOMAIN rels : rels[p] = relsOf[p]
      /\ DOMAIN relsOf' = DOMAIN rels \ goneRels
      /\ \A p \in DOMAIN relsOf' : relsOf'[p] = rels[p]
  BY <1>1 DEF Without, Restrict
<1>3. /\ gone = {p \in files \cap (Resource \cup Theme \cup Notes) : p \notin Referenced(rels)}
      /\ OrphanedRels \cap Slide = {} /\ goneRels \cap Slide = {} /\ gone \cap Slide = {}
  BY Kinds DEF OrphanedRels, OrphanedFiles, Swept, Item
<1>4. pc' \in {"files", "types"} /\ (pc' = "types" => Clear')
  <2>1. pc' \in {"files", "types"}
    BY DEF RemoveOrphanedFiles
  <2>2. Tidy' /\ files' \subseteq Part
    <3>1. files \subseteq Part /\ original \in Original
      BY DEF SlidesTyped, SlidesTypeOK
    <3> QED BY <1>1, <3>1, RemoveFilesTidy
  <2>3. ASSUME pc' = "types" PROVE Clear'
    <3>1. /\ OrphanedFiles(relsOf)' = {} /\ Slides' \subseteq Listed(sldIdLst, presRels)' /\ files' \cap Trash = {}
      BY <2>2, <2>3, LastTurn DEF Tidy
    <3>2. files' \cap Slide \subseteq {r.slide : r \in presRels'}
      BY <3>1, ListedIs DEF Slides, Listed
    <3>3. files' \cap (Resource \cup Theme \cup Notes) \subseteq Referenced(relsOf)'
      BY <3>1 DEF OrphanedFiles, Swept
    <3> QED BY <2>2, <3>1, <3>2, <3>3 DEF Clear, Referenced, Part
  <2> QED BY <2>1, <2>3
<1> HIDE DEF rels, gone, goneRels
<1>5. ASSUME Careful PROVE ListSound' /\ LinksSound' /\ PartsSound' /\ UnsweptSound'
  <2>1. ListSound /\ LinksSound /\ PartsSound /\ UnsweptSound
    BY <1>5 DEF Sound
  <2>2. ListSound'
    BY <1>1, <2>1 DEF ListSound
  <2>3. LinksSound'
    <3>1. ASSUME NEW p \in DOMAIN relsOf' PROVE ~Loose(p)
      <4> SUFFICES ASSUME Loose(p) PROVE FALSE
        OBVIOUS
      <4>1. p \in Notes /\ \A q \in DOMAIN relsOf : p \notin relsOf[q]
        BY DEF Loose
      <4>2. p \notin Slide /\ p \notin Layout
        BY <4>1, SlidesAssumption
      <4>3. p \notin Targets(rels)
        BY <1>2, <4>1 DEF Targets
      <4>4. p \notin {r.slide : r \in presRels}
        BY <4>2 DEF Connected, PresRel
      <4>5. p \notin files \ gone
        BY <1>3, <4>1, <4>2, <4>3, <4>4 DEF Referenced
      <4>6. p \in goneRels
        BY <1>2, <3>1, <4>1, <4>5 DEF goneRels
      <4> QED BY <1>2, <3>1, <4>6
    <3>2. Targets(rels) \cap gone = {}
      BY <1>3 DEF Referenced
    <3>3. DOMAIN relsOf' \cap Slide \subseteq files'
      BY <1>1, <1>2, <1>3, <2>1 DEF LinksSound
    <3>4. \A s \in DOMAIN relsOf' \cap Slide : relsOf'[s] \cap Slide \subseteq Listed(sldIdLst, presRels)'
      BY <1>1, <1>2, <2>1 DEF LinksSound
    <3>5. \A p \in DOMAIN relsOf' : relsOf'[p] \cap Trash = {} /\ relsOf'[p] \subseteq files'
      BY <1>1, <1>2, <2>1, <3>1, <3>2 DEF LinksSound, Targets
    <3>6. ASSUME NEW p \in DOMAIN relsOf' \ Slide
          PROVE  /\ relsOf'[p] \cap Notes = {}
                 /\ \A s \in relsOf'[p] \cap Slide : p \in Notes /\ s \in DOMAIN relsOf' /\ p \in relsOf'[s]
      <4>1. ~Loose(p)
        BY <3>1
      <4> QED BY <1>2, <1>3, <2>1, <4>1 DEF LinksSound
    <3> QED BY <3>3, <3>4, <3>5, <3>6 DEF LinksSound
  <2>4. PartsSound'
    BY <1>1, <1>2, <2>1 DEF PartsSound
  <2>5. UnsweptSound'
    <3>1. ASSUME NEW p \in Unswept, NEW q \in DOMAIN relsOf, p \in relsOf[q] PROVE q \in DOMAIN relsOf'
      <4>1. q \notin WithRels \cup Notes \cup Theme
        <5>1. CASE q \in WithRels \cup Notes \cup Theme
          <6>1. q \notin Slide /\ original \in Original
            BY <5>1, Kinds DEF Item, SlidesTyped, SlidesTypeOK
          <6>2. q \in DOMAIN original.relsOf /\ p \in original.relsOf[q]
            BY <3>1, <6>1 DEF Wired
          <6>3. p \notin Media
            BY Kinds DEF Item, Resource
          <6> QED BY <5>1, <6>1, <6>2, <6>3, OriginalAssumption
        <5> QED BY <5>1
      <4>2. q \notin OrphanedRels /\ q \notin goneRels
        BY <4>1 DEF OrphanedRels, goneRels
      <4> QED BY <1>2, <4>2
    <3>2. files' \subseteq files /\ \A q \in DOMAIN relsOf' : relsOf'[q] = relsOf[q]
      BY <1>1, <1>2
    <3> QED BY <2>1, <3>1, <3>2, UnsweptStays
  <2> QED BY <2>2, <2>3, <2>4, <2>5
<1>6. removed' \cap files' = {} /\ files' \subseteq files /\ pc' # "idle"
  BY <1>1, <1>4 DEF Sound
<1>7. files' \cap (Slide \cup Layout) \subseteq overrides' /\ files' \ Slide \subseteq original'.files
  BY <1>1, <1>6 DEF Sound
<1>8. (Careful' => Careful) /\ verdict' = "none"
  BY <1>1 DEF Careful, Sound
<1> QED BY <1>4, <1>5, <1>6, <1>7, <1>8 DEF Sound, CarefulAuthorPacks

LEMMA CleanEndsSound ==
  ASSUME SlidesTyped, Sound, UpdateContentTypes \/ CleanFails
  PROVE  Sound'
<1>1. CASE UpdateContentTypes
  <2>1. /\ pc = "types" /\ pc' = "idle" /\ overrides' = overrides \ Undeclared
        /\ removed' = {} /\ lapses' = lapses \ {"unclean"}
        /\ UNCHANGED <<original, files, relsOf, presRels, sldIdLst, uses, faults, printed, verdict>>
    BY <1>1, Zenon DEF UpdateContentTypes
  <2>2. (Careful' => Careful) /\ \A p : ~Loose(p) /\ ~Loose(p)'
    BY <2>1 DEF Careful, Loose
  <2>3. Careful => ListSound' /\ LinksSound' /\ PartsSound' /\ UnsweptSound'
    <3> SUFFICES ASSUME Careful PROVE ListSound' /\ LinksSound' /\ PartsSound' /\ UnsweptSound'
      OBVIOUS
    <3>1. ListSound /\ LinksSound /\ PartsSound /\ UnsweptSound
      BY DEF Sound
    <3>2. ListSound' /\ PartsSound' /\ UnsweptSound'
      BY <2>1, <3>1 DEF ListSound, PartsSound, UnsweptSound
    <3>3. LinksSound'
      BY <2>1, <2>2, <3>1 DEF LinksSound, Listed
    <3> QED BY <3>2, <3>3
  <2>4. Clear'
    BY <2>1 DEF Sound, Clear, Referenced
  <2>5. files' \cap (Slide \cup Layout) \subseteq overrides'
    BY <2>1 DEF Sound, Undeclared
  <2> QED BY <2>1, <2>2, <2>3, <2>4, <2>5 DEF Sound, CarefulAuthorPacks
<1>2. CASE CleanFails
  <2>1. /\ pc # "idle" /\ pc' = "idle" /\ removed' = {} /\ lapses' = lapses \cup {"interrupted", "unclean"}
        /\ UNCHANGED <<original, files, overrides, verdict>>
    BY <1>2, Zenon DEF CleanFails
  <2>2. ~Careful' /\ lapses' # {} /\ verdict = "none"
    BY <2>1 DEF Careful, Sound
  <2> QED BY <2>1, <2>2 DEF Sound, CarefulAuthorPacks
<1> QED BY <1>1, <1>2

(* What a careful author has is valid whenever clean.py is not running.    *)
LEMMA CarefulIsValid ==
  ASSUME SlidesTyped, Connected, Sound, pc = "idle", lapses = {}
  PROVE  PresentationValid
<1>1. ListSound /\ LinksSound /\ PartsSound /\ UnsweptSound /\ Clear
  BY DEF Sound, Careful
<1>2. /\ DOMAIN faults = Slide \cup Chart /\ original \in Original
      /\ \A p \in Chart : original.faults[p] \subseteq {"old"}
  BY OriginalAssumption DEF SlidesTyped, SlidesTypeOK
<1>3. \A p : ~Loose(p)
  BY DEF Loose
<1>4. WellFormed
  BY <1>1, <1>2 DEF WellFormed, PartsSound
<1>5. UniqueSlideIds /\ RelationshipIds
  BY <1>1 DEF UniqueSlideIds, RelationshipIds, ListSound, PartsSound
<1>6. FileReferences
  <2>1. Targets(relsOf) \subseteq files
    BY <1>1, <1>3 DEF LinksSound, Targets
  <2>2. files \cap Unswept \subseteq Targets(relsOf)
    BY <1>1 DEF UnsweptSound, Targets
  <2> QED BY <1>1, <2>1, <2>2 DEF FileReferences, Clear, Referenced
<1>7. ContentTypes
  BY DEF ContentTypes, Sound
<1>8. SchemaValid
  <2>1. ASSUME NEW p \in Chart, p \in files PROVE NewErrors(p) = {}
    <3>1. p \in original.files /\ faults[p] = original.faults[p]
      BY <1>1, <2>1, SlidesAssumption DEF Sound, PartsSound
    <3> QED BY <3>1 DEF NewErrors
  <2> QED BY <2>1 DEF SchemaValid, HasSchema
<1>9. ASSUME NEW S, \A x, y \in S : x = y PROVE Cardinality(S) <= 1
  <2>1. CASE S = {}
    BY <2>1, FS_EmptySet
  <2>2. ASSUME NEW x \in S PROVE Cardinality(S) <= 1
    <3>1. S = {x}
      BY <1>9
    <3> QED BY <3>1, FS_Singleton
  <2> QED BY <2>1, <2>2
<1>10. NotesOfOneSlide
  <2>1. \A p \in Notes : \A s, t \in RelatedSlides(p) : s = t
    BY <1>1 DEF RelatedSlides, PartsSound
  <2> QED BY <1>9, <2>1 DEF NotesOfOneSlide
<1>11. OneLayout
  BY <1>1, <1>9 DEF OneLayout, PartsSound
<1> QED BY <1>4, <1>5, <1>6, <1>7, <1>8, <1>10, <1>11 DEF PresentationValid

LEMMA PackSound ==
  ASSUME SlidesTyped, Connected, Sound, PackPresentation
  PROVE  Sound'
<1>1. /\ pc = "idle" /\ UNCHANGED <<lapses, slidesVars>>
      /\ verdict' = IF PresentationValid THEN "packed" ELSE "refused"
  BY DEF PackPresentation, Judged
<1>2. UNCHANGED <<original, files, relsOf, presRels, sldIdLst, overrides, uses, faults, printed, pc, removed>>
  BY <1>1 DEF slidesVars
<1>3. CarefulAuthorPacks'
  BY <1>1, CarefulIsValid DEF CarefulAuthorPacks
<1>4. (Careful' => Careful) /\ \A p : ~Loose(p) /\ ~Loose(p)'
  BY <1>1, <1>2 DEF Careful, Loose
<1>5. Careful => ListSound' /\ LinksSound' /\ PartsSound' /\ UnsweptSound'
  <2> SUFFICES ASSUME Careful PROVE ListSound' /\ LinksSound' /\ PartsSound' /\ UnsweptSound'
    OBVIOUS
  <2>1. ListSound /\ LinksSound /\ PartsSound /\ UnsweptSound
    BY DEF Sound
  <2>2. ListSound' /\ PartsSound' /\ UnsweptSound'
    BY <1>2, <2>1 DEF ListSound, PartsSound, UnsweptSound
  <2>3. LinksSound'
    BY <1>2, <1>4, <2>1 DEF LinksSound, Listed
  <2> QED BY <2>2, <2>3
<1>6. Clear' = Clear
  BY <1>2 DEF Clear, Referenced
<1> QED BY <1>1, <1>2, <1>3, <1>4, <1>5, <1>6 DEF Sound

LEMMA SoundInit ==
  ASSUME SlidesInit(Original), verdict = "none", lapses = {} => files \cap Trash = {}
  PROVE  Sound
<1>1. /\ original \in Original
      /\ files = original.files /\ relsOf = original.relsOf
      /\ presRels = original.presRels /\ sldIdLst = original.sldIdLst
      /\ overrides = original.files \ (Media \cup Trash)
      /\ uses = original.uses /\ faults = original.faults
      /\ printed = {} /\ pc = "idle" /\ removed = {}
  BY DEF SlidesInit
<1> DEFINE slides == DOMAIN relsOf \cap Slide
           targets == UNION {relsOf[p] : p \in DOMAIN relsOf}
<1>2. /\ \A e, f \in sldIdLst : e.id = f.id => e = f
      /\ \A e \in sldIdLst : \E r \in presRels : r.rid = e.rid
      /\ slides \subseteq files /\ targets \subseteq files \ Trash
      /\ files \subseteq targets \cup {r.slide : r \in presRels} \cup Layout \cup Trash
      /\ \A p \in DOMAIN relsOf : uses[p] \ Diagram \subseteq relsOf[p]
      /\ \A s \in Slide : uses[s] \cap (Notes \cup Layout) = {}
      /\ \A s, t \in slides : relsOf[s] \cap relsOf[t] \cap Notes # {} => s = t
      /\ \A s \in slides : \A l, m \in relsOf[s] \cap Layout : l = m
      /\ \A p \in Slide \cup Chart : faults[p] \subseteq {"old"}
      /\ \A s \in slides : relsOf[s] \cap Slide \subseteq Listed(sldIdLst, presRels)
      /\ \A p \in DOMAIN relsOf \ Slide :
           /\ relsOf[p] \cap Notes = {}
           /\ \A s \in relsOf[p] \cap Slide : p \in Notes /\ s \in slides /\ p \in relsOf[s]
  BY <1>1, OriginalAssumption DEF Listed
<1>3. ListSound
  BY <1>1, <1>2 DEF ListSound
<1>4. LinksSound
  BY <1>2 DEF LinksSound
<1>5. PartsSound
  BY <1>1, <1>2 DEF PartsSound
<1>6. lapses = {} => Clear
  BY <1>2 DEF Clear, Referenced, Targets
<1>7. files \cap (Slide \cup Layout) \subseteq overrides
  <2>1. (Slide \cup Layout) \cap (Media \cup Trash) = {}
    BY SlidesAssumption DEF Resource
  <2> QED BY <1>1, <2>1
<1>8. UnsweptSound
  <2>1. ASSUME NEW p \in files \cap Unswept PROVE p \in targets
    <3>1. p \notin {r.slide : r \in presRels} \cup Layout \cup Trash
      <4>1. \A r \in presRels : r.slide \in Slide
        BY <1>1, SlidesAssumption DEF PresRel
      <4> QED BY <4>1, Kinds
    <3> QED BY <1>2, <3>1
  <2> QED BY <2>1 DEF UnsweptSound
<1> QED BY <1>1, <1>3, <1>4, <1>5, <1>6, <1>7, <1>8 DEF Sound, CarefulAuthorPacks
=============================================================================
