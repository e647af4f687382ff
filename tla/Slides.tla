------------------------------- MODULE Slides -------------------------------
(***************************************************************************)
(* An unpacked presentation: the parts in its directory, the .rels files   *)
(* that connect them, the slide list of presentation.xml and               *)
(* [Content_Types].xml, under add_slide.py, clean.py, the edits of an      *)
(* author and the validators that pack.py runs.                            *)
(*                                                                         *)
(* A part is a number (slide<n>.xml) or a model value; a .rels file is the *)
(* set of the parts it targets, all by relative paths.  Text, shapes and   *)
(* the parts nothing here touches (masters, the layouts' own files) are    *)
(* left out.  Faults of a part's XML are members of a set.                 *)
(*                                                                         *)
(* A definition whose comment starts with "Mutant:" is a faulty variant of *)
(* the definition below it; no specification uses it.                      *)
(***************************************************************************)
EXTENDS Editing, Functions, FiniteSetsExt

CONSTANTS
  Layout, Notes, Media, Chart, Drawing, Diagram, Theme, Unswept, Trash,  \* the other parts
  Original,   \* presentations an unpack may yield
  MaxSlide,   \* bound: the highest number of a slide
  MaxSlideEdits  \* bound: slides added and edits, pasting what was printed aside

Slide == 1 .. MaxSlide
(* Chart, Drawing and Diagram are in the directories whose .rels files     *)
(* clean.py looks at, Media stands for media, embeddings, tags and ink,    *)
(* Theme for theme overrides, Unswept for what is in a directory that      *)
(* clean.py does not know: comments, ActiveX controls.                     *)
WithRels == Chart \cup Drawing \cup Diagram
Resource == Media \cup WithRels
Part == Slide \cup Layout \cup Notes \cup Resource \cup Theme \cup Unswept \cup Trash

(* Relationships of presentation.xml to slides, and entries of its list.   *)
PresRel == [rid : Nat, slide : Slide]
SldId == [id : Nat, rid : Nat]
ASSUME SlidesAssumption ==
  /\ MaxSlide \in Nat /\ MaxSlideEdits \in Nat
  /\ \A kind \in {Layout, Notes, Media, Chart, Drawing, Diagram, Theme, Unswept, Trash} : kind \cap Slide = {}
  /\ Media \cap WithRels = {}
  /\ (Layout \cup Notes \cup Theme \cup Unswept \cup Trash) \cap Resource = {}
  /\ (Layout \cup Notes \cup Unswept \cup Trash) \cap Theme = {}
  /\ (Layout \cup Notes \cup Trash) \cap Unswept = {}
  /\ Layout \cap Notes = {} /\ (Layout \cup Notes) \cap Trash = {}
  /\ \A o \in Original :
       /\ o.files \subseteq Part /\ o.sldIdLst \subseteq SldId /\ o.presRels \subseteq PresRel
       /\ o.relsOf \in [DOMAIN o.relsOf -> SUBSET Part] /\ DOMAIN o.relsOf \subseteq Part
       /\ o.uses \in [Part -> SUBSET Part] /\ o.faults \in [Slide \cup Chart -> SUBSET Fault]
       /\ {r.slide : r \in o.presRels} \subseteq o.files
       /\ \A r, q \in o.presRels : r.rid = q.rid => r = q
       /\ o.presRels # {} => \E r \in o.presRels : \A q \in o.presRels : q.rid <= r.rid
       /\ o.sldIdLst # {} => \E e \in o.sldIdLst : \A f \in o.sldIdLst : f.id <= e.id

(* What is unpacked would pass the validators, but for what is in [trash], *)
(* and a part leads to a slide only if it is a slide, and the slide is     *)
(* listed, or notes, and the slide is theirs.  Who refers to a part has a  *)
(* .rels file; a theme override's names pictures, and a comment or control *)
(* is no chart's, theme's or notes'.                                       *)
ASSUME OriginalAssumption ==
  \A o \in Original :
    LET slides == DOMAIN o.relsOf \cap Slide
        targets == UNION {o.relsOf[p] : p \in DOMAIN o.relsOf}
    IN /\ \A e, f \in o.sldIdLst : e.id = f.id => e = f
       /\ \A e \in o.sldIdLst : \E r \in o.presRels : r.rid = e.rid
       /\ DOMAIN o.relsOf \subseteq o.files \ (Media \cup Trash) /\ targets \subseteq o.files \ Trash
       /\ o.files \subseteq targets \cup {r.slide : r \in o.presRels} \cup Layout \cup Trash
       /\ \A p \in Part : o.uses[p] # {} => p \in DOMAIN o.relsOf
       /\ \A p \in DOMAIN o.relsOf : o.uses[p] \ Diagram \subseteq o.relsOf[p]
       /\ \A p \in DOMAIN o.relsOf \cap Theme : o.relsOf[p] \subseteq Media
       /\ \A p \in DOMAIN o.relsOf \cap (WithRels \cup Notes) : o.relsOf[p] \cap Unswept = {}
       /\ \A s \in Slide : o.uses[s] \cap (Notes \cup Layout) = {}
       /\ \A s, t \in slides : o.relsOf[s] \cap o.relsOf[t] \cap Notes # {} => s = t
       /\ \A s \in slides : \A l, m \in o.relsOf[s] \cap Layout : l = m
       /\ \A p \in Slide \cup Chart : o.faults[p] \subseteq {"old"}
       /\ \A s \in slides : o.relsOf[s] \cap Slide \subseteq
            {r.slide : r \in {q \in o.presRels : \E e \in o.sldIdLst : e.rid = q.rid}}
       /\ \A p \in DOMAIN o.relsOf \ Slide :
            /\ o.relsOf[p] \cap Notes = {}
            /\ \A s \in o.relsOf[p] \cap Slide : p \in Notes /\ s \in slides /\ p \in o.relsOf[s]

VARIABLES
  original,   \* the presentation that was unpacked
  files,      \* parts in the directory
  relsOf,     \* .rels files, by the part they belong to
  presRels,   \* slides in presentation.xml.rels
  sldIdLst,   \* the slide list
  overrides,  \* parts with an Override in [Content_Types].xml
  uses,       \* parts the XML of a part refers to by a relationship ID
  faults,     \* what is wrong with the XML of a slide or chart
  printed,    \* entries add_slide.py printed that are not yet in the list
  pc,         \* where clean.py is: "idle", "files" or "types"
  removed     \* parts clean.py removed

slidesVars == <<original, files, relsOf, presRels, sldIdLst, overrides, uses, faults,
                printed, pc, removed>>
-----------------------------------------------------------------------------
Slides == files \cap Slide
Targets(rels) == UNION {rels[p] : p \in DOMAIN rels}
Without(rels, gone) == Restrict(rels, DOMAIN rels \ gone)

(* get_slides_in_sldidlst                                                  *)
Listed(list, pres) == {r.slide : r \in {q \in pres : \E e \in list : e.rid = q.rid}}

SlidesInit(originals) ==
  /\ original \in originals
  /\ files = original.files /\ relsOf = original.relsOf
  /\ presRels = original.presRels /\ sldIdLst = original.sldIdLst
  /\ overrides = original.files \ (Media \cup Trash)
  /\ uses = original.uses /\ faults = original.faults
  /\ printed = {} /\ pc = "idle" /\ removed = {}

SlidesLapses == IF files \cap Trash = {} THEN {} ELSE {"unclean"}

(* A step of the author or of add_slide.py.                                *)
Change(cost, lapse) ==
  /\ pc = "idle" /\ Edited(cost, MaxSlideEdits, lapse)
  /\ UNCHANGED <<original, pc, removed>>
-----------------------------------------------------------------------------
(* add_slide.py                                                            *)

(* get_next_slide_number                                                   *)
NextSlideNumber == Max(Slides \cup {0}) + 1

(* _get_next_slide_id: read off the list, to which nothing was added yet.  *)
NextSlideId == Max({e.id : e \in sldIdLst} \cup {255}) + 1

NextRid == Max({r.rid : r \in presRels} \cup {0}) + 1

(* _add_to_content_types                                                   *)
AddToContentTypes(n) == overrides' = overrides \cup {n}

(* _add_to_presentation_rels: nothing is written if n is a target already, *)
(* the fresh ID is printed all the same.                                   *)
AddToPresentationRels(n) ==
  /\ presRels' = presRels \cup
       (IF \E r \in presRels : r.slide = n THEN {} ELSE {[rid |-> NextRid, slide |-> n]})
  /\ printed' = printed \cup {[id |-> NextSlideId, rid |-> NextRid]}

(* Two slides added before the first is in the list are printed with one   *)
(* id; what was printed before a clean may name a slide it removed.        *)
AddSlide(n, rels, used, wrong) ==
  /\ n \in Slide
  /\ files' = files \cup {n}
  /\ relsOf' = rels
  /\ uses' = [uses EXCEPT ![n] = used] /\ faults' = [faults EXCEPT ![n] = wrong]
  /\ AddToContentTypes(n) /\ AddToPresentationRels(n)
  /\ UNCHANGED sldIdLst
  /\ Change(1, IF printed = {} THEN {} ELSE {"printed twice"})

(* create_slide_from_layout                                                *)
CreateSlideFromLayout(l) ==
  LET n == NextSlideNumber
  IN l \in files /\ AddSlide(n, [p \in DOMAIN relsOf \cup {n} |-> IF p = n THEN {l} ELSE relsOf[p]],
                             {}, {})

(* Mutant: the copy keeps the notes of its source.                         *)
CopiedRelsAll(s) == relsOf[s]
CopiedRels(s) == relsOf[s] \ Notes

(* duplicate_slide                                                         *)
DuplicateSlide(s) ==
  LET n == NextSlideNumber
  IN /\ s \in Slides
     /\ AddSlide(n, IF s \in DOMAIN relsOf
                    THEN [p \in DOMAIN relsOf \cup {n} |-> IF p = n THEN CopiedRels(s) ELSE relsOf[p]]
                    ELSE relsOf,
                 uses[s], faults[s])
-----------------------------------------------------------------------------
(* The author, by editing.md                                               *)

(* What was printed before a clean may name a slide that is gone.          *)
PasteSldId(e) ==
  /\ e \in printed \ sldIdLst
  /\ sldIdLst' = sldIdLst \cup {e} /\ printed' = printed \ {e}
  /\ Change(0, IF \E r \in presRels : r.rid = e.rid THEN {} ELSE {"stale entry"})
  /\ UNCHANGED <<files, relsOf, presRels, overrides, uses, faults>>

LinkedFromSlides == Targets(Restrict(relsOf, DOMAIN relsOf \cap Slide))

(* A slide that another one links to will leave a broken link.             *)
DeleteSldId(e) ==
  /\ e \in sldIdLst
  /\ sldIdLst' = sldIdLst \ {e}
  /\ Change(1, IF {r.slide : r \in {q \in presRels : q.rid = e.rid}} \cap LinkedFromSlides = {}
            THEN {} ELSE {"linked"})
  /\ UNCHANGED <<files, relsOf, presRels, overrides, uses, faults, printed>>

(* A picture or chart is taken off a slide: its element, its relationship  *)
(* or both.  To take the relationship only is a mistake.                   *)
EditSlide(s, p, what) ==
  /\ s \in Slides \cap DOMAIN relsOf /\ p \in relsOf[s] \cap Resource
  /\ uses' = [uses EXCEPT ![s] = @ \ (IF "element" \in what THEN {p} ELSE {})]
  /\ relsOf' = [relsOf EXCEPT ![s] = @ \ (IF "relationship" \in what THEN {p} ELSE {})]
  /\ Change(1, CASE what = {"element"} -> {}
                 [] what = {"relationship"} /\ p \in uses[s] -> {"unclean", "dropped"}
                 [] OTHER -> {"unclean"})
  /\ UNCHANGED <<files, presRels, sldIdLst, overrides, faults, printed>>

(* Another layout, in place of the one the slide has or, by mistake, too.  *)
Relayout(s, l, too) ==
  /\ s \in Slides \cap DOMAIN relsOf /\ l \in files \ relsOf[s]
  /\ relsOf' = [relsOf EXCEPT ![s] = (IF too THEN @ ELSE @ \ Layout) \cup {l}]
  /\ Change(1, IF too THEN {"two layouts"} ELSE {})
  /\ UNCHANGED <<files, presRels, sldIdLst, overrides, uses, faults, printed>>

Spoil(p, fault) ==
  /\ p \in files
  /\ faults' = [faults EXCEPT ![p] = @ \cup {fault}]
  /\ Change(1, {"faulty"})
  /\ UNCHANGED <<files, relsOf, presRels, sldIdLst, overrides, uses, printed>>
-----------------------------------------------------------------------------
(* clean.py.  Each turn of its loop is an action; an exception (a .rels    *)
(* file that does not parse) or an interrupt ends it between two.          *)

(* Comments and controls that no .rels file leads to.                      *)
Stranded(rels) == {p \in files \cap Unswept : p \notin Targets(rels)}

(* remove_orphaned_slides and remove_trash_directory.  With the last slide *)
(* that leads to a comment or a control goes its last reference.           *)
RemoveOrphanedSlides ==
  LET listed == Listed(sldIdLst, presRels)
      gone == Slides \ listed
  IN /\ pc = "idle" /\ pc' = "files"
     /\ files' = files \ (gone \cup Trash)
     /\ relsOf' = Without(relsOf, gone)
     /\ presRels' = IF gone = {} THEN presRels ELSE {r \in presRels : r.slide \in listed}
     /\ removed' = gone \cup (files \cap Trash)
     /\ verdict' = "none"
     /\ lapses' = lapses \cup (IF Stranded(relsOf') = {} THEN {} ELSE {"stranded"})
     /\ UNCHANGED <<original, sldIdLst, overrides, uses, faults, printed, edits>>

(* get_referenced_files; a layout is always some master's.                 *)
Referenced(rels) == Targets(rels) \cup {r.slide : r \in presRels} \cup Layout

(* get_slide_referenced_files, remove_orphaned_rels_files                  *)
OrphanedRels == {p \in DOMAIN relsOf \cap WithRels : p \notin files \/ p \notin LinkedFromSlides}

(* The directories that remove_orphaned_files goes through.                *)
Swept == files \cap (Resource \cup Theme \cup Notes)

(* Mutant: what slides refer to is kept, but not what charts refer to.     *)
OrphanedFilesOfSlides(rels) == {p \in Swept : p \notin LinkedFromSlides}
(* remove_orphaned_files                                                   *)
OrphanedFiles(rels) == {p \in Swept : p \notin Referenced(rels)}

(* Mutant: a single turn.                                                  *)
LoopsOnce(gone) == FALSE
(* Mutant: the loop goes on while there is a file left.                    *)
LoopsAlways(gone) == files # {}
Loops(gone) == gone # {}

(* One turn of the loop of clean_unused_files.                             *)
RemoveOrphanedFiles ==
  LET rels == Without(relsOf, OrphanedRels)
      gone == OrphanedFiles(rels)
      goneRels == {p \in DOMAIN rels : (p \in Theme /\ p \in gone) \/ (p \in Notes /\ p \notin files \ gone)}
  IN /\ pc = "files"
     /\ pc' = IF Loops(OrphanedRels \cup gone \cup goneRels) THEN "files" ELSE "types"
     /\ files' = files \ gone
     /\ relsOf' = Without(rels, goneRels)
     /\ removed' = removed \cup gone
     /\ UNCHANGED <<original, presRels, sldIdLst, overrides, uses, faults, printed, editingVars>>

(* Mutant: only the slides that were removed lose their Overrides.         *)
UndeclaredSlides == removed \cap Slide
Undeclared == removed

(* update_content_types                                                    *)
UpdateContentTypes ==
  /\ pc = "types" /\ pc' = "idle"
  /\ overrides' = overrides \ Undeclared
  /\ removed' = {}
  /\ lapses' = lapses \ {"unclean"}
  /\ UNCHANGED <<original, files, relsOf, presRels, sldIdLst, uses, faults, printed, verdict, edits>>

CleanFails ==
  /\ pc # "idle" /\ pc' = "idle"
  /\ removed' = {}
  /\ lapses' = lapses \cup {"interrupted", "unclean"}
  /\ UNCHANGED <<original, files, relsOf, presRels, sldIdLst, overrides, uses, faults, printed, verdict, edits>>
-----------------------------------------------------------------------------
(* PPTXSchemaValidator                                                     *)

WellFormed == \A p \in files \cap DOMAIN faults : "malformed" \notin faults[p]

(* Mutant: the relationship IDs are compared.                              *)
UniqueSlideRids == \A e, f \in sldIdLst : e.rid = f.rid => e = f
(* validate_unique_ids                                                     *)
UniqueSlideIds == \A e, f \in sldIdLst : e.id = f.id => e = f

(* validate_file_references                                                *)
FileReferences == Targets(relsOf) \subseteq files /\ files \subseteq Referenced(relsOf)

(* Of a part without a .rels file nothing is checked, and of the IDs in it *)
(* r:id, r:embed and r:link, but not those by which a slide refers to a    *)
(* diagram: r:dm, r:lo, r:qs and r:cs.                                     *)
RelationshipIds ==
  /\ \A p \in files \cap DOMAIN relsOf : uses[p] \ Diagram \subseteq relsOf[p]
  /\ \A e \in sldIdLst : \E r \in presRels : r.rid = e.rid

ContentTypes == files \cap (Slide \cup Layout) \subseteq overrides

(* _get_schema_path has a schema for charts and for the files directly in  *)
(* ppt/: slides, notes and layouts are never checked against one.          *)
HasSchema(p) == p \in Chart

(* validate_file_against_xsd: errors the original file has do not count.   *)
NewErrors(p) == faults[p] \ (IF p \in original.files THEN original.faults[p] ELSE {})
SchemaValid == \A p \in files \cap DOMAIN faults : HasSchema(p) => NewErrors(p) = {}

RelatedSlides(p) == {s \in DOMAIN relsOf \cap Slide : p \in relsOf[s]}
NotesOfOneSlide == \A p \in Notes : Cardinality(RelatedSlides(p)) <= 1

OneLayout == \A s \in DOMAIN relsOf \cap Slide : Cardinality(relsOf[s] \cap Layout) <= 1

(* validate                                                                *)
PresentationValid ==
  /\ WellFormed
  /\ UniqueSlideIds /\ FileReferences /\ ContentTypes /\ SchemaValid
  /\ NotesOfOneSlide /\ RelationshipIds /\ OneLayout

PackPresentation ==
  /\ pc = "idle"
  /\ Judged(IF PresentationValid THEN "packed" ELSE "refused")
  /\ UNCHANGED slidesVars
-----------------------------------------------------------------------------
Author ==
  \/ \E l \in Layout : CreateSlideFromLayout(l)
  \/ \E s \in Slide : DuplicateSlide(s)
  \/ \E e \in printed : PasteSldId(e)
  \/ \E e \in sldIdLst : DeleteSldId(e)
  \/ \E s \in Slide, p \in Resource, what \in SUBSET {"element", "relationship"} \ {{}} : EditSlide(s, p, what)
  \/ \E s \in Slide, l \in Layout, too \in BOOLEAN : Relayout(s, l, too)
  \/ \E p \in Slide \cup Chart, fault \in Fault \ {"old"} : Spoil(p, fault)

Clean == RemoveOrphanedFiles \/ UpdateContentTypes

SlidesNext == Author \/ RemoveOrphanedSlides \/ Clean \/ CleanFails \/ PackPresentation

-----------------------------------------------------------------------------
SlidesTypeOK ==
  /\ original \in Original
  /\ files \subseteq Part /\ overrides \subseteq Part /\ removed \subseteq Part
  /\ DOMAIN relsOf \subseteq Part /\ relsOf \in [DOMAIN relsOf -> SUBSET Part]
  /\ uses \in [Part -> SUBSET Part] /\ faults \in [Slide \cup Chart -> SUBSET Fault]
  /\ presRels \subseteq PresRel /\ sldIdLst \subseteq SldId /\ printed \subseteq SldId
  /\ pc \in {"idle", "files", "types"}

(* What a slide shows: the parts it refers to, and the parts that the      *)
(* charts and drawings among them refer to.                                *)
Direct(s) == IF s \in DOMAIN relsOf THEN relsOf[s] \cap files \cap (Resource \cup Theme) ELSE {}
Shown(s) ==
  Direct(s) \cup UNION {relsOf[c] \cap files \cap (Resource \cup Theme) :
                          c \in Direct(s) \cap WithRels \cap DOMAIN relsOf}

(* Whose turn it is.                                                       *)
Turn == IF pc # "idle" THEN "cleaning" ELSE IF verdict # "none" THEN "judged" ELSE "edited"

(* The slides of the deck change by the author's hand only: cleaning takes *)
(* no part that a listed slide shows, whatever else goes (clean.py         *)
(* removes files for good), and a slide that is added takes nothing from   *)
(* the others.  A picture only a chart of a drawing refers to is not       *)
(* covered: clean_unused_files does remove it.                             *)
AsDeck == INSTANCE Deck WITH Page <- Slide, Item <- Resource \cup Theme,
                             deck <- [s \in Listed(sldIdLst, presRels) |-> Shown(s)],
                             pages <- Slides, turn <- Turn
DeckSpec == AsDeck!Spec

(* When the loop of clean_unused_files ends, all that is left in the       *)
(* package is reached, in however many steps from one .rels file to the    *)
(* next, from a listed slide, a layout or a part that clean.py never       *)
(* removes: each turn may make orphans for the next, and references among  *)
(* orphans must not keep them.                                             *)
NothingLeftBehind ==
  pc = "types" =>
    \A kept \in SUBSET files :
      /\ files \cap (Listed(sldIdLst, presRels) \cup Layout \cup Unswept) \subseteq kept
      /\ \A p \in kept \cap DOMAIN relsOf : relsOf[p] \cap files \subseteq kept
      => kept = files

(* A part is declared only if it is there, or will be undeclared when the  *)
(* cleaning ends.  A cleaning that was interrupted forgets what it has     *)
(* removed (all_removed is a local of clean_unused_files).                 *)
DeclaredPartsExist == "interrupted" \notin lapses => overrides \subseteq files \cup removed

(* A presentation that pack.py let through opens: its list has no two      *)
(* slides of one ID, each names a slide that is there, and whatever a part *)
(* of the package refers to in its XML is there, by a relationship, but    *)
(* for diagrams, which pack.py does not look for, and for what a chart or  *)
(* drawing that is on no slide itself refers to: its .rels file is gone.   *)
PackedOpens ==
  verdict = "packed" =>
    /\ \A e \in sldIdLst :
         /\ \A f \in sldIdLst : e.id = f.id => e = f
         /\ \E r \in presRels : r.rid = e.rid /\ r.slide \in files
    /\ \A p \in files \ (WithRels \ LinkedFromSlides), q \in Part \ Diagram :
         q \in uses[p] => p \in DOMAIN relsOf /\ q \in relsOf[p] \cap files

(* Cleaning comes to an end: every turn but the last removes something.    *)
CleanEnds == pc = "files" ~> pc # "files"
=============================================================================
