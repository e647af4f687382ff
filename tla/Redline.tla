------------------------------ MODULE Redline -------------------------------
(***************************************************************************)
(* The body of a Word document and what the scripts compute on it: the     *)
(* merging of tracked changes and runs when a file is unpacked, the text   *)
(* that is left when an author's changes are rejected, the repair and the  *)
(* check of whitespace, and the condensing of the packed file.             *)
(*                                                                         *)
(* A paragraph is a sequence of nodes: a run, an element that stands       *)
(* between runs (a bookmark), a proofErr, or a wrapper (ins, del) of an    *)
(* author around nodes.  A wrapper may hold one of the other kind, not     *)
(* more.  A text is a sequence of characters: letters and the three kinds  *)
(* of space.                                                               *)
(*                                                                         *)
(* A definition whose comment starts with "Mutant:" is a faulty variant of *)
(* the definition below it; no specification uses it.                      *)
(***************************************************************************)
EXTENDS Naturals, Sequences, SequencesExt

CONSTANTS
  Char,    \* the characters
  Format,  \* the formats of runs
  Person   \* who may have changed something

Blank == {"space", "tab", "newline"}
NoAuthor == "nobody"

ASSUME RedlineAssumption == Blank \subseteq Char /\ NoAuthor \notin Person

(* w:t and w:delText; keep is xml:space="preserve".                        *)
T(text, keep) == [tag |-> "t", text |-> text, keep |-> keep]
DelText(text, keep) == [tag |-> "delText", text |-> text, keep |-> keep]

Run(fmt, ts) == [kind |-> "run", fmt |-> fmt, ts |-> ts]
Mark == [kind |-> "mark"]
ProofErr == [kind |-> "proofErr"]
Ins(author, kids) == [kind |-> "ins", author |-> author, kids |-> kids]
Del(author, kids) == [kind |-> "del", author |-> author, kids |-> kids]
IsWrap(n) == n.kind \in {"ins", "del"}

Text == [tag : {"t", "delText"}, text : Seq(Char), keep : BOOLEAN]
RunNode == [kind : {"run"}, fmt : Format, ts : Seq(Text)]
PlainNode == RunNode \cup {Mark, ProofErr}
Wrap(kind, nodes) == [kind : {kind}, author : Person, kids : Seq(nodes)]
Node ==
  PlainNode \cup Wrap("ins", PlainNode \cup Wrap("del", PlainNode))
            \cup Wrap("del", PlainNode \cup Wrap("ins", PlainNode))
Body == Seq(Seq(Node))

EdgeIn(text, S) == text # <<>> /\ (Head(text) \in S \/ Last(text) \in S)
OnlyBlank(text) == \A k \in DOMAIN text : text[k] \in Blank

(* The texts of a paragraph in order, each with its format and the authors *)
(* of the insertion and of the deletion that hold it, if any.              *)
RunTexts(run, ins, del) == [k \in DOMAIN run.ts |-> [t |-> run.ts[k], fmt |-> run.fmt, ins |-> ins, del |-> del]]
InnerTexts(nodes, ins, del) ==
  FlattenSeq([i \in DOMAIN nodes |-> IF nodes[i].kind = "run" THEN RunTexts(nodes[i], ins, del) ELSE <<>>])
WrapTexts(nodes, ins, del) ==
  FlattenSeq([i \in DOMAIN nodes |->
     LET n == nodes[i]
     IN CASE n.kind = "run" -> RunTexts(n, ins, del)
          [] n.kind = "ins" -> InnerTexts(n.kids, n.author, del)
          [] n.kind = "del" -> InnerTexts(n.kids, ins, n.author)
          [] OTHER -> <<>>])
Texts(paragraph) ==
  FlattenSeq([i \in DOMAIN paragraph |->
     LET n == paragraph[i]
     IN CASE n.kind = "run" -> RunTexts(n, NoAuthor, NoAuthor)
          [] n.kind = "ins" -> WrapTexts(n.kids, n.author, NoAuthor)
          [] n.kind = "del" -> WrapTexts(n.kids, NoAuthor, n.author)
          [] OTHER -> <<>>])

(* F on every run, at any depth.                                           *)
OnInnerRuns(F(_), nodes) ==
  [i \in DOMAIN nodes |-> IF nodes[i].kind = "run" THEN F(nodes[i]) ELSE nodes[i]]
OnWrapRuns(F(_), nodes) ==
  [i \in DOMAIN nodes |-> IF nodes[i].kind = "run" THEN F(nodes[i])
                          ELSE IF IsWrap(nodes[i]) THEN [nodes[i] EXCEPT !.kids = OnInnerRuns(F, @)]
                          ELSE nodes[i]]
OnRuns(F(_), body) ==
  [p \in DOMAIN body |->
     [i \in DOMAIN body[p] |-> IF body[p][i].kind = "run" THEN F(body[p][i])
                               ELSE IF IsWrap(body[p][i]) THEN [body[p][i] EXCEPT !.kids = OnWrapRuns(F, @)]
                               ELSE body[p][i]]]

(* f on every text.                                                        *)
OnTs(f, body) ==
  LET OnRun(run) == [run EXCEPT !.ts = [k \in DOMAIN @ |-> f[@[k]]]]
  IN OnRuns(OnRun, body)
-----------------------------------------------------------------------------
(* Unpacking: helpers/simplify_redlines.py, then helpers/merge_runs.py     *)

(* Elements that fit are merged with the one before, others follow it.     *)
Merged(Fit(_, _), Merge(_, _), s) ==
  LET Next(done, e) == IF done # <<>> /\ Fit(Last(done), e)
                       THEN Append(Front(done), Merge(Last(done), e)) ELSE Append(done, e)
      merged[i \in 0 .. Len(s)] == IF i = 0 THEN <<>> ELSE Next(merged[i - 1], s[i])
  IN merged[Len(s)]

(* Mutant: the changes of two authors are merged.                          *)
CanMergeAnyTracked(a, b) == IsWrap(a) /\ a.kind = b.kind
(* _can_merge_tracked: one kind, one author, nothing between.              *)
CanMergeTracked(a, b) == IsWrap(a) /\ a.kind = b.kind /\ a.author = b.author
MergeTracked(a, b) == [a EXCEPT !.kids = @ \o b.kids]

(* Mutant: changes are merged across paragraphs.                           *)
SimplifyAcross(body) == <<Merged(CanMergeTracked, MergeTracked, FlattenSeq(body))>>
(* simplify_redlines                                                       *)
Simplify(body) == [p \in DOMAIN body |-> Merged(CanMergeTracked, MergeTracked, body[p])]

(* _consolidate_text: xml:space is set for the spaces at the ends of what  *)
(* was merged and taken away otherwise, whatever other blanks are there.   *)
BothTexts(a, b) == a.tag = "t" /\ b.tag = "t"
JoinTexts(a, b) == T(a.text \o b.text, EdgeIn(a.text \o b.text, {"space"}))
ConsolidateText(run) == [run EXCEPT !.ts = Merged(BothTexts, JoinTexts, @)]

CanMerge(a, b) == a.kind = "run" /\ b.kind = "run" /\ a.fmt = b.fmt
MergeRunContent(a, b) == [a EXCEPT !.ts = @ \o b.ts]

(* _merge_runs_in, for the nodes of one container.                         *)
WithoutProofErr(nodes) ==
  FlattenSeq([i \in DOMAIN nodes |-> IF nodes[i] = ProofErr THEN <<>> ELSE <<nodes[i]>>])
MergeRunsIn(nodes) ==
  OnInnerRuns(ConsolidateText, Merged(CanMerge, MergeRunContent, WithoutProofErr(nodes)))

(* merge_runs: paragraphs and tracked changes alike.                       *)
MergeRuns(body) ==
  LET InWrap(nodes) == [i \in DOMAIN nodes |->
                          IF IsWrap(nodes[i]) THEN [nodes[i] EXCEPT !.kids = MergeRunsIn(@)] ELSE nodes[i]]
      InParagraph(nodes) == [i \in DOMAIN nodes |->
                          IF IsWrap(nodes[i]) THEN [nodes[i] EXCEPT !.kids = InWrap(MergeRunsIn(@))] ELSE nodes[i]]
  IN [p \in DOMAIN body |-> InParagraph(MergeRunsIn(body[p]))]

(* unpack, with its two options.                                           *)
Unpack(body, simplify, merge) ==
  LET simplified == IF simplify THEN Simplify(body) ELSE body
  IN IF merge THEN MergeRuns(simplified) ELSE simplified
-----------------------------------------------------------------------------
(* RedliningValidator                                                      *)

(* The text of a paragraph when the changes of one author are rejected:    *)
(* _remove_author_tracked_changes removes the insertions and lifts the     *)
(* deletions, whose delText becomes text; those of others stay.            *)
TextLeft(e, who) == IF e.ins # who /\ (e.t.tag = "t" \/ e.del = who) THEN e.t.text ELSE <<>>
TextWithout(paragraph, who) ==
  LET texts == Texts(paragraph) IN FlattenSeq([k \in DOMAIN texts |-> TextLeft(texts[k], who)])

(* _extract_text_content: a paragraph without text leaves no line.         *)
TextContent(body, who) ==
  LET lines == SelectSeq([p \in DOMAIN body |-> TextWithout(body[p], who)], LAMBDA line : line # <<>>)
  IN FlattenSeq([i \in DOMAIN lines |-> IF i = 1 THEN lines[i] ELSE <<"newline">> \o lines[i]])

ChangedBy(body, who) ==
  LET By(n) == IsWrap(n) /\ n.author = who
  IN \E p \in DOMAIN body : \E n \in Range(body[p]) :
       By(n) \/ (IsWrap(n) /\ \E m \in Range(n.kids) : By(m))

(* validate: with no change of the author left nothing is compared.        *)
Redlined(original, body, who) ==
  ChangedBy(body, who) => TextContent(body, who) = TextContent(original, who)
-----------------------------------------------------------------------------
(* Whitespace and the other checks of DOCXSchemaValidator on the body      *)

(* repair_whitespace_preservation knows spaces and tabs.                   *)
RepairWhitespace(body) ==
  OnTs([t \in Text |-> [t EXCEPT !.keep = @ \/ (t.tag = "t" /\ EdgeIn(t.text, {"space", "tab"}))]], body)

AllTexts(body) == UNION {Range(Texts(body[p])) : p \in DOMAIN body}

WhitespacePreserved(body) ==
  \A e \in AllTexts(body) : e.t.tag = "t" /\ EdgeIn(e.t.text, Blank) => e.t.keep

DeletionsValid(body) == \A e \in AllTexts(body) : e.del # NoAuthor => e.t.tag = "delText" \/ e.t.text = <<>>

InsertionsValid(body) == \A e \in AllTexts(body) : e.ins # NoAuthor /\ e.del = NoAuthor => e.t.tag = "t"

(* Mutant: no text is spared.                                              *)
CondenseAll(body) == OnTs([t \in Text |-> IF OnlyBlank(t.text) THEN [t EXCEPT !.text = <<>>] ELSE t], body)
(* _condense_xml: blank text outside of w:t goes, that of w:delText too.   *)
Condense(body) ==
  OnTs([t \in Text |-> IF t.tag # "t" /\ OnlyBlank(t.text) THEN [t EXCEPT !.text = <<>>] ELSE t], body)
=============================================================================
