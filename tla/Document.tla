------------------------------ MODULE Document ------------------------------
(***************************************************************************)
(* An unpacked Word document under the edits of an author who works by     *)
(* SKILL.md (as "Claude"), comment.py, and the validators and repairs that *)
(* pack.py and validate.py run.  The body is Redline's.                    *)
(*                                                                         *)
(* A definition whose comment starts with "Mutant:" is a faulty variant of *)
(* the definition below it; no specification uses it.                      *)
(***************************************************************************)
EXTENDS Redline, Editing, FiniteSetsExt

CONSTANTS
  Documents,  \* documents that may be unpacked
  CommentId,  \* the numbers given to comments
  MaxIds,     \* bound: paragraph and durable IDs
  MaxDocumentEdits  \* bound: edits and comments

(* comments.xml, commentsExtended.xml, commentsIds.xml and                 *)
(* commentsExtensible.xml.                                                 *)
CommentPart == {"comments", "extended", "ids", "extensible"}

(* The IDs _generate_hex_id draws are taken to be fresh; 0 is a durable ID *)
(* that is too large.  The IDs of a document that is unpacked are numbered *)
(* so that a parent's is below its replies', and its parts agree.  A       *)
(* repair draws one more than the bound of comments.                       *)
HexId == 0 .. MaxIds
DrawnId == 0 .. MaxIds + 1
TooLarge == 0

ASSUME DocumentAssumption ==
  /\ MaxIds \in Nat /\ MaxDocumentEdits \in Nat
  /\ "Claude" \in Person /\ "plain" \in Format /\ "new" \in Char
  /\ \A c \in Documents :
       /\ c.body \in Body
       /\ c.faults \subseteq {"old"} /\ c.parts \subseteq CommentPart
       /\ c.comments \subseteq CommentId \X HexId /\ c.extended \subseteq HexId \X HexId
       /\ c.ids \subseteq HexId \X HexId /\ c.extensible \subseteq HexId
       /\ {e[1] : e \in c.extended} = {k[1] : k \in c.ids}
       /\ {e[1] : e \in c.extended} \subseteq {k[2] : k \in c.comments}
       /\ {k[2] : k \in c.ids} = c.extensible
       /\ \A e \in c.extended : e[2] # 0 => e[2] < e[1] /\ e[2] \in {k[2] : k \in c.comments}

VARIABLES
  originalBody,  \* of the file that was unpacked
  body,          \* word/document.xml
  packedBody,    \* that of the last file packed
  parts,         \* comment parts in the directory
  related,       \* comment parts in document.xml.rels
  comments,      \* <<ID, paragraph>>
  extended,      \* <<paragraph, its parent's or 0>>
  ids,           \* <<paragraph, durable ID>>
  extensible,    \* durable IDs
  used,          \* the last ID drawn
  starts, ends, references,  \* comment IDs marked in the body
  bodyFaults     \* what is wrong with the XML of the body

bodyVars == <<originalBody, body, packedBody, bodyFaults>>
commentVars == <<parts, related, comments, extended, ids, extensible, used>>
markerVars == <<starts, ends, references>>
documentVars == <<bodyVars, commentVars, markerVars>>
-----------------------------------------------------------------------------
(* What the text of the unpacked body has lost: xml:space where a newline  *)
(* is at an end.                                                           *)
LostWhitespace == ~WhitespacePreserved(RepairWhitespace(body))

DocumentInit(documents) ==
  /\ \E d \in documents :
       /\ originalBody = d.body /\ bodyFaults = d.faults
       /\ parts = d.parts /\ related = d.parts
       /\ comments = d.comments /\ extended = d.extended /\ ids = d.ids /\ extensible = d.extensible
       /\ starts = {k[1] : k \in d.comments} /\ ends = starts /\ references = starts
       /\ used = Max({0} \cup {k[2] : k \in d.comments} \cup {k[2] : k \in d.ids})
  /\ \E simplify, merge \in BOOLEAN : body = Unpack(originalBody, simplify, merge)
  /\ packedBody = <<>>
-----------------------------------------------------------------------------
(* The author edits the body                                               *)

EditBody(p, i, nodes, lapse) ==
  /\ body' = [body EXCEPT ![p] = SubSeq(@, 1, i - 1) \o nodes \o SubSeq(@, i + 1, Len(@))]
  /\ Edited(1, MaxDocumentEdits, lapse)
  /\ UNCHANGED <<originalBody, packedBody, bodyFaults, commentVars, markerVars>>

IsText(n) == n.kind = "run" /\ n.ts # <<>> /\ \A k \in DOMAIN n.ts : n.ts[k].tag = "t"
Deleted(run) == [run EXCEPT !.ts = [k \in DOMAIN @ |-> DelText(@[k].text, @[k].keep)]]
Restored(run) == [run EXCEPT !.ts = [k \in DOMAIN @ |-> T(@[k].text, @[k].keep)]]
TextsIn(wrap) == UNION {Range(wrap.kids[k].ts) : k \in DOMAIN wrap.kids}

(* A careful author keeps xml:space where a newline is in a text.          *)
NewlineLapse(written) ==
  IF \E t \in written : ~t.keep /\ "newline" \in Range(t.text) THEN {"newline"} ELSE {}

(* A run is deleted from its cut on.  Its parts may lose xml:space: spaces *)
(* and tabs are repaired, in a w:t only.                                   *)
TrackDelete(p, i, cut, keep) ==
  LET n == body[p][i]
      t == n.ts[1]
      rest == Run(n.fmt, <<T(SubSeq(t.text, cut + 1, Len(t.text)), keep)>>)
      before == IF cut = 0 THEN <<>> ELSE <<Run(n.fmt, <<T(SubSeq(t.text, 1, cut), keep)>>)>>
  IN /\ IsText(n) /\ Len(n.ts) = 1 /\ cut < Len(t.text)
     /\ EditBody(p, i, before \o <<Del("Claude", <<Deleted(rest)>>)>>,
                 NewlineLapse({T(t.text, keep)}))

(* A space is forgotten in xml:space now and then: it is repaired.         *)
TrackInsert(p, i, keep) ==
  EditBody(p, i, <<body[p][i], Ins("Claude", <<Run("plain", <<T(<<"space", "new">>, keep)>>)>>)>>, {})

(* Another's insertion is rejected by a deletion inside.                   *)
RejectInsertion(p, i) ==
  LET n == body[p][i]
  IN /\ n.kind = "ins" /\ n.author # "Claude" /\ \A k \in DOMAIN n.kids : IsText(n.kids[k])
     /\ EditBody(p, i, <<Ins(n.author, <<Del("Claude", [k \in DOMAIN n.kids |-> Deleted(n.kids[k])])>>)>>, {})

(* Another's deletion is undone by an insertion after it.                  *)
RestoreDeletion(p, i) ==
  LET n == body[p][i]
  IN /\ n.kind = "del" /\ n.author # "Claude" /\ \A k \in DOMAIN n.kids : n.kids[k].kind = "run"
     /\ EditBody(p, i, <<n, Ins("Claude", [k \in DOMAIN n.kids |-> Restored(n.kids[k])])>>,
                 NewlineLapse(TextsIn(n)))

(* An own change is taken back.                                            *)
Undo(p, i) ==
  LET n == body[p][i]
  IN /\ IsWrap(n) /\ n.author = "Claude" /\ \A k \in DOMAIN n.kids : n.kids[k].kind = "run"
     /\ EditBody(p, i, IF n.kind = "ins" THEN <<>> ELSE [k \in DOMAIN n.kids |-> Restored(n.kids[k])],
                 IF n.kind = "ins" THEN {} ELSE NewlineLapse(TextsIn(n)))

(* Mistakes: an edit that is not tracked, of the text of a run or of       *)
(* another's insertion, and a deletion whose w:t is not renamed.           *)
EditUntracked(p, i) ==
  LET n == body[p][i]
  IN /\ IsText(n) \/ (n.kind = "ins" /\ n.author # "Claude")
     /\ EditBody(p, i, <<Run("plain", <<T(<<"new">>, FALSE)>>)>>, {"untracked"})

DeleteText(p, i) ==
  IsText(body[p][i]) /\ EditBody(p, i, <<Del("Claude", <<body[p][i]>>)>>, {"text in deletion"})

SpoilBody(fault) ==
  /\ bodyFaults' = bodyFaults \cup {fault}
  /\ Edited(1, MaxDocumentEdits, {"faulty"})
  /\ UNCHANGED <<originalBody, body, packedBody, commentVars, markerVars>>
-----------------------------------------------------------------------------
(* comment.py                                                              *)

(* Mutant: parent and child are swapped.                                   *)
ExtendedSwapped(para, parent) == extended \cup {IF parent = 0 THEN <<para, 0>> ELSE <<parent, para>>}
Extended(para, parent) == extended \cup {<<para, parent>>}

(* _find_para_id: comments.xml has the new comment already.                *)
ParasOf(cid, known) == {k[2] : k \in {c \in known : c[1] = cid}}

(* _ensure_comment_relationships, _ensure_comment_content_types: for the   *)
(* first comment only, and for all four parts then.                        *)
Related == IF "comments" \in parts THEN related ELSE IF "comments" \in related THEN related ELSE CommentPart

(* What a careful author avoids: a number twice, parts that are there in   *)
(* part, a reply to a comment that is not there or to itself.              *)
CommentLapse(cid, parent) ==
  (IF cid \in {k[1] : k \in comments} THEN {"number twice"} ELSE {})
    \cup (IF parts \in {{}, CommentPart} THEN {} ELSE {"older document"})
    \cup (IF parent = cid THEN {"reply to itself"} ELSE {})

(* add_comment; parent 0 is none.  A reply whose parent is not found ends  *)
(* here with the comment written and its IDs not.                          *)
AddComment(cid, parent) ==
  LET para == used + 1
      durable == used + 2
      known == comments \cup {<<cid, para>>}
      found == parent = 0 \/ ParasOf(parent, known) # {}
  IN /\ used + 2 <= MaxIds
     /\ used' = used + 2
     /\ comments' = known /\ related' = Related
     /\ IF found
        THEN /\ parts' = CommentPart
             /\ extended' = Extended(para, IF parent = 0 THEN 0 ELSE Min(ParasOf(parent, known)))
             /\ ids' = ids \cup {<<para, durable>>}
             /\ extensible' = extensible \cup {durable}
             /\ Edited(1, MaxDocumentEdits, CommentLapse(cid, parent))
        ELSE /\ parts' = parts \cup {"comments", "extended"}
             /\ Edited(1, MaxDocumentEdits, CommentLapse(cid, parent) \cup {"failed reply"})
             /\ UNCHANGED <<extended, ids, extensible>>
     /\ UNCHANGED <<bodyVars, markerVars>>

(* The author marks the range of a comment, or only where it starts.       *)
MarkComment(cid, whole) ==
  /\ cid \notin starts
  /\ starts' = starts \cup {cid}
  /\ IF whole THEN ends' = ends \cup {cid} /\ references' = references \cup {cid}
              ELSE UNCHANGED <<ends, references>>
  /\ Edited(1, MaxDocumentEdits, IF ~whole THEN {"half marked"}
               ELSE IF cid \in {k[1] : k \in comments} THEN {} ELSE {"marked early"})
  /\ UNCHANGED <<bodyVars, commentVars>>
-----------------------------------------------------------------------------
(* DOCXSchemaValidator and its repairs                                     *)

(* repair_durableId: commentsIds.xml only, and so not what the IDs were    *)
(* the same as in commentsExtensible.xml.                                  *)
RepairDurableId(known) == {<<k[1], IF k[2] = TooLarge THEN used + 1 ELSE k[2]>> : k \in known}

(* repair, which passes over a file that does not parse.                   *)
Repair ==
  /\ body' = IF "malformed" \in bodyFaults THEN body ELSE RepairWhitespace(body)
  /\ ids' = RepairDurableId(ids)
  /\ used' = IF ids' = ids THEN used ELSE used + 1

UniqueCommentIds == \A a, b \in comments : a[1] = b[1] => a = b

(* Markers are compared with the comments only if there are any.           *)
CommentMarkersValid ==
  /\ starts = ends
  /\ "comments" \in parts => starts \cup ends \cup references \subseteq {k[1] : k \in comments}

(* validate_xml, and validate_file_references for the comment parts.       *)
BodyWellFormed == "malformed" \notin bodyFaults
CommentPartsRelated == parts = related

(* Errors of the schema in the body; those that the original had too are   *)
(* passed over, if the file is compared with it.                           *)
SchemaErrors == bodyFaults \ {"malformed"}
OriginalErrors(against) == IF against THEN {"old"} ELSE {}
DocumentSchemaValid(against) == SchemaErrors \subseteq OriginalErrors(against)

DurableIdsValid(identified) == \A k \in identified : k[2] # TooLarge

(* validate, of a directory with this body and these IDs, against the      *)
(* original or on its own.  A body that does not parse ends it.            *)
DocumentValid(text, identified, against) ==
  /\ BodyWellFormed
  /\ UniqueCommentIds /\ CommentPartsRelated
  /\ DocumentSchemaValid(against)
  /\ WhitespacePreserved(text) /\ DeletionsValid(text) /\ InsertionsValid(text)
  /\ DurableIdsValid(identified) /\ CommentMarkersValid
  /\ against => Redlined(originalBody, text, "Claude")

(* Why a file may be refused as it is unpacked: its text lost xml:space,   *)
(* or it was not valid before.                                             *)
DocumentLapses ==
  (IF LostWhitespace THEN {"newline"} ELSE {})
    \cup (IF DeletionsValid(originalBody) /\ InsertionsValid(originalBody) /\ UniqueCommentIds
          THEN {} ELSE {"invalid file"})

(* What is repaired stays so when the file is refused.                     *)
PackDocument ==
  /\ Repair
  /\ IF DocumentValid(body', ids', TRUE)
     THEN Judged("packed") /\ packedBody' = Condense(body')
     ELSE Judged("refused") /\ UNCHANGED packedBody
  /\ UNCHANGED <<originalBody, bodyFaults, parts, related, comments, extended, extensible, markerVars>>

(* validate.py, with or without --original and --auto-repair.              *)
ValidateDocument(against, repair) ==
  /\ IF repair THEN Repair ELSE UNCHANGED <<body, ids, used>>
  /\ Judged(IF DocumentValid(body', ids', against) THEN "valid" ELSE "invalid")
  /\ UNCHANGED <<originalBody, packedBody, bodyFaults, parts, related, comments, extended, extensible, markerVars>>
-----------------------------------------------------------------------------
DocumentNext ==
  \/ \E p \in DOMAIN body : \E i \in DOMAIN body[p] :
       \/ \E cut \in 0 .. 1, keep \in BOOLEAN : TrackDelete(p, i, cut, keep)
       \/ \E keep \in BOOLEAN : TrackInsert(p, i, keep)
       \/ RejectInsertion(p, i) \/ RestoreDeletion(p, i) \/ Undo(p, i)
       \/ EditUntracked(p, i) \/ DeleteText(p, i)
  \/ \E fault \in {"new", "malformed"} : SpoilBody(fault)
  \/ \E cid \in CommentId, parent \in CommentId \cup {0} : AddComment(cid, parent)
  \/ \E cid \in CommentId, whole \in BOOLEAN : MarkComment(cid, whole)
  \/ PackDocument
  \/ \E against, repair \in BOOLEAN : ValidateDocument(against, repair)
-----------------------------------------------------------------------------
DocumentTypeOK ==
  /\ originalBody \in {d.body : d \in Documents}
  /\ body \in Body /\ packedBody \in Body /\ Len(body) = Len(originalBody)
  /\ bodyFaults \subseteq Fault
  /\ parts \subseteq CommentPart /\ related \subseteq CommentPart
  /\ comments \subseteq CommentId \X HexId /\ extended \subseteq HexId \X HexId
  /\ ids \subseteq HexId \X DrawnId /\ extensible \subseteq HexId /\ used \in DrawnId
  /\ \A marked \in {starts, ends, references} : marked \subseteq CommentId

(* Each letter of a body with its format and the changes it is part of.    *)
Letters(b) ==
  LET InText(e) == [k \in DOMAIN e.t.text |-> <<e.t.text[k], e.t.tag, e.fmt, e.ins, e.del>>]
      InParagraph(texts) == FlattenSeq([i \in DOMAIN texts |-> InText(texts[i])])
  IN [p \in DOMAIN b |-> InParagraph(Texts(b[p]))]

(* Merging runs and tracked changes when a document is unpacked changes no *)
(* letter, no format and no author of a change.                            *)
UnpackKeepsText == edits = 0 => Letters(body) = Letters(originalBody)

(* What Word shows: ends without xml:space are cut off.                    *)
Trimmed(text) ==
  LET inner == {k \in DOMAIN text : text[k] \notin Blank}
  IN IF inner = {} THEN <<>> ELSE SubSeq(text, Min(inner), Max(inner))
Read(b) == OnTs([t \in Text |-> IF t.keep THEN t ELSE [t EXCEPT !.text = Trimmed(@)]], b)

(* A deletion that packing would harm: blank, or with an end that is not   *)
(* kept (_condense_xml spares w:t only, as does the repair).               *)
HarmlessDeletions ==
  \A e \in AllTexts(body) : e.t.tag = "delText" => ~OnlyBlank(e.t.text) /\ (EdgeIn(e.t.text, Blank) => e.t.keep)

(* Who rejects the changes by Claude in a packed file reads what the       *)
(* original said: edits are tracked, and no space went with the repairs    *)
(* and the condensing.  A file in which no change by Claude is left is     *)
(* not compared at all, and deletions of blanks do lose them.              *)
PackedRestores ==
  verdict = "packed" /\ ChangedBy(body, "Claude") /\ HarmlessDeletions =>
    TextContent(Read(packedBody), "Claude") = TextContent(originalBody, "Claude")

(* The parts of the comments agree: what is in one of the later three is   *)
(* in the others and in comments.xml, and the parent of a reply is an      *)
(* earlier comment, even after a reply that failed half-way.  A durable ID *)
(* that was repaired differs between its two parts from then on.           *)
CommentsAgree ==
  /\ {e[1] : e \in extended} = {k[1] : k \in ids}
  /\ {e[1] : e \in extended} \subseteq {k[2] : k \in comments}
  /\ TooLarge \notin extensible => {k[2] : k \in ids} = extensible
  /\ "reply to itself" \notin lapses =>
       \A e \in extended : e[2] # 0 => e[2] < e[1] /\ e[2] \in {k[2] : k \in comments}
=============================================================================
