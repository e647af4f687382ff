---------------------------- MODULE OfficeProofs ----------------------------
(***************************************************************************)
(* Theorems about Office files: the parts that hold a comment agree, for   *)
(* any number of comments; recalc.py reports what is so; every format      *)
(* keeps its types; unpacking a document keeps its text, and packing it    *)
(* restores it; and pack.py refuses nothing of a careful author.           *)
(***************************************************************************)
EXTENDS SlidesProofs, RedlineProofs

(* What the parts of the comments need: no ID was drawn twice.             *)
Drawn ==
  /\ used \in Nat
  /\ comments \subseteq CommentId \X Nat /\ \A k \in comments : k[2] <= used
  /\ extended \subseteq Nat \X Nat /\ ids \subseteq Nat \X Nat

CommentsInv == Drawn /\ CommentsAgree /\ (suffix # ".docx" => extended = {})

(* A set of naturals has a minimum, which is what Min gives.               *)
LEMMA NaturalsHaveMin ==
  ASSUME NEW S \in SUBSET Nat, S # {}
  PROVE  Min(S) \in S
<1>1. IsWellFoundedOn({ss \in Nat \X Nat : ss[1] < ss[2]}, Nat)
  BY NatLessThanWellFounded DEF OpToRel
<1>2. PICK m \in S : \A c \in S : <<c, m>> \notin {ss \in Nat \X Nat : ss[1] < ss[2]}
  BY <1>1, WFMin
<1>3. ASSUME NEW c \in S PROVE m <= c
  <2>1. <<c, m>> \in Nat \X Nat /\ <<c, m>>[1] = c /\ <<c, m>>[2] = m
    OBVIOUS
  <2>2. ~(<<c, m>>[1] < <<c, m>>[2])
    BY <1>2, <2>1, Zenon
  <2> QED BY <2>1, <2>2
<1> QED BY <1>3 DEF Min

(* The documents that are unpacked have parts that agree.                  *)
LEMMA CommentsInit == Init => CommentsInv
<1> SUFFICES ASSUME Init PROVE CommentsInv
  OBVIOUS
<1>1. PICK d \in (IF suffix = ".docx" THEN Documents ELSE {NoDocument}) :
        /\ comments = d.comments /\ extended = d.extended
        /\ ids = d.ids /\ extensible = d.extensible
        /\ used = Max({0} \cup {k[2] : k \in d.comments} \cup {k[2] : k \in d.ids})
  BY DEF Init, DocumentInit
<1> DEFINE drawn == {0} \cup {k[2] : k \in d.comments} \cup {k[2] : k \in d.ids}
<1>2. CASE suffix = ".docx"
  <2>1. d \in Documents
    BY <1>1, <1>2
  <2>2. /\ MaxIds \in Nat
        /\ d.comments \subseteq CommentId \X HexId /\ d.extended \subseteq HexId \X HexId
        /\ d.ids \subseteq HexId \X HexId /\ d.extensible \subseteq HexId
    BY <2>1, DocumentAssumption
  <2>3. drawn \in SUBSET Nat /\ drawn # {} /\ \A x \in drawn : x <= MaxIds
    BY <2>2 DEF HexId
  <2>4. Max(drawn) \in drawn /\ \A x \in drawn : x <= Max(drawn)
    <3> HIDE DEF drawn
    <3> QED BY <2>2, <2>3, BoundedHasMax
  <2>5. used \in Nat /\ \A k \in comments : k[2] <= used
    <3>1. used = Max(drawn) /\ \A k \in comments : k[2] \in drawn
      BY <1>1
    <3> HIDE DEF drawn
    <3> QED BY <2>3, <2>4, <3>1
  <2>6. Drawn
    BY <1>1, <2>2, <2>5 DEF Drawn, HexId
  <2>7. CommentsAgree
    <3>1. /\ {e[1] : e \in d.extended} = {k[1] : k \in d.ids}
          /\ {e[1] : e \in d.extended} \subseteq {k[2] : k \in d.comments}
          /\ {k[2] : k \in d.ids} = d.extensible
          /\ \A e \in d.extended : e[2] # 0 => e[2] < e[1] /\ e[2] \in {k[2] : k \in d.comments}
      BY <2>1, DocumentAssumption
    <3> QED BY <1>1, <3>1 DEF CommentsAgree
  <2> QED BY <1>2, <2>6, <2>7 DEF CommentsInv
<1>3. CASE suffix # ".docx"
  <2>1. comments = {} /\ extended = {} /\ ids = {} /\ extensible = {}
    BY <1>1, <1>3 DEF NoDocument
  <2>2. d.comments = {} /\ d.ids = {}
    BY <1>1, <2>1
  <2>3. drawn \in SUBSET Nat /\ drawn # {} /\ \A x \in drawn : x <= 0
    BY <2>2
  <2>4. Max(drawn) \in drawn
    <3> HIDE DEF drawn
    <3> QED BY <2>3, BoundedHasMax
  <2>5. used \in Nat
    <3>1. used = Max(drawn)
      BY <1>1
    <3> HIDE DEF drawn
    <3> QED BY <2>3, <2>4, <3>1
  <2> QED BY <2>1, <2>5 DEF CommentsInv, Drawn, CommentsAgree
<1> QED BY <1>2, <1>3

(* repair_durableId keeps the agreement: the IDs it replaces are too large *)
(* in both parts.                                                          *)
LEMMA RepairKeepsIds ==
  ASSUME Drawn, CommentsAgree, ids' = RepairDurableId(ids),
         used' = IF ids' = ids THEN used ELSE used + 1,
         UNCHANGED <<comments, extended, extensible, lapses>>
  PROVE  Drawn' /\ CommentsAgree'
<1>1. ids' \subseteq Nat \X Nat
  BY DEF Drawn, RepairDurableId
<1>2. {k[1] : k \in ids'} = {k[1] : k \in ids}
  <2> DEFINE repaired(k) == <<k[1], IF k[2] = TooLarge THEN used + 1 ELSE k[2]>>
  <2>1. ids' = {repaired(k) : k \in ids}
    BY DEF RepairDurableId
  <2>2. \A k \in ids : repaired(k)[1] = k[1]
    OBVIOUS
  <2> HIDE DEF repaired
  <2> QED BY <2>1, <2>2
<1>3. used' \in Nat /\ used <= used'
  BY DEF Drawn
<1>4. ASSUME TooLarge \notin extensible PROVE {k[2] : k \in ids'} = extensible
  <2>1. {k[2] : k \in ids} = extensible
    BY <1>4 DEF CommentsAgree
  <2>2. \A k \in ids : k[2] # TooLarge
    BY <1>4, <2>1
  <2>3. ids' = ids
    BY <2>2 DEF Drawn, RepairDurableId
  <2> QED BY <2>1, <2>3
<1>5. Drawn'
  BY <1>1, <1>3 DEF Drawn
<1> QED BY <1>2, <1>4, <1>5 DEF CommentsAgree
-----------------------------------------------------------------------------
(* comment.py: the new comment's ID is above those of its parent.          *)
LEMMA AddCommentKeeps ==
  ASSUME Drawn, CommentsAgree, NEW cid \in CommentId, NEW parent \in CommentId \cup {0},
         AddComment(cid, parent)
  PROVE  Drawn' /\ CommentsAgree'
<1> DEFINE para == used + 1
           durable == used + 2
           known == comments \cup {<<cid, para>>}
           above == IF parent = 0 THEN 0 ELSE Min(ParasOf(parent, known))
<1>1. comments' = known /\ used' = used + 2
  BY DEF AddComment
<1>2. used' \in Nat /\ comments' \subseteq CommentId \X Nat /\ \A k \in comments' : k[2] <= used'
  BY <1>1 DEF Drawn
<1>3. lapses' = lapses \cup CommentLapse(cid, parent) \/ lapses' = lapses \cup (CommentLapse(cid, parent) \cup {"failed reply"})
  BY DEF AddComment, Edited
<1>4. CASE parent = 0 \/ ParasOf(parent, known) # {}
  <2>1. /\ extended' = extended \cup {<<para, above>>}
        /\ ids' = ids \cup {<<para, durable>>} /\ extensible' = extensible \cup {durable}
    BY <1>4 DEF AddComment, Extended
  <2>2. ParasOf(parent, known) \in SUBSET Nat
    BY <1>1, <1>2 DEF ParasOf
  <2>3. above \in Nat /\ (parent # 0 => above \in ParasOf(parent, known))
    BY <1>4, <2>2, NaturalsHaveMin
  <2>4. "reply to itself" \notin lapses' => parent # cid
    BY <1>3 DEF CommentLapse
  <2>5. parent # 0 /\ parent # cid => above < para /\ above \in {k[2] : k \in comments}
    <3> SUFFICES ASSUME parent # 0, parent # cid
                 PROVE  above < para /\ above \in {k[2] : k \in comments}
      OBVIOUS
    <3> HIDE DEF above
    <3>1. PICK k \in known : k[1] = parent /\ k[2] = above
      BY <2>3 DEF ParasOf
    <3>2. k \in comments
      BY <3>1
    <3> QED BY <3>1, <3>2 DEF Drawn
  <2> HIDE DEF above
  <2>6. extended' \subseteq Nat \X Nat /\ ids' \subseteq Nat \X Nat
    BY <2>1, <2>3 DEF Drawn
  <2>7. {e[1] : e \in extended'} = {e[1] : e \in extended} \cup {para}
    <3> DEFINE z == <<para, above>>
    <3>1. extended' = extended \cup {z} /\ z[1] = para
      BY <2>1
    <3> HIDE DEF z, para
    <3> QED BY <3>1
  <2>8. {k[1] : k \in ids'} = {k[1] : k \in ids} \cup {para} /\ {k[2] : k \in ids'} = {k[2] : k \in ids} \cup {durable}
    <3> DEFINE z == <<para, durable>>
    <3>1. ids' = ids \cup {z} /\ z[1] = para /\ z[2] = durable
      BY <2>1
    <3> HIDE DEF z, para, durable
    <3> QED BY <3>1
  <2>9. {k[2] : k \in comments'} = {k[2] : k \in comments} \cup {para}
    <3> DEFINE z == <<cid, para>>
    <3>1. comments' = comments \cup {z} /\ z[2] = para
      BY <1>1
    <3> HIDE DEF z, para
    <3> QED BY <3>1
  <2>10. ASSUME "reply to itself" \notin lapses', NEW e \in extended', e[2] # 0
         PROVE  e[2] < e[1] /\ e[2] \in {k[2] : k \in comments'}
    <3>1. "reply to itself" \notin lapses
      BY <1>3, <2>10
    <3>2. CASE e \in extended
      BY <2>9, <2>10, <3>1, <3>2 DEF CommentsAgree
    <3>3. CASE e = <<para, above>>
      <4>1. above # 0
        BY <2>10, <3>3
      <4>2. parent # 0
        BY <4>1 DEF above
      <4> QED BY <2>4, <2>5, <2>9, <2>10, <3>3, <4>2
    <3> QED BY <2>1, <3>2, <3>3
  <2>11. TooLarge \notin extensible' => {k[2] : k \in ids'} = extensible'
    BY <2>1, <2>8 DEF CommentsAgree
  <2> HIDE DEF para, durable, known
  <2>12. CommentsAgree'
    BY <2>7, <2>8, <2>9, <2>10, <2>11 DEF CommentsAgree
  <2> QED BY <1>2, <2>6, <2>12 DEF Drawn
<1>5. CASE ~(parent = 0 \/ ParasOf(parent, known) # {})
  <2>1. UNCHANGED <<extended, ids, extensible>>
    BY <1>5 DEF AddComment
  <2>2. {k[2] : k \in comments} \subseteq {k[2] : k \in comments'}
    BY <1>1
  <2>3. "reply to itself" \notin lapses' => "reply to itself" \notin lapses
    BY <1>3
  <2>4. CommentsAgree'
    BY <2>1, <2>2, <2>3 DEF CommentsAgree
  <2> QED BY <1>2, <2>1, <2>4 DEF Drawn
<1> QED BY <1>4, <1>5

(* Steps that leave the comments alone, whatever they do to the body.      *)
LEMMA OtherStepsKeep ==
  ASSUME Drawn, CommentsAgree, UNCHANGED commentVars, lapses \subseteq lapses'
  PROVE  Drawn' /\ CommentsAgree'
<1>1. UNCHANGED <<comments, extended, ids, extensible, used>>
  BY DEF commentVars
<1> QED BY <1>1 DEF Drawn, CommentsAgree

LEMMA DocumentKeepsComments ==
  ASSUME Drawn, CommentsAgree, DocumentNext
  PROVE  Drawn' /\ CommentsAgree'
<1>1. CASE \E p \in DOMAIN body : \E i \in DOMAIN body[p] :
             \/ \E cut \in 0 .. 1, keep \in BOOLEAN : TrackDelete(p, i, cut, keep)
             \/ \E keep \in BOOLEAN : TrackInsert(p, i, keep)
             \/ RejectInsertion(p, i) \/ RestoreDeletion(p, i) \/ Undo(p, i)
             \/ EditUntracked(p, i) \/ DeleteText(p, i)
  <2>1. UNCHANGED commentVars /\ lapses \subseteq lapses'
    <3>1. ASSUME NEW p, NEW i, NEW nodes, NEW lapse, EditBody(p, i, nodes, lapse)
          PROVE  UNCHANGED commentVars /\ lapses \subseteq lapses'
      BY <3>1 DEF EditBody, Edited
    <3>2. PICK p \in DOMAIN body : \E i \in DOMAIN body[p] :
             \/ \E cut \in 0 .. 1, keep \in BOOLEAN : TrackDelete(p, i, cut, keep)
             \/ \E keep \in BOOLEAN : TrackInsert(p, i, keep)
             \/ RejectInsertion(p, i) \/ RestoreDeletion(p, i) \/ Undo(p, i)
             \/ EditUntracked(p, i) \/ DeleteText(p, i)
      BY <1>1
    <3>3. PICK i \in DOMAIN body[p] :
             \/ \E cut \in 0 .. 1, keep \in BOOLEAN : TrackDelete(p, i, cut, keep)
             \/ \E keep \in BOOLEAN : TrackInsert(p, i, keep)
             \/ RejectInsertion(p, i) \/ RestoreDeletion(p, i) \/ Undo(p, i)
             \/ EditUntracked(p, i) \/ DeleteText(p, i)
      BY <3>2
    <3>4. ASSUME NEW cut, NEW keep, TrackDelete(p, i, cut, keep)
          PROVE  UNCHANGED commentVars /\ lapses \subseteq lapses'
      BY <3>1, <3>4, Zenon DEF TrackDelete
    <3>5. ASSUME NEW keep, TrackInsert(p, i, keep)
          PROVE  UNCHANGED commentVars /\ lapses \subseteq lapses'
      BY <3>1, <3>5, Zenon DEF TrackInsert
    <3>6. CASE RejectInsertion(p, i) \/ RestoreDeletion(p, i) \/ Undo(p, i)
      BY <3>1, <3>6, Zenon DEF RejectInsertion, RestoreDeletion, Undo
    <3>7. CASE EditUntracked(p, i) \/ DeleteText(p, i)
      BY <3>1, <3>7, Zenon DEF EditUntracked, DeleteText
    <3> QED BY <3>3, <3>4, <3>5, <3>6, <3>7
  <2> QED BY <2>1, OtherStepsKeep
<1>2. CASE \E fault \in {"new", "malformed"} : SpoilBody(fault)
  <2>1. UNCHANGED commentVars /\ lapses \subseteq lapses'
    BY <1>2 DEF SpoilBody, Edited
  <2> QED BY <2>1, OtherStepsKeep
<1>3. CASE \E cid \in CommentId, parent \in CommentId \cup {0} : AddComment(cid, parent)
  BY <1>3, AddCommentKeeps
<1>4. CASE \E cid \in CommentId, whole \in BOOLEAN : MarkComment(cid, whole)
  <2>1. UNCHANGED commentVars /\ lapses \subseteq lapses'
    BY <1>4 DEF MarkComment, Edited
  <2> QED BY <2>1, OtherStepsKeep
<1>5. CASE PackDocument
  <2>1. ids' = RepairDurableId(ids) /\ used' = IF ids' = ids THEN used ELSE used + 1
    BY <1>5 DEF PackDocument, Repair
  <2>2. UNCHANGED <<comments, extended, extensible>> /\ UNCHANGED lapses
    BY <1>5 DEF PackDocument, Judged
  <2> QED BY <2>1, <2>2, RepairKeepsIds
<1>6. ASSUME NEW against \in BOOLEAN, NEW repair \in BOOLEAN, ValidateDocument(against, repair)
      PROVE  Drawn' /\ CommentsAgree'
  <2>1. UNCHANGED <<comments, extended, extensible>> /\ UNCHANGED lapses
    BY <1>6 DEF ValidateDocument, Judged
  <2>2. CASE repair
    <3>1. ids' = RepairDurableId(ids) /\ used' = IF ids' = ids THEN used ELSE used + 1
      BY <1>6, <2>2 DEF ValidateDocument, Repair
    <3> QED BY <2>1, <3>1, RepairKeepsIds
  <2>3. CASE ~repair
    <3>1. UNCHANGED <<ids, used>>
      BY <1>6, <2>3 DEF ValidateDocument
    <3> QED BY <2>1, <3>1 DEF Drawn, CommentsAgree
  <2> QED BY <2>2, <2>3
<1> QED BY <1>1, <1>2, <1>3, <1>4, <1>5, <1>6 DEF DocumentNext

LEMMA CommentsNext == CommentsInv /\ [Next]_vars => CommentsInv'
<1> SUFFICES ASSUME CommentsInv, [Next]_vars PROVE CommentsInv'
  OBVIOUS
<1>1. CASE TextDocument
  BY <1>1, DocumentKeepsComments DEF TextDocument, CommentsInv
<1>2. CASE UNCHANGED <<suffix, commentVars>> /\ (suffix # ".docx" \/ UNCHANGED lapses)
  <2>1. UNCHANGED <<comments, extended, ids, extensible, used, suffix>>
    BY <1>2 DEF commentVars
  <2>2. Drawn'
    BY <2>1 DEF CommentsInv, Drawn
  <2>3. CommentsAgree'
    BY <1>2, <2>1 DEF CommentsInv, CommentsAgree
  <2> QED BY <2>1, <2>2, <2>3 DEF CommentsInv
<1>3. CASE Presentation \/ Spreadsheet \/ PackWorkbook \/ UNCHANGED vars
  <2>1. UNCHANGED <<suffix, documentVars>> /\ (suffix # ".docx" \/ UNCHANGED lapses)
    BY <1>3 DEF Presentation, Spreadsheet, PackWorkbook, vars, editingVars
  <2> QED BY <1>2, <2>1 DEF documentVars
<1> QED BY <1>1, <1>3 DEF Next

(* Whatever comments are added, replied to, half written and repaired, the *)
(* parts that hold them agree.                                             *)
THEOREM CommentPartsAgree == Spec => []CommentsAgree
<1>1. CommentsInv => CommentsAgree
  BY DEF CommentsInv
<1> QED BY <1>1, CommentsInit, CommentsNext, PTL DEF Spec
-----------------------------------------------------------------------------
(* What an author writes is of the types of a body.                        *)
LEMMA SeqWidens ==
  ASSUME NEW R, NEW S, NEW s \in Seq(R), \A k \in DOMAIN s : s[k] \in S
  PROVE  s \in Seq(S)
<1>1. s = [k \in DOMAIN s |-> s[k]]
  OBVIOUS
<1> QED BY <1>1, EachTypedSeq

LEMMA RunsMade ==
  /\ \A text \in Seq(Char), keep \in BOOLEAN : T(text, keep) \in Text /\ DelText(text, keep) \in Text
  /\ \A fmt \in Format, ts \in Seq(Text) : Run(fmt, ts) \in RunNode
<1>1. \A text \in Seq(Char), keep \in BOOLEAN : T(text, keep) \in Text /\ DelText(text, keep) \in Text
  BY DEF T, DelText, Text
<1>2. \A fmt \in Format, ts \in Seq(Text) : Run(fmt, ts) \in RunNode
  BY DEF Run, RunNode
<1> QED BY <1>1, <1>2

LEMMA WrapsMade ==
  ASSUME NEW author \in Person
  PROVE  /\ \A kids \in Seq(KidsOf("ins")) : Ins(author, kids) \in Node
         /\ \A kids \in Seq(KidsOf("del")) : Del(author, kids) \in Node
         /\ \A kids \in Seq(PlainNode) : Ins(author, kids) \in Node /\ Del(author, kids) \in Node
         /\ \A kids \in Seq(PlainNode) : Del(author, kids) \in KidsOf("ins")
<1>1. KidsOf("ins") = PlainNode \cup Wrap("del", PlainNode) /\ KidsOf("del") = PlainNode \cup Wrap("ins", PlainNode)
  BY DEF KidsOf
<1>2. \A kids \in Seq(KidsOf("ins")) : Ins(author, kids) \in Wrap("ins", KidsOf("ins"))
  BY DEF Ins, Wrap
<1>3. \A kids \in Seq(KidsOf("del")) : Del(author, kids) \in Wrap("del", KidsOf("del"))
  BY DEF Del, Wrap
<1>4. Wrap("ins", KidsOf("ins")) \subseteq Node /\ Wrap("del", KidsOf("del")) \subseteq Node
  BY <1>1 DEF Node
<1>5. \A kids \in Seq(PlainNode) : kids \in Seq(KidsOf("ins")) /\ kids \in Seq(KidsOf("del"))
  <2> DEFINE I == KidsOf("ins")
             D == KidsOf("del")
  <2>1. PlainNode \subseteq I /\ PlainNode \subseteq D
    BY <1>1
  <2> HIDE DEF I, D
  <2>2. \A kids \in Seq(PlainNode) : kids \in Seq(I) /\ kids \in Seq(D)
    BY <2>1, SeqWidens, LenProperties
  <2> QED BY <2>2 DEF I, D
<1>6. \A kids \in Seq(PlainNode) : Del(author, kids) \in Wrap("del", PlainNode)
  BY DEF Del, Wrap
<1> QED BY <1>1, <1>2, <1>3, <1>4, <1>5, <1>6

(* The nodes of an edit, in the paragraph for one of its nodes.            *)
LEMMA SplicedTyped ==
  ASSUME NEW b \in Body, NEW p \in DOMAIN b, NEW i \in DOMAIN b[p], NEW nodes \in Seq(Node)
  PROVE  [b EXCEPT ![p] = SubSeq(@, 1, i - 1) \o nodes \o SubSeq(@, i + 1, Len(@))] \in Body
<1> DEFINE s == b[p]
           before == SubSeq(s, 1, i - 1)
           after == SubSeq(s, i + 1, Len(s))
           spliced == before \o nodes \o after
           c == [b EXCEPT ![p] = spliced]
<1>1. \A q \in DOMAIN b : b[q] \in Seq(Node)
  BY LenProperties DEF Body
<1>2. s \in Seq(Node) /\ i \in 1 .. Len(s) /\ Len(s) \in Nat /\ \A k \in 1 .. Len(s) : s[k] \in Node
  BY <1>1, LenProperties
<1> HIDE DEF s
<1>3. before \in Seq(Node)
  <2>1. \A k \in 1 .. i - 1 : s[k] \in Node
    BY <1>2
  <2>2. 1 \in Int /\ i - 1 \in Int
    BY <1>2
  <2> QED BY <2>1, <2>2, SubSeqProperties
<1>4. after \in Seq(Node)
  <2>1. \A k \in i + 1 .. Len(s) : s[k] \in Node
    BY <1>2
  <2>2. i + 1 \in Int /\ Len(s) \in Int
    BY <1>2
  <2> QED BY <2>1, <2>2, SubSeqProperties
<1> HIDE DEF before, after
<1>5. spliced \in Seq(Node)
  BY <1>3, <1>4, ConcatProperties
<1> HIDE DEF spliced
<1>6. DOMAIN c = DOMAIN b /\ c = [q \in DOMAIN c |-> c[q]] /\ \A q \in DOMAIN b : c[q] \in Seq(Node)
  BY <1>1, <1>5
<1> HIDE DEF c
<1>7. c \in Body
  BY <1>6, EachTypedSeq DEF Body
<1> QED BY <1>7 DEF c, spliced, before, after, s

LEMMA NodeOfBody ==
  ASSUME NEW b \in Body, NEW p \in DOMAIN b, NEW i \in DOMAIN b[p]
  PROVE  b[p][i] \in Node
<1>1. b[p] \in Seq(Node)
  BY LenProperties DEF Body
<1> QED BY <1>1, LenProperties

LEMMA AuthorIsPerson == "Claude" \in Person /\ "plain" \in Format /\ "new" \in Char /\ Blank \subseteq Char
BY DocumentAssumption, RedlineAssumption

LEMMA NewRun ==
  ASSUME NEW fmt \in Format, NEW text \in Seq(Char), NEW keep \in BOOLEAN
  PROVE  Run(fmt, <<T(text, keep)>>) \in RunNode
<1> DEFINE t == T(text, keep)
<1>1. t \in Text
  BY RunsMade
<1>2. <<t>> \in Seq(Text)
  <2> HIDE DEF t
  <2> QED BY <1>1
<1> QED BY <1>2, RunsMade

-----------------------------------------------------------------------------
(* Letters reads a body text by text.                                      *)
LetterOf == [e \in Entry |-> [k \in DOMAIN e.t.text |-> <<e.t.text[k], e.t.tag, e.fmt, e.ins, e.del>>]]
Letter == {<<c, tag, fmt, ins, del>> : c \in Char, tag \in {"t", "delText"}, fmt \in Format, ins \in Holder, del \in Holder}

MapsConcat(g, s, t) == Mapped(g, s \o t) = Mapped(g, s) \o Mapped(g, t)

LEMMA MapConcat ==
  ASSUME NEW S, NEW W, NEW g \in [S -> W], NEW s \in Seq(S), NEW t \in Seq(S)
  PROVE  MapsConcat(g, s, t)
<1> DEFINE m == Len(s)
           n == Len(t)
           st == s \o t
           a == Mapped(g, s)
           b == Mapped(g, t)
           c == Mapped(g, st)
           ab == a \o b
<1>1. /\ m \in Nat /\ n \in Nat /\ DOMAIN s = 1 .. m /\ DOMAIN t = 1 .. n
      /\ st \in Seq(S) /\ Len(st) = m + n /\ DOMAIN st = 1 .. Len(st)
      /\ \A k \in 1 .. m + n : st[k] = IF k <= m THEN s[k] ELSE t[k - m]
  BY ConcatProperties, LenProperties
<1>2. /\ DOMAIN a = DOMAIN s /\ \A k \in DOMAIN s : a[k] = g[s[k]]
      /\ DOMAIN b = DOMAIN t /\ \A k \in DOMAIN t : b[k] = g[t[k]]
      /\ DOMAIN c = DOMAIN st /\ \A k \in DOMAIN st : c[k] = g[st[k]]
  BY DEF Mapped
<1>3. a \in Seq(W) /\ b \in Seq(W) /\ c \in Seq(W)
  <2> HIDE DEF st
  <2> QED BY <1>1, MapTyped
<1> HIDE DEF m, n, st, a, b, c
<1>4. DOMAIN a = 1 .. Len(a) /\ Len(a) \in Nat /\ DOMAIN b = 1 .. Len(b) /\ Len(b) \in Nat
      /\ DOMAIN c = 1 .. Len(c) /\ Len(c) \in Nat
  BY <1>3, LenProperties
<1>5. Len(a) = m /\ Len(b) = n /\ Len(c) = m + n
  BY <1>1, <1>2, <1>4
<1>6. ab \in Seq(W) /\ Len(ab) = m + n /\ \A k \in 1 .. m + n : ab[k] = IF k <= m THEN a[k] ELSE b[k - m]
  BY <1>1, <1>3, <1>5, ConcatProperties
<1> HIDE DEF ab
<1>7. ASSUME NEW k \in 1 .. m + n PROVE c[k] = ab[k]
  <2>1. CASE k <= m
    <3>1. k \in 1 .. m
      BY <1>1, <2>1
    <3>2. c[k] = g[st[k]] /\ st[k] = s[k]
      BY <1>1, <1>2, <2>1
    <3>3. ab[k] = a[k] /\ a[k] = g[s[k]]
      BY <1>1, <1>2, <1>6, <2>1, <3>1
    <3> QED BY <3>2, <3>3
  <2>2. CASE k > m
    <3>1. k - m \in 1 .. n /\ ~(k <= m)
      BY <1>1, <2>2
    <3>2. c[k] = g[st[k]] /\ st[k] = t[k - m]
      BY <1>1, <1>2, <3>1
    <3>3. ab[k] = b[k - m] /\ b[k - m] = g[t[k - m]]
      BY <1>1, <1>2, <1>6, <3>1
    <3> QED BY <3>2, <3>3
  <2> QED BY <1>1, <2>1, <2>2
<1>8. c = ab
  BY <1>3, <1>5, <1>6, <1>7, SeqEqual
<1> QED BY <1>8 DEF MapsConcat, c, ab, a, b, st

LetterIn(tag, fmt, ins, del) == [c \in Char |-> <<c, tag, fmt, ins, del>>]
LettersOf(text, tag, fmt, ins, del) == [k \in DOMAIN text |-> <<text[k], tag, fmt, ins, del>>]

LEMMA LettersOfText ==
  ASSUME NEW text \in Seq(Char), NEW tag \in {"t", "delText"},
         NEW fmt \in Format, NEW ins \in Holder, NEW del \in Holder
  PROVE  /\ LetterIn(tag, fmt, ins, del) \in [Char -> Letter]
         /\ LettersOf(text, tag, fmt, ins, del) = Mapped(LetterIn(tag, fmt, ins, del), text)
         /\ LettersOf(text, tag, fmt, ins, del) \in Seq(Letter)
<1> DEFINE l == LetterIn(tag, fmt, ins, del)
<1>1. l \in [Char -> Letter]
  BY DEF Letter, LetterIn
<1>2. \A k \in DOMAIN text : text[k] \in Char
  BY LenProperties
<1>3. LettersOf(text, tag, fmt, ins, del) = Mapped(l, text)
  BY <1>2 DEF Mapped, LettersOf, LetterIn
<1> HIDE DEF l
<1>4. Mapped(l, text) \in Seq(Letter)
  BY <1>1, MapTyped
<1> QED BY <1>1, <1>3, <1>4 DEF l

LEMMA LettersTyped == Additive(LetterOf, Letter)
<1>1. ASSUME NEW e \in Entry
      PROVE  /\ LetterOf[e] = LettersOf(e.t.text, e.t.tag, e.fmt, e.ins, e.del)
             /\ e.t.text \in Seq(Char) /\ e.t.tag \in {"t", "delText"}
             /\ e.fmt \in Format /\ e.ins \in Holder /\ e.del \in Holder
  BY DEF LetterOf, LettersOf, Entry, Text
<1>2. ASSUME NEW e \in Entry PROVE LetterOf[e] \in Seq(Letter)
  <2> DEFINE text == e.t.text
             tag == e.t.tag
             fmt == e.fmt
             ins == e.ins
             del == e.del
  <2>1. /\ LetterOf[e] = LettersOf(text, tag, fmt, ins, del)
        /\ text \in Seq(Char) /\ tag \in {"t", "delText"} /\ fmt \in Format /\ ins \in Holder /\ del \in Holder
    BY <1>1
  <2> HIDE DEF text, tag, fmt, ins, del
  <2> QED BY <2>1, LettersOfText
<1>3. LetterOf \in [Entry -> Seq(Letter)]
  <2>1. LetterOf = [e \in Entry |-> LetterOf[e]]
    BY DEF LetterOf
  <2> QED BY <1>2, <2>1
<1>4. ASSUME NEW x \in Text, NEW y \in Text, NEW fmt \in Format, NEW ins \in Holder, NEW del \in Holder, BothTexts(x, y)
      PROVE  LetterOf[EntryOf(JoinTexts(x, y), fmt, ins, del)]
               = LetterOf[EntryOf(x, fmt, ins, del)] \o LetterOf[EntryOf(y, fmt, ins, del)]
  <2> DEFINE j == JoinTexts(x, y)
             xy == x.text \o y.text
             l == LetterIn("t", fmt, ins, del)
  <2>1. x.text \in Seq(Char) /\ y.text \in Seq(Char) /\ x.tag = "t" /\ y.tag = "t"
    BY <1>4 DEF Text, BothTexts
  <2>2. xy \in Seq(Char)
    BY <2>1, ConcatProperties
  <2>3. j \in Text /\ j.text = xy /\ j.tag = "t"
    <3>1. EdgeIn(xy, {"space"}) \in BOOLEAN
      BY DEF EdgeIn
    <3> HIDE DEF xy
    <3>2. j = [tag |-> "t", text |-> xy, keep |-> EdgeIn(xy, {"space"})]
      BY DEF JoinTexts, T, xy
    <3> HIDE DEF j
    <3> QED BY <2>2, <3>1, <3>2 DEF Text
  <2>4. ASSUME NEW t \in Text, t.tag = "t" PROVE LetterOf[EntryOf(t, fmt, ins, del)] = Mapped(l, t.text)
    <3> DEFINE e == EntryOf(t, fmt, ins, del)
    <3>1. e \in Entry /\ e.t = t /\ e.fmt = fmt /\ e.ins = ins /\ e.del = del /\ t.text \in Seq(Char)
      BY DEF EntryOf, Entry, Text
    <3> HIDE DEF e
    <3>2. LetterOf[e] = LettersOf(t.text, "t", fmt, ins, del)
      BY <1>1, <2>4, <3>1
    <3> QED BY <3>1, <3>2, LettersOfText DEF e
  <2>5. l \in [Char -> Letter]
    BY <2>1, LettersOfText
  <2> DEFINE s == x.text
             u == y.text
  <2>6. Mapped(l, s \o u) = Mapped(l, s) \o Mapped(l, u)
    <3>1. s \in Seq(Char) /\ u \in Seq(Char)
      BY <2>1
    <3>2. MapsConcat(l, s, u)
      <4> HIDE DEF l, s, u
      <4> QED BY <2>5, <3>1, MapConcat
    <3> QED BY <3>2 DEF MapsConcat
  <2> HIDE DEF l, j
  <2> QED BY <2>1, <2>3, <2>4, <2>6 DEF j
<1> QED BY <1>3, <1>4 DEF Additive

LEMMA LettersAre ==
  ASSUME NEW b \in Body
  PROVE  Letters(b) = [p \in DOMAIN b |-> Each(LetterOf, Texts(b[p]))]
<1> DEFINE InText(e) == [k \in DOMAIN e.t.text |-> <<e.t.text[k], e.t.tag, e.fmt, e.ins, e.del>>]
           Of(texts) == FlattenSeq([i \in DOMAIN texts |-> InText(texts[i])])
<1>1. Letters(b) = [p \in DOMAIN b |-> Of(Texts(b[p]))]
  BY Zenon DEF Letters
<1>2. ASSUME NEW p \in DOMAIN b PROVE Of(Texts(b[p])) = Each(LetterOf, Texts(b[p]))
  <2> DEFINE texts == Texts(b[p])
  <2>1. texts \in Seq(Entry)
    <3>1. b[p] \in Seq(Node)
      BY LenProperties DEF Body
    <3> QED BY <3>1, TextsAre
  <2> HIDE DEF texts
  <2>2. \A i \in DOMAIN texts : texts[i] \in Entry
    BY <2>1, LenProperties
  <2>3. \A e \in Entry : InText(e) = LetterOf[e]
    BY DEF LetterOf
  <2>4. [i \in DOMAIN texts |-> InText(texts[i])] = Mapped(LetterOf, texts)
    <3> HIDE DEF InText
    <3> QED BY <2>2, <2>3 DEF Mapped
  <2>5. Of(texts) = Each(LetterOf, texts)
    <3> HIDE DEF InText
    <3> QED BY <2>4, Zenon DEF Each
  <2> QED BY <2>5 DEF texts
<1> HIDE DEF Of
<1> QED BY <1>1, <1>2

(* Unpacking keeps every letter, and so does the repair of whitespace.     *)
LEMMA UnpackLetters ==
  ASSUME NEW b \in Body, NEW simplify \in BOOLEAN, NEW merge \in BOOLEAN
  PROVE  /\ Unpack(b, simplify, merge) \in Body /\ DOMAIN Unpack(b, simplify, merge) = DOMAIN b
         /\ Letters(Unpack(b, simplify, merge)) = Letters(b)
<1> DEFINE u == Unpack(b, simplify, merge)
<1>1. u \in Body /\ DOMAIN u = DOMAIN b /\ \A p \in DOMAIN b : Each(LetterOf, Texts(u[p])) = Each(LetterOf, Texts(b[p]))
  BY LettersTyped, UnpackKeeps
<1> HIDE DEF u
<1> QED BY <1>1, LettersAre DEF u

RepairOf == [t \in Text |-> [t EXCEPT !.keep = @ \/ (t.tag = "t" /\ EdgeIn(t.text, {"space", "tab"}))]]

LEMMA RepairOfTyped ==
  /\ RepairOf \in [Text -> Text]
  /\ \A t \in Text : RepairOf[t].text = t.text /\ RepairOf[t].tag = t.tag
<1>1. ASSUME NEW t \in Text
      PROVE  /\ RepairOf[t] \in Text /\ RepairOf[t].text = t.text /\ RepairOf[t].tag = t.tag
  <2> DEFINE keep == t.keep \/ (t.tag = "t" /\ EdgeIn(t.text, {"space", "tab"}))
  <2>1. keep \in BOOLEAN
    BY DEF Text
  <2>2. RepairOf[t] = [t EXCEPT !.keep = keep]
    BY DEF RepairOf
  <2> HIDE DEF keep
  <2> QED BY <2>1, <2>2 DEF Text
<1>2. RepairOf = [t \in Text |-> RepairOf[t]]
  BY DEF RepairOf
<1> QED BY <1>1, <1>2

LEMMA RepairLetters ==
  ASSUME NEW b \in Body
  PROVE  /\ RepairWhitespace(b) \in Body /\ DOMAIN RepairWhitespace(b) = DOMAIN b
         /\ Letters(RepairWhitespace(b)) = Letters(b)
<1> DEFINE u == OnTs(RepairOf, b)
<1>1. RepairWhitespace(b) = u
  BY Zenon DEF RepairWhitespace, RepairOf
<1>2. LetterOf \in [Entry -> Seq(Letter)]
  BY LettersTyped DEF Additive
<1>3. After(RepairOf, LetterOf) = LetterOf
  <2>1. ASSUME NEW e \in Entry PROVE LetterOf[EntryOf(RepairOf[e.t], e.fmt, e.ins, e.del)] = LetterOf[e]
    <3> DEFINE c == EntryOf(RepairOf[e.t], e.fmt, e.ins, e.del)
    <3>1. e.t \in Text /\ e.fmt \in Format /\ e.ins \in Holder /\ e.del \in Holder
      BY DEF Entry
    <3>2. RepairOf[e.t] \in Text /\ RepairOf[e.t].text = e.t.text /\ RepairOf[e.t].tag = e.t.tag
      BY <3>1, RepairOfTyped
    <3>3. c \in Entry /\ c.t.text = e.t.text /\ c.t.tag = e.t.tag /\ c.fmt = e.fmt /\ c.ins = e.ins /\ c.del = e.del
      BY <3>1, <3>2 DEF EntryOf, Entry
    <3> HIDE DEF c
    <3>4. LetterOf[c] = LetterOf[e]
      BY <3>3 DEF LetterOf
    <3> QED BY <3>4 DEF c
  <2>2. LetterOf = [e \in Entry |-> LetterOf[e]]
    BY DEF LetterOf
  <2> QED BY <2>1, <2>2 DEF After
<1>4. u \in Body /\ DOMAIN u = DOMAIN b /\ \A p \in DOMAIN b : Each(LetterOf, Texts(u[p])) = Each(After(RepairOf, LetterOf), Texts(b[p]))
  BY <1>2, RepairOfTyped, OnTsReads
<1> HIDE DEF u
<1> QED BY <1>1, <1>3, <1>4, LettersAre
-----------------------------------------------------------------------------
(* What is left when an author's changes are rejected, text by text.       *)
LeftOf(who) == [e \in Entry |-> TextLeft(e, who)]

LEMMA LeftOfTyped ==
  ASSUME NEW who
  PROVE  LeftOf(who) \in [Entry -> Seq(Char)]
<1>1. ASSUME NEW e \in Entry PROVE TextLeft(e, who) \in Seq(Char)
  <2>1. e.t.text \in Seq(Char) /\ <<>> \in Seq(Char)
    BY DEF Entry, Text
  <2> QED BY <2>1 DEF TextLeft
<1> QED BY <1>1 DEF LeftOf

LEMMA TextWithoutIs ==
  ASSUME NEW paragraph \in Seq(Node), NEW who
  PROVE  TextWithout(paragraph, who) = Each(LeftOf(who), Texts(paragraph))
<1> DEFINE texts == Texts(paragraph)
<1>1. texts \in Seq(Entry)
  BY TextsAre
<1>2. TextWithout(paragraph, who) = FlattenSeq([k \in DOMAIN texts |-> TextLeft(texts[k], who)])
  BY Zenon DEF TextWithout
<1> HIDE DEF texts
<1>3. \A k \in DOMAIN texts : texts[k] \in Entry
  BY <1>1, LenProperties
<1>4. [k \in DOMAIN texts |-> TextLeft(texts[k], who)] = Mapped(LeftOf(who), texts)
  BY <1>3 DEF Mapped, LeftOf
<1> QED BY <1>2, <1>4, Zenon DEF Each, texts

(* The content is that of the paragraphs.                                  *)
LEMMA SameContent ==
  ASSUME NEW b \in Body, NEW c \in Body, NEW who, DOMAIN b = DOMAIN c,
         \A p \in DOMAIN b : Each(LeftOf(who), Texts(b[p])) = Each(LeftOf(who), Texts(c[p]))
  PROVE  TextContent(b, who) = TextContent(c, who)
<1> DEFINE m == [p \in DOMAIN b |-> TextWithout(b[p], who)]
           n == [p \in DOMAIN c |-> TextWithout(c[p], who)]
<1>1. \A p \in DOMAIN b : b[p] \in Seq(Node) /\ c[p] \in Seq(Node)
  BY LenProperties DEF Body
<1>2. \A p \in DOMAIN b : TextWithout(b[p], who) = TextWithout(c[p], who)
  BY <1>1, TextWithoutIs
<1>3. m = n
  BY <1>2
<1>4. TextContent(b, who) =
        LET lines == SelectSeq(m, LAMBDA line : line # <<>>)
        IN FlattenSeq([i \in DOMAIN lines |-> IF i = 1 THEN lines[i] ELSE <<"newline">> \o lines[i]])
  BY Zenon DEF TextContent
<1>5. TextContent(c, who) =
        LET lines == SelectSeq(n, LAMBDA line : line # <<>>)
        IN FlattenSeq([i \in DOMAIN lines |-> IF i = 1 THEN lines[i] ELSE <<"newline">> \o lines[i]])
  BY Zenon DEF TextContent
<1> HIDE DEF m, n
<1> QED BY <1>3, <1>4, <1>5, Zenon

(* A text without a blank at an end is not trimmed.                        *)
LEMMA TrimmedIs ==
  ASSUME NEW text \in Seq(Char)
  PROVE  Trimmed(text) \in Seq(Char) /\ (~EdgeIn(text, Blank) => Trimmed(text) = text)
<1> DEFINE inner == {k \in DOMAIN text : text[k] \notin Blank}
           n == Len(text)
<1>1. n \in Nat /\ DOMAIN text = 1 .. n /\ \A k \in 1 .. n : text[k] \in Char
  BY LenProperties
<1>2. Trimmed(text) = IF inner = {} THEN <<>> ELSE SubSeq(text, Min(inner), Max(inner))
  BY Zenon DEF Trimmed
<1>3. CASE inner = {}
  <2>1. Trimmed(text) = <<>>
    BY <1>2, <1>3
  <2>2. ASSUME ~EdgeIn(text, Blank) PROVE text = <<>>
    <3>1. text # <<>> => Head(text) = text[1] /\ 1 \in 1 .. n
      BY <1>1
    <3> QED BY <1>1, <1>3, <2>2, <3>1 DEF EdgeIn
  <2> QED BY <2>1, <2>2
<1>4. CASE inner # {}
  <2>1. inner \in SUBSET Nat /\ inner \subseteq 1 .. n
    BY <1>1
  <2> HIDE DEF inner
  <2>2. Min(inner) \in 1 .. n
    BY <1>4, <2>1, NaturalsHaveMin
  <2>3. Max(inner) \in 1 .. n /\ \A x \in inner : x <= Max(inner)
    <3>1. \A x \in inner : x <= n
      BY <1>1, <2>1
    <3> HIDE DEF n
    <3>2. Max(inner) \in inner /\ \A x \in inner : x <= Max(inner)
      BY <1>1, <1>4, <2>1, <3>1, BoundedHasMax
    <3> QED BY <2>1, <3>2
  <2>4. Trimmed(text) = SubSeq(text, Min(inner), Max(inner))
    BY <1>2, <1>4
  <2>5. Trimmed(text) \in Seq(Char)
    <3> DEFINE i == Min(inner)
               j == Max(inner)
    <3>1. i \in 1 .. n /\ j \in 1 .. n
      BY <2>2, <2>3
    <3> HIDE DEF i, j
    <3>2. SubSeq(text, i, j) \in Seq(Char)
      BY <1>1, <3>1, SubSeqProperties
    <3> QED BY <2>4, <3>2 DEF i, j
  <2>6. ASSUME ~EdgeIn(text, Blank) PROVE Trimmed(text) = text
    <3>1. text # <<>> /\ Head(text) = text[1] /\ Last(text) = text[n] /\ n \in Nat \ {0}
      BY <1>1, <1>4 DEF inner, Last
    <3>2. 1 \in inner /\ n \in inner
      BY <1>1, <2>6, <3>1 DEF inner, EdgeIn
    <3>3. Max(inner) = n
      BY <1>1, <2>3, <3>2
    <3>4. Min(inner) = 1
      <4>1. \A y \in inner : 1 <= y
        BY <2>1
      <4>2. \A x \in inner : (\A y \in inner : x <= y) => x = 1
        BY <2>1, <3>2
      <4> QED BY <3>2, <4>1, <4>2 DEF Min
    <3> QED BY <2>4, <3>3, <3>4, SubSeqFull DEF n
  <2> QED BY <2>5, <2>6
<1> QED BY <1>3, <1>4

CondenseOf == [t \in Text |-> IF t.tag # "t" /\ OnlyBlank(t.text) THEN [t EXCEPT !.text = <<>>] ELSE t]
ReadOf == [t \in Text |-> IF t.keep THEN t ELSE [t EXCEPT !.text = Trimmed(@)]]

LEMMA ChangesOfTexts == CondenseOf \in [Text -> Text] /\ ReadOf \in [Text -> Text]
<1>1. \A t \in Text : (IF t.tag # "t" /\ OnlyBlank(t.text) THEN [t EXCEPT !.text = <<>>] ELSE t) \in Text
  <2>1. <<>> \in Seq(Char)
    OBVIOUS
  <2>2. \A t \in Text, text \in Seq(Char) : [t EXCEPT !.text = text] \in Text
    BY DEF Text
  <2> QED BY <2>1, <2>2
<1>2. ASSUME NEW t \in Text PROVE (IF t.keep THEN t ELSE [t EXCEPT !.text = Trimmed(@)]) \in Text
  <2>1. t.text \in Seq(Char)
    BY DEF Text
  <2>2. Trimmed(t.text) \in Seq(Char)
    BY <2>1, TrimmedIs
  <2> DEFINE text == Trimmed(t.text)
  <2>3. [t EXCEPT !.text = Trimmed(@)] = [t EXCEPT !.text = text]
    OBVIOUS
  <2> HIDE DEF text
  <2>4. [t EXCEPT !.text = text] \in Text
    BY <2>2 DEF Text, text
  <2> QED BY <2>3, <2>4
<1> QED BY <1>1, <1>2 DEF CondenseOf, ReadOf

(* A text that packing leaves, and Word shows as it is.                    *)
Harmless(e) == IF e.t.tag = "t" THEN EdgeIn(e.t.text, Blank) => e.t.keep
               ELSE ~OnlyBlank(e.t.text) /\ (EdgeIn(e.t.text, Blank) => e.t.keep)

LEMMA HarmlessIsLeft ==
  ASSUME NEW e \in Entry, Harmless(e), NEW who
  PROVE  After(CondenseOf, After(ReadOf, LeftOf(who)))[e] = LeftOf(who)[e]
<1> DEFINE t == e.t
           u == ReadOf[t]
           c == EntryOf(u, e.fmt, e.ins, e.del)
           h == After(ReadOf, LeftOf(who))
<1>1. t \in Text /\ e.fmt \in Format /\ e.ins \in Holder /\ e.del \in Holder
  BY DEF Entry
<1>2. CondenseOf[t] = t
  BY <1>1 DEF CondenseOf, Harmless
<1>3. u \in Text /\ u.text = t.text /\ u.tag = t.tag
  <2>1. u \in Text
    BY <1>1, ChangesOfTexts
  <2>2. CASE t.keep
    BY <1>1, <2>1, <2>2 DEF ReadOf
  <2>3. CASE ~t.keep
    <3>1. t.text \in Seq(Char) /\ ~EdgeIn(t.text, Blank)
      BY <1>1, <2>3 DEF Text, Harmless
    <3>2. Trimmed(t.text) = t.text
      BY <3>1, TrimmedIs
    <3>3. u = [t EXCEPT !.text = Trimmed(t.text)]
      BY <1>1, <2>3 DEF ReadOf
    <3> HIDE DEF u
    <3> QED BY <1>1, <2>1, <3>2, <3>3 DEF Text
  <2> QED BY <2>2, <2>3
<1>4. EntryOf(t, e.fmt, e.ins, e.del) = e
  BY DEF EntryOf, Entry
<1>5. After(CondenseOf, h)[e] = h[e]
  <2> HIDE DEF h
  <2> QED BY <1>2, <1>4 DEF After
<1>6. h[e] = LeftOf(who)[c]
  BY DEF After
<1> HIDE DEF u
<1>7. c \in Entry /\ c.t = u /\ c.ins = e.ins /\ c.del = e.del
  BY <1>1, <1>3 DEF EntryOf, Entry
<1> HIDE DEF c
<1>8. LeftOf(who)[c] = LeftOf(who)[e]
  BY <1>3, <1>7 DEF LeftOf, TextLeft
<1> QED BY <1>5, <1>6, <1>8 DEF h

HarmlessIn(b) == \A e \in AllTexts(b) : Harmless(e)

LEMMA PackedIsLeft ==
  ASSUME NEW b \in Body, HarmlessIn(b), NEW who
  PROVE  TextContent(Read(Condense(b)), who) = TextContent(b, who)
<1> DEFINE g == LeftOf(who)
           h == After(ReadOf, g)
           k == After(CondenseOf, h)
           c == OnTs(CondenseOf, b)
           r == OnTs(ReadOf, c)
<1>1. Condense(b) = c /\ Read(c) = r
  BY Zenon DEF Condense, CondenseOf, Read, ReadOf
<1>2. g \in [Entry -> Seq(Char)] /\ h \in [Entry -> Seq(Char)]
  BY LeftOfTyped, ChangesOfTexts, AfterTyped
<1>3. c \in Body /\ DOMAIN c = DOMAIN b /\ \A p \in DOMAIN b : Each(h, Texts(c[p])) = Each(k, Texts(b[p]))
  <2> HIDE DEF h
  <2> QED BY <1>2, ChangesOfTexts, OnTsReads
<1> HIDE DEF c
<1>4. r \in Body /\ DOMAIN r = DOMAIN c /\ \A p \in DOMAIN c : Each(g, Texts(r[p])) = Each(h, Texts(c[p]))
  <2>1. c \in Body /\ ReadOf \in [Text -> Text]
    BY <1>3, ChangesOfTexts
  <2> HIDE DEF g, k
  <2> QED BY <1>2, <2>1, OnTsReads
<1> HIDE DEF r
<1>5. ASSUME NEW p \in DOMAIN b PROVE Each(k, Texts(b[p])) = Each(g, Texts(b[p]))
  <2> DEFINE texts == Texts(b[p])
  <2>1. texts \in Seq(Entry)
    <3>1. b[p] \in Seq(Node)
      BY LenProperties DEF Body
    <3> QED BY <3>1, TextsAre
  <2>2. \A i \in DOMAIN texts : texts[i] \in AllTexts(b)
    BY DEF AllTexts, Range
  <2> HIDE DEF texts
  <2>3. \A i \in DOMAIN texts : texts[i] \in Entry /\ Harmless(texts[i])
    BY <2>1, <2>2, LenProperties DEF HarmlessIn
  <2>4. \A i \in DOMAIN texts : k[texts[i]] = g[texts[i]]
    BY <2>3, HarmlessIsLeft
  <2> HIDE DEF k, g
  <2>5. Each(k, texts) = Each(g, texts)
    BY <2>4, EachSame
  <2> QED BY <2>5 DEF texts
<1>6. TextContent(r, who) = TextContent(b, who)
  <2>1. \A p \in DOMAIN b : Each(g, Texts(r[p])) = Each(g, Texts(b[p]))
    BY <1>3, <1>4, <1>5
  <2> QED BY <1>3, <1>4, <2>1, SameContent
<1> QED BY <1>1, <1>6

(* A body stays one when it is condensed or read.                          *)
LEMMA CondensedTyped ==
  ASSUME NEW b \in Body
  PROVE  Condense(b) \in Body
<1>1. Condense(b) = OnTs(CondenseOf, b)
  BY Zenon DEF Condense, CondenseOf
<1>2. LetterOf \in [Entry -> Seq(Letter)]
  BY LettersTyped DEF Additive
<1>3. OnTs(CondenseOf, b) \in Body
  BY <1>2, ChangesOfTexts, OnTsReads
<1> QED BY <1>1, <1>3
-----------------------------------------------------------------------------
(* A text with which the body passes the validators once it is repaired.   *)
EdgeKept(text, keep) == EdgeIn(text, Blank) => keep \/ EdgeIn(text, {"space", "tab"})
Right(e) ==
  /\ e.t.tag = "t" => EdgeKept(e.t.text, e.t.keep)
  /\ e.del # NoAuthor => e.t.tag = "delText" \/ e.t.text = <<>>
  /\ e.ins # NoAuthor /\ e.del = NoAuthor => e.t.tag = "t"
WrongOf == [e \in Entry |-> IF Right(e) THEN <<>> ELSE <<TRUE>>]

LEMMA WrongOfTyped ==
  /\ WrongOf \in [Entry -> Seq(BOOLEAN)]
  /\ \A e \in Entry : WrongOf[e] = <<>> <=> Right(e)
<1> DEFINE r(e) == Right(e)
<1>1. WrongOf = [e \in Entry |-> IF r(e) THEN <<>> ELSE <<TRUE>>]
  BY DEF WrongOf
<1> HIDE DEF r
<1>2. <<TRUE>> \in Seq(BOOLEAN) /\ <<>> \in Seq(BOOLEAN) /\ <<TRUE>> # <<>>
  OBVIOUS
<1>3. WrongOf \in [Entry -> Seq(BOOLEAN)]
  BY <1>1, <1>2
<1>4. \A e \in Entry : WrongOf[e] = <<>> <=> r(e)
  BY <1>1, <1>2
<1> QED BY <1>3, <1>4 DEF r

(* What an author writes without a lapse.                                  *)
LEMMA WrittenIsKept ==
  ASSUME NEW text \in Seq(Char), NEW keep \in BOOLEAN, keep \/ "newline" \notin Range(text)
  PROVE  EdgeKept(text, keep)
<1> SUFFICES ASSUME EdgeIn(text, Blank), ~keep PROVE EdgeIn(text, {"space", "tab"})
  BY DEF EdgeKept
<1>1. text # <<>> /\ (Head(text) \in Blank \/ Last(text) \in Blank)
  BY DEF EdgeIn
<1>2. 1 \in DOMAIN text /\ Len(text) \in DOMAIN text /\ Head(text) = text[1] /\ Last(text) = text[Len(text)]
  <2>1. DOMAIN text = 1 .. Len(text) /\ Len(text) \in Nat /\ Len(text) # 0
    BY <1>1, LenProperties, EmptySeq
  <2> QED BY <1>1, <2>1 DEF Last
<1>3. Head(text) \in Range(text) /\ Last(text) \in Range(text)
  BY <1>2 DEF Range
<1> QED BY <1>1, <1>3 DEF EdgeIn, Blank

LEMMA RightWritten ==
  ASSUME NEW text \in Seq(Char), NEW keep \in BOOLEAN, NEW fmt \in Format, NEW ins \in Holder, NEW who \in Person
  PROVE  /\ EntryOf(T(text, keep), fmt, ins, NoAuthor) \in Entry /\ EntryOf(DelText(text, keep), fmt, ins, who) \in Entry
         /\ EdgeKept(text, keep) => Right(EntryOf(T(text, keep), fmt, ins, NoAuthor))
         /\ Right(EntryOf(DelText(text, keep), fmt, ins, who))
<1>1. who # NoAuthor /\ who \in Holder /\ NoAuthor \in Holder
  BY RedlineAssumption, HoldersAre
<1>2. T(text, keep) \in Text /\ DelText(text, keep) \in Text
  BY RunsMade
<1>3. EntryOf(T(text, keep), fmt, ins, NoAuthor) \in Entry /\ EntryOf(DelText(text, keep), fmt, ins, who) \in Entry
  BY <1>1, <1>2 DEF EntryOf, Entry
<1>4. EdgeKept(text, keep) => Right(EntryOf(T(text, keep), fmt, ins, NoAuthor))
  <2> HIDE DEF EdgeKept
  <2> QED BY DEF Right, EntryOf, T
<1>5. Right(EntryOf(DelText(text, keep), fmt, ins, who))
  <2> HIDE DEF EdgeKept
  <2> QED BY <1>1 DEF Right, EntryOf, DelText
<1> QED BY <1>3, <1>4, <1>5

(* What is left of a text when the changes by Claude are rejected.         *)
LEMMA LeftAt ==
  ASSUME NEW u \in Text, NEW fmt \in Format, NEW ins \in Holder, NEW del \in Holder
  PROVE  LeftOf("Claude")[EntryOf(u, fmt, ins, del)]
           = IF ins # "Claude" /\ (u.tag = "t" \/ del = "Claude") THEN u.text ELSE <<>>
<1> DEFINE e == EntryOf(u, fmt, ins, del)
           who == "Claude"
<1>1. e \in Entry /\ e.t = u /\ e.ins = ins /\ e.del = del
  BY DEF EntryOf, Entry
<1> HIDE DEF e, who
<1>2. LeftOf(who)[e] = TextLeft(e, who)
  BY <1>1 DEF LeftOf
<1>3. LeftOf(who)[e] = IF ins # who /\ (u.tag = "t" \/ del = who) THEN u.text ELSE <<>>
  BY <1>1, <1>2 DEF TextLeft
<1> QED BY <1>3, Zenon DEF e, who

LEMMA LeftWritten ==
  ASSUME NEW text \in Seq(Char), NEW keep \in BOOLEAN, NEW fmt \in Format
  PROVE  /\ LeftOf("Claude")[EntryOf(T(text, keep), fmt, NoAuthor, NoAuthor)] = text
         /\ LeftOf("Claude")[EntryOf(T(text, keep), fmt, "Claude", NoAuthor)] = <<>>
         /\ \A ins \in Holder : ins # "Claude" => LeftOf("Claude")[EntryOf(DelText(text, keep), fmt, ins, "Claude")] = text
<1> DEFINE t == T(text, keep)
           d == DelText(text, keep)
<1>1. "Claude" # NoAuthor /\ "Claude" \in Holder /\ NoAuthor \in Holder
  BY AuthorIsPerson, RedlineAssumption, HoldersAre
<1>2. t \in Text /\ t.tag = "t" /\ t.text = text /\ d \in Text /\ d.text = text
  <2>1. t \in Text /\ d \in Text
    BY RunsMade
  <2> QED BY <2>1 DEF T, DelText
<1> HIDE DEF t, d
<1> QED BY <1>1, <1>2, LeftAt DEF t, d
-----------------------------------------------------------------------------
(* Nodes for which a node may stand: an author's changes rejected, they    *)
(* say what it did, and nothing is wrong with them if nothing was with it. *)
SoundFor(n, nodes) ==
  /\ Each(NodeReads(LeftOf("Claude")), nodes) = NodeReads(LeftOf("Claude"))[n]
  /\ NodeReads(WrongOf)[n] = <<>> => Each(NodeReads(WrongOf), nodes) = <<>>
-----------------------------------------------------------------------------
(* What is read of a body twice: what is left of it, and what is wrong.    *)
LEMMA ReadingsTyped ==
  /\ LeftOf("Claude") \in [Entry -> Seq(Char)] /\ WrongOf \in [Entry -> Seq(BOOLEAN)]
  /\ NodeReads(LeftOf("Claude")) \in [Node -> Seq(Char)] /\ NodeReads(WrongOf) \in [Node -> Seq(BOOLEAN)]
<1>1. LeftOf("Claude") \in [Entry -> Seq(Char)] /\ WrongOf \in [Entry -> Seq(BOOLEAN)]
  BY LeftOfTyped, WrongOfTyped
<1>2. \A W : \A g \in [Entry -> Seq(W)] : NodeReads(g) \in [Node -> Seq(W)]
  BY NodeReadsWell, Zenon DEF Reads
<1> QED BY <1>1, <1>2

(* The nodes of a deletion.                                                *)
Piece(fmt, text, keep) == Run(fmt, <<T(text, keep)>>)
Gone(fmt, text, keep) == Del("Claude", <<Run(fmt, <<DelText(text, keep)>>)>>)
DeletedNodes(fmt, text, cut, keep) ==
  (IF cut = 0 THEN <<>> ELSE <<Piece(fmt, SubSeq(text, 1, cut), keep)>>)
    \o <<Gone(fmt, SubSeq(text, cut + 1, Len(text)), keep)>>

(* What is read of the two parts of a run that is deleted from a cut on.   *)
LEMMA PiecesRead ==
  ASSUME NEW W, NEW g \in [Entry -> Seq(W)], NEW fmt \in Format, NEW text \in Seq(Char), NEW keep \in BOOLEAN
  PROVE  /\ Piece(fmt, text, keep) \in Node /\ Gone(fmt, text, keep) \in Node
         /\ NodeReads(g)[Piece(fmt, text, keep)] = g[EntryOf(T(text, keep), fmt, NoAuthor, NoAuthor)]
         /\ NodeReads(g)[Gone(fmt, text, keep)] = g[EntryOf(DelText(text, keep), fmt, NoAuthor, "Claude")]
<1>1. "Claude" \in Person
  BY AuthorIsPerson
<1>2. T(text, keep) \in Text /\ DelText(text, keep) \in Text
  BY RunsMade
<1>3. ASSUME NEW t \in Text
      PROVE  /\ Run(fmt, <<t>>) \in RunNode
             /\ \A a \in Person : Ins(a, <<Run(fmt, <<t>>)>>) \in Node /\ Del(a, <<Run(fmt, <<t>>)>>) \in Node
  <2> DEFINE run == Run(fmt, <<t>>)
  <2>1. run \in RunNode
    <3>1. <<t>> \in Seq(Text)
      OBVIOUS
    <3> QED BY <3>1, RunsMade
  <2> HIDE DEF run
  <2>2. <<run>> \in Seq(PlainNode)
    BY <2>1, NodesNest
  <2>3. \A a \in Person : Ins(a, <<run>>) \in Node /\ Del(a, <<run>>) \in Node
    BY <2>2, WrapsMade
  <2> QED BY <2>1, <2>3 DEF run
<1>4. ASSUME NEW t \in Text PROVE OneText(g, fmt, t)
  BY <1>3, OneTextReads
<1> QED BY <1>1, <1>2, <1>3, <1>4, NodesNest, Zenon DEF OneText, Piece, Gone

LEMMA CutText ==
  ASSUME NEW text \in Seq(Char), NEW cut \in 0 .. 1, cut < Len(text)
  PROVE  /\ SubSeq(text, 1, cut) \in Seq(Char) /\ SubSeq(text, cut + 1, Len(text)) \in Seq(Char)
         /\ SubSeq(text, 1, cut) \o SubSeq(text, cut + 1, Len(text)) = text
         /\ cut = 0 => SubSeq(text, cut + 1, Len(text)) = text
         /\ Range(SubSeq(text, 1, cut)) \subseteq Range(text)
<1> DEFINE n == Len(text)
<1>1. n \in Nat /\ cut < n /\ \A k \in 1 .. n : text[k] \in Char
  BY LenProperties
<1>2. SubSeq(text, cut + 1, n) \in Seq(Char) /\ SubSeq(text, 1, cut) \in Seq(Char)
  <2> HIDE DEF n
  <2>1. \A k \in cut + 1 .. n : text[k] \in Char
    BY <1>1
  <2>2. \A k \in 1 .. cut : text[k] \in Char
    BY <1>1
  <2>3. 1 \in Int /\ cut \in Int /\ cut + 1 \in Int /\ n \in Int
    BY <1>1
  <2> QED BY <2>1, <2>2, <2>3, SubSeqProperties
<1>3. SubSeq(text, 1, n) = text
  BY SubSeqFull
<1>4. SubSeq(text, 1, cut) \o SubSeq(text, cut + 1, n) = text
  <2>1. 1 \in 1 .. n + 1 /\ cut \in 1 - 1 .. n /\ n \in cut .. n
    BY <1>1
  <2>2. SubSeq(text, 1, cut) \o SubSeq(text, cut + 1, n) = SubSeq(text, 1, n)
    BY <2>1, ConcatAdjacentSubSeq
  <2> QED BY <1>3, <2>2
<1>5. Range(SubSeq(text, 1, cut)) \subseteq Range(text)
  <2> DEFINE u == SubSeq(text, 1, cut)
  <2>1. \A k \in DOMAIN u : k \in 1 .. n /\ u[k] = text[k]
    BY <1>1
  <2>2. DOMAIN text = 1 .. n
    BY LenProperties
  <2> HIDE DEF u, n
  <2> QED BY <2>1, <2>2 DEF Range, u
<1>6. ASSUME cut = 0 PROVE SubSeq(text, cut + 1, n) = text
  <2>1. cut + 1 = 1
    BY <1>6
  <2> QED BY <1>3, <2>1, Zenon
<1> QED BY <1>2, <1>4, <1>5, <1>6

LEMMA DeletedNodesSound ==
  ASSUME NEW fmt \in Format, NEW text \in Seq(Char), NEW was \in BOOLEAN, NEW cut \in 0 .. 1, NEW keep \in BOOLEAN,
         cut < Len(text)
  PROVE  /\ DeletedNodes(fmt, text, cut, keep) \in Seq(Node)
         /\ keep \/ "newline" \notin Range(text) =>
              SoundFor(Piece(fmt, text, was), DeletedNodes(fmt, text, cut, keep))
<1> DEFINE left == SubSeq(text, 1, cut)
           rest == SubSeq(text, cut + 1, Len(text))
           nodes == DeletedNodes(fmt, text, cut, keep)
           x == Piece(fmt, left, keep)
           y == Gone(fmt, rest, keep)
           n == Piece(fmt, text, was)
           t(s) == EntryOf(T(s, keep), fmt, NoAuthor, NoAuthor)
           d == EntryOf(DelText(rest, keep), fmt, NoAuthor, "Claude")
<1>1. /\ left \in Seq(Char) /\ rest \in Seq(Char) /\ left \o rest = text
      /\ cut = 0 => rest = text
      /\ Range(left) \subseteq Range(text)
  BY CutText
<1>2. nodes = IF cut = 0 THEN <<y>> ELSE <<x, y>>
  <2>1. nodes = (IF cut = 0 THEN <<>> ELSE <<x>>) \o <<y>>
    BY DEF DeletedNodes
  <2>2. x \in Node /\ y \in Node
    BY <1>1, PiecesRead, ReadingsTyped
  <2> HIDE DEF nodes, x, y
  <2>3. <<>> \o <<y>> = <<y>> /\ <<x>> \o <<y>> = <<x, y>>
    BY <2>2, PairJoined, ConcatEmptySeq
  <2> QED BY <2>1, <2>3, Zenon
<1> HIDE DEF left, rest
<1>3. ASSUME NEW W, NEW g \in [Entry -> Seq(W)]
      PROVE  /\ x \in Node /\ y \in Node /\ n \in Node
             /\ NodeReads(g)[x] = g[t(left)] /\ NodeReads(g)[y] = g[d]
             /\ NodeReads(g)[n] = g[EntryOf(T(text, was), fmt, NoAuthor, NoAuthor)]
  BY <1>1, PiecesRead
<1>4. x \in Node /\ y \in Node
  BY <1>3, ReadingsTyped
<1>5. ASSUME NEW W, NEW g \in [Entry -> Seq(W)]
      PROVE  Each(NodeReads(g), nodes) = IF cut = 0 THEN g[d] ELSE g[t(left)] \o g[d]
  <2> DEFINE G == NodeReads(g)
  <2>1. G \in [Node -> Seq(W)]
    BY NodeReadsWell, Zenon DEF Reads
  <2>2. G[x] = g[t(left)] /\ G[y] = g[d]
    BY <1>3
  <2> HIDE DEF G, x, y, nodes, t, d
  <2>3. Each(G, <<y>>) = G[y]
    BY <1>4, <2>1, EachSingle
  <2>4. Each(G, <<x, y>>) = G[x] \o G[y]
    <3>1. EachOfPair(G, x, y)
      BY <1>4, <2>1, EachPair
    <3> QED BY <3>1, Zenon DEF EachOfPair
  <2>5. Each(G, nodes) = IF cut = 0 THEN G[y] ELSE G[x] \o G[y]
    BY <1>2, <2>3, <2>4, Zenon
  <2> QED BY <2>2, <2>5, Zenon DEF G
<1>6. nodes \in Seq(Node)
  <2> HIDE DEF nodes, x, y
  <2> QED BY <1>2, <1>4
<1>7. Each(NodeReads(LeftOf("Claude")), nodes) = NodeReads(LeftOf("Claude"))[n]
  <2> DEFINE g == LeftOf("Claude")
  <2>1. g[t(left)] = left /\ g[d] = rest /\ g[EntryOf(T(text, was), fmt, NoAuthor, NoAuthor)] = text
    <3>1. NoAuthor \in Holder /\ NoAuthor # "Claude"
      BY HoldersAre, AuthorIsPerson, RedlineAssumption
    <3> QED BY <1>1, <3>1, LeftWritten
  <2>2. g \in [Entry -> Seq(Char)]
    BY ReadingsTyped
  <2> HIDE DEF g, t, d, n, nodes
  <2>3. NodeReads(g)[n] = text
    BY <1>3, <2>1, <2>2
  <2>4. Each(NodeReads(g), nodes) = IF cut = 0 THEN rest ELSE left \o rest
    BY <1>5, <2>1, <2>2
  <2> QED BY <1>1, <2>3, <2>4, Zenon DEF g
<1>8. ASSUME keep \/ "newline" \notin Range(text)
      PROVE  Each(NodeReads(WrongOf), nodes) = <<>>
  <2>1. EdgeKept(left, keep)
    <3>1. keep \/ "newline" \notin Range(left)
      BY <1>1, <1>8
    <3> QED BY <1>1, <3>1, WrittenIsKept
  <2>2. t(left) \in Entry /\ d \in Entry /\ Right(t(left)) /\ Right(d)
    BY <1>1, <2>1, RightWritten, HoldersAre, AuthorIsPerson
  <2>3. WrongOf[t(left)] = <<>> /\ WrongOf[d] = <<>>
    BY <2>2, WrongOfTyped
  <2>4. WrongOf \in [Entry -> Seq(BOOLEAN)]
    BY ReadingsTyped
  <2> HIDE DEF t, d, nodes
  <2>5. Each(NodeReads(WrongOf), nodes) = IF cut = 0 THEN <<>> ELSE <<>> \o <<>>
    BY <1>5, <2>3, <2>4
  <2>6. <<>> \o <<>> = <<>>
    OBVIOUS
  <2> QED BY <2>5, <2>6
<1> HIDE DEF nodes, n
<1> QED BY <1>6, <1>7, <1>8 DEF SoundFor, nodes, n
-----------------------------------------------------------------------------
(* An insertion after a node.                                              *)
LEMMA InsertedSound ==
  ASSUME NEW n \in Node, NEW ins \in Node,
         NodeReads(LeftOf("Claude"))[ins] = <<>>, NodeReads(WrongOf)[ins] = <<>>
  PROVE  <<n, ins>> \in Seq(Node) /\ SoundFor(n, <<n, ins>>)
<1> DEFINE L == NodeReads(LeftOf("Claude"))
           R == NodeReads(WrongOf)
<1>1. L \in [Node -> Seq(Char)] /\ R \in [Node -> Seq(BOOLEAN)]
  BY ReadingsTyped
<1>2. L[ins] = <<>> /\ R[ins] = <<>>
  OBVIOUS
<1> HIDE DEF L, R
<1>3. EachOfPair(L, n, ins) /\ EachOfPair(R, n, ins)
  BY <1>1, EachPair
<1>4. L[n] \o <<>> = L[n] /\ <<>> \o <<>> = <<>>
  <2>1. L[n] \in Seq(Char)
    BY <1>1
  <2> QED BY <2>1, ConcatEmptySeq
<1>5. Each(L, <<n, ins>>) = L[n] /\ (R[n] = <<>> => Each(R, <<n, ins>>) = <<>>)
  BY <1>2, <1>3, <1>4, Zenon DEF EachOfPair
<1>6. <<n, ins>> \in Seq(Node)
  OBVIOUS
<1> QED BY <1>5, <1>6, Zenon DEF SoundFor, L, R

LEMMA NewTextSound ==
  ASSUME NEW n \in Node, NEW keep \in BOOLEAN
  PROVE  LET ins == Ins("Claude", <<Run("plain", <<T(<<"space", "new">>, keep)>>)>>)
         IN <<n, ins>> \in Seq(Node) /\ SoundFor(n, <<n, ins>>)
<1> DEFINE text == <<"space", "new">>
           t == T(text, keep)
           run == Run("plain", <<t>>)
           ins == Ins("Claude", <<run>>)
           e == EntryOf(t, "plain", "Claude", NoAuthor)
<1>1. "Claude" \in Person /\ "Claude" \in Holder /\ "plain" \in Format
  BY AuthorIsPerson, HoldersAre
<1>2. text \in Seq(Char) /\ "newline" \notin Range(text)
  <2>1. "space" \in Char /\ "new" \in Char
    BY AuthorIsPerson DEF Blank
  <2>2. text \in Seq(Char)
    BY <2>1
  <2>3. Range(text) = {"space", "new"}
    BY DEF Range
  <2> QED BY <2>2, <2>3
<1> HIDE DEF text
<1>3. t \in Text /\ e \in Entry /\ Right(e) /\ LeftOf("Claude")[e] = <<>>
  <2>1. EdgeKept(text, keep)
    BY <1>2, WrittenIsKept
  <2>2. t \in Text
    BY <1>2, RunsMade
  <2>3. e \in Entry /\ Right(e)
    BY <1>1, <1>2, <2>1, RightWritten
  <2>4. LeftOf("Claude")[e] = <<>>
    BY <1>1, <1>2, LeftWritten
  <2> QED BY <2>2, <2>3, <2>4
<1> HIDE DEF t
<1>4. run \in RunNode /\ \A a \in Person : Ins(a, <<run>>) \in Node /\ Del(a, <<run>>) \in Node
  <2>1. <<t>> \in Seq(Text)
    BY <1>3
  <2>2. run \in RunNode
    BY <1>1, <2>1, RunsMade
  <2> HIDE DEF run
  <2>3. <<run>> \in Seq(PlainNode)
    BY <2>2, NodesNest
  <2> QED BY <2>2, <2>3, WrapsMade
<1>5. ASSUME NEW W, NEW g \in [Entry -> Seq(W)] PROVE NodeReads(g)[ins] = g[e]
  <2>1. OneText(g, "plain", t)
    BY <1>1, <1>3, <1>4, OneTextReads
  <2> QED BY <1>1, <2>1, Zenon DEF OneText
<1>6. ins \in Node
  BY <1>1, <1>4
<1> HIDE DEF ins, e
<1>7. WrongOf[e] = <<>>
  BY <1>3, WrongOfTyped
<1>8. NodeReads(LeftOf("Claude"))[ins] = <<>> /\ NodeReads(WrongOf)[ins] = <<>>
  BY <1>3, <1>5, <1>7, ReadingsTyped
<1>9. <<n, ins>> \in Seq(Node) /\ SoundFor(n, <<n, ins>>)
  BY <1>6, <1>8, InsertedSound
<1> QED BY <1>9 DEF ins, run, t, text
-----------------------------------------------------------------------------
(* Deleted and Restored change every text of a run.                        *)
DeletedText == [t \in Text |-> DelText(t.text, t.keep)]
RestoredText == [t \in Text |-> T(t.text, t.keep)]

LEMMA ChangedTexts ==
  /\ DeletedText \in [Text -> Text] /\ RestoredText \in [Text -> Text]
  /\ \A t \in Text : DeletedText[t] = DelText(t.text, t.keep) /\ RestoredText[t] = T(t.text, t.keep)
  /\ \A t \in Text : t.text \in Seq(Char) /\ t.keep \in BOOLEAN
<1>1. \A t \in Text : t.text \in Seq(Char) /\ t.keep \in BOOLEAN
  BY DEF Text
<1>2. \A t \in Text : DelText(t.text, t.keep) \in Text /\ T(t.text, t.keep) \in Text
  BY <1>1, RunsMade
<1> QED BY <1>1, <1>2 DEF DeletedText, RestoredText

LEMMA ChangedRunWith ==
  ASSUME NEW run \in RunNode
  PROVE  Deleted(run) = RunWith(DeletedText, run) /\ Restored(run) = RunWith(RestoredText, run)
<1>1. \A k \in DOMAIN run.ts : run.ts[k] \in Text
  <2>1. run.ts \in Seq(Text)
    BY DEF RunNode
  <2> QED BY <2>1, LenProperties
<1>2. \A k \in DOMAIN run.ts : /\ DeletedText[run.ts[k]] = DelText(run.ts[k].text, run.ts[k].keep)
                               /\ RestoredText[run.ts[k]] = T(run.ts[k].text, run.ts[k].keep)
  BY <1>1, ChangedTexts
<1> QED BY <1>2 DEF Deleted, Restored, RunWith

(* The kids of a wrapper that holds runs only.                             *)
RunsOnly(kids) == kids \in Seq(PlainNode) /\ \A k \in DOMAIN kids : kids[k].kind = "run" /\ kids[k] \in RunNode
KidsDeleted(kids) == [k \in DOMAIN kids |-> Deleted(kids[k])]
KidsRestored(kids) == [k \in DOMAIN kids |-> Restored(kids[k])]

LEMMA ChangedKidsRead ==
  ASSUME NEW kids, RunsOnly(kids)
  PROVE  /\ KidsDeleted(kids) = InInner(DeletedText, kids) /\ KidsRestored(kids) = InInner(RestoredText, kids)
         /\ KidsDeleted(kids) \in Seq(PlainNode) /\ KidsRestored(kids) \in Seq(PlainNode)
<1>1. kids \in Seq(PlainNode) /\ \A k \in DOMAIN kids : kids[k].kind = "run" /\ kids[k] \in RunNode
  BY DEF RunsOnly
<1>2. KidsDeleted(kids) = InInner(DeletedText, kids) /\ KidsRestored(kids) = InInner(RestoredText, kids)
  BY <1>1, ChangedRunWith DEF KidsDeleted, KidsRestored, InInner
<1>3. InInner(DeletedText, kids) \in Seq(PlainNode) /\ InInner(RestoredText, kids) \in Seq(PlainNode)
  BY <1>1, ReadingsTyped, ChangedTexts, HoldersAre, InInnerReads
<1> QED BY <1>2, <1>3
-----------------------------------------------------------------------------
(* What After reads of one text, and what is read of runs whose texts are  *)
(* all deleted or all restored.                                            *)
AfterIs(f, g, t, fmt, ins, del) == After(f, g)[EntryOf(t, fmt, ins, del)] = g[EntryOf(f[t], fmt, ins, del)]

LEMMA AfterAt ==
  ASSUME NEW g, NEW f, NEW t \in Text, NEW fmt \in Format, NEW ins \in Holder, NEW del \in Holder
  PROVE  AfterIs(f, g, t, fmt, ins, del)
<1> DEFINE e == EntryOf(t, fmt, ins, del)
<1>1. e \in Entry /\ e.t = t /\ e.fmt = fmt /\ e.ins = ins /\ e.del = del
  BY DEF EntryOf, Entry
<1> HIDE DEF e
<1>2. After(f, g)[e] = g[EntryOf(f[e.t], e.fmt, e.ins, e.del)]
  BY <1>1 DEF After
<1> QED BY <1>1, <1>2 DEF AfterIs, e

LEMMA WrapOfRuns ==
  ASSUME NEW n \in Node, IsWrap(n), \A k \in DOMAIN n.kids : n.kids[k].kind = "run"
  PROVE  RunsOnly(n.kids) /\ n.author \in Person
<1> DEFINE kids == n.kids
           N == KidsOf(n.kind)
<1>1. kids \in Seq(N) /\ N \subseteq MidNode /\ n.author \in Person
  BY NodesNest
<1>2. \A k \in DOMAIN kids : kids[k] \in N
  BY <1>1, LenProperties
<1>3. \A k \in DOMAIN kids : kids[k] \in RunNode /\ kids[k] \in PlainNode
  BY <1>1, <1>2, NodesNest
<1>4. \A k \in DOMAIN kids : kids[k].kind = "run"
  OBVIOUS
<1> HIDE DEF kids, N
<1>5. kids \in Seq(PlainNode)
  BY <1>1, <1>3, SeqWidens
<1> QED BY <1>1, <1>3, <1>4, <1>5 DEF RunsOnly, kids

(* Facts of all texts of the kids.                                         *)
LEMMA TextsOfKids ==
  ASSUME NEW kids, RunsOnly(kids), NEW k \in DOMAIN kids, NEW j \in DOMAIN kids[k].ts
  PROVE  kids[k].ts[j] \in Text /\ kids[k].fmt \in Format
<1>1. kids[k].ts \in Seq(Text) /\ kids[k].fmt \in Format
  BY DEF RunsOnly, RunNode
<1> QED BY <1>1, LenProperties

DeletedReads(g, ins, del, kids) ==
  Each(PlainReads(g, ins, del), KidsDeleted(kids)) = Each(PlainReads(After(DeletedText, g), ins, del), kids)
RestoredReads(g, ins, del, kids) ==
  Each(PlainReads(g, ins, del), KidsRestored(kids)) = Each(PlainReads(After(RestoredText, g), ins, del), kids)

LEMMA ChangedKidsReads ==
  ASSUME NEW kids, RunsOnly(kids), NEW W, NEW g \in [Entry -> Seq(W)], NEW ins \in Holder, NEW del \in Holder
  PROVE  DeletedReads(g, ins, del, kids) /\ RestoredReads(g, ins, del, kids)
<1>1. kids \in Seq(PlainNode) /\ KidsDeleted(kids) = InInner(DeletedText, kids) /\ KidsRestored(kids) = InInner(RestoredText, kids)
  BY ChangedKidsRead DEF RunsOnly
<1>2. DeletedText \in [Text -> Text] /\ RestoredText \in [Text -> Text]
  BY ChangedTexts
<1>3. InnerRead(DeletedText, g, ins, del, kids) /\ InnerRead(RestoredText, g, ins, del, kids)
  BY <1>1, <1>2, InInnerReads
<1> QED BY <1>1, <1>3, Zenon DEF DeletedReads, RestoredReads, InnerRead

(* An insertion that holds runs, and a deletion of those inside.           *)
RejectedNode(author, kids) == Ins(author, <<Del("Claude", KidsDeleted(kids))>>)

LEMMA RejectedReads ==
  ASSUME NEW author \in Person, NEW kids, RunsOnly(kids), NEW W, NEW g \in [Entry -> Seq(W)]
  PROVE  /\ RejectedNode(author, kids) \in Node
         /\ NodeReads(g)[RejectedNode(author, kids)] = Each(PlainReads(After(DeletedText, g), author, "Claude"), kids)
<1> DEFINE gone == KidsDeleted(kids)
           d == Del("Claude", gone)
<1>1. gone \in Seq(PlainNode) /\ gone = InInner(DeletedText, kids) /\ kids \in Seq(PlainNode)
  BY ChangedKidsRead DEF RunsOnly
<1> HIDE DEF gone
<1>2. "Claude" \in Person /\ "Claude" \in Holder /\ author \in Holder
  BY AuthorIsPerson, HoldersAre
<1>3. d \in KidsOf("ins")
  BY <1>1, <1>2, WrapsMade
<1>4. Ins(author, <<d>>) \in Node
  <2> HIDE DEF d
  <2>1. <<d>> \in Seq(KidsOf("ins"))
    BY <1>3
  <2> QED BY <2>1, WrapsMade
<1>5. NodeReads(g)[Ins(author, <<d>>)] = Each(PlainReads(g, author, "Claude"), gone)
  BY <1>1, <1>2, <1>3, <1>4, WrapInWrap
<1>6. Each(PlainReads(g, author, "Claude"), gone) = Each(PlainReads(After(DeletedText, g), author, "Claude"), kids)
  <2>1. DeletedReads(g, author, "Claude", kids)
    BY <1>2, ChangedKidsReads
  <2> QED BY <2>1, Zenon DEF DeletedReads, gone
<1> QED BY <1>4, <1>5, <1>6 DEF RejectedNode, gone

LEMMA RejectedSound ==
  ASSUME NEW n \in Node, n.kind = "ins", n.author # "Claude", \A k \in DOMAIN n.kids : IsText(n.kids[k])
  PROVE  /\ <<RejectedNode(n.author, n.kids)>> \in Seq(Node)
         /\ SoundFor(n, <<RejectedNode(n.author, n.kids)>>)
<1> DEFINE kids == n.kids
           a == n.author
           m == RejectedNode(a, kids)
           L == LeftOf("Claude")
           R == WrongOf
<1>1. RunsOnly(kids) /\ a \in Person /\ a # "Claude" /\ IsWrap(n)
  BY WrapOfRuns DEF IsText, IsWrap
<1>2. kids \in Seq(PlainNode) /\ a \in Holder /\ "Claude" \in Person /\ "Claude" \in Holder /\ NoAuthor \in Holder
  BY <1>1, AuthorIsPerson, HoldersAre DEF RunsOnly
<1>3. L \in [Entry -> Seq(Char)] /\ R \in [Entry -> Seq(BOOLEAN)]
  BY ReadingsTyped
<1>4. \A k \in DOMAIN kids : \A j \in DOMAIN kids[k].ts : kids[k].ts[j].tag = "t"
  BY DEF IsText
<1>5. ASSUME NEW W, NEW g \in [Entry -> Seq(W)]
      PROVE  NodeReads(g)[n] = Each(PlainReads(g, a, NoAuthor), kids)
  <2>1. WrapsPlain(g, n)
    BY <1>1, <1>2, WrapOfPlain
  <2> QED BY <2>1 DEF WrapsPlain, InsOf, DelOf
<1> HIDE DEF kids, a
<1>6. ASSUME NEW W, NEW g \in [Entry -> Seq(W)]
      PROVE  m \in Node /\ NodeReads(g)[m] = Each(PlainReads(After(DeletedText, g), a, "Claude"), kids)
  BY <1>1, RejectedReads
<1>7. m \in Node
  BY <1>3, <1>6
<1> HIDE DEF m, L, R
<1>8. ASSUME NEW W, NEW g \in [Entry -> Seq(W)]
      PROVE  Each(NodeReads(g), <<m>>) = Each(PlainReads(After(DeletedText, g), a, "Claude"), kids)
  <2> DEFINE G == NodeReads(g)
  <2>1. G \in [Node -> Seq(W)]
    BY NodeReadsWell, Zenon DEF Reads
  <2>2. G[m] = Each(PlainReads(After(DeletedText, g), a, "Claude"), kids)
    BY <1>6
  <2> HIDE DEF G
  <2>3. Each(G, <<m>>) = G[m]
    BY <1>7, <2>1, EachSingle
  <2> QED BY <2>2, <2>3 DEF G
<1>9. Each(NodeReads(L), <<m>>) = NodeReads(L)[n]
  <2> DEFINE h == After(DeletedText, L)
  <2>1. KidsAlike(h, a, "Claude", L, a, NoAuthor, kids)
    <3> SUFFICES ASSUME NEW k \in DOMAIN kids, NEW j \in DOMAIN kids[k].ts
                 PROVE  h[EntryOf(kids[k].ts[j], kids[k].fmt, a, "Claude")] = L[EntryOf(kids[k].ts[j], kids[k].fmt, a, NoAuthor)]
      BY DEF KidsAlike, TextsAlike
    <3> DEFINE t == kids[k].ts[j]
               fmt == kids[k].fmt
    <3>1. t \in Text /\ fmt \in Format /\ t.tag = "t"
      BY <1>1, <1>4, TextsOfKids
    <3> HIDE DEF t, fmt
    <3>2. h[EntryOf(t, fmt, a, "Claude")] = L[EntryOf(DeletedText[t], fmt, a, "Claude")]
      <4>1. AfterIs(DeletedText, L, t, fmt, a, "Claude")
        BY <1>2, <3>1, AfterAt
      <4> QED BY <4>1, Zenon DEF AfterIs
    <3>3. DeletedText[t] = DelText(t.text, t.keep) /\ t.text \in Seq(Char) /\ t.keep \in BOOLEAN
      BY <3>1, ChangedTexts
    <3>4. L[EntryOf(DelText(t.text, t.keep), fmt, a, "Claude")] = t.text
      BY <1>1, <1>2, <3>1, <3>3, LeftWritten DEF L
    <3>5. L[EntryOf(t, fmt, a, NoAuthor)] = t.text
      BY <1>1, <1>2, <3>1, LeftAt DEF L
    <3> QED BY <3>2, <3>3, <3>4, <3>5 DEF t, fmt
  <2>2. h \in [Entry -> Seq(Char)]
    BY <1>3, ChangedTexts, AfterTyped
  <2>4. Each(NodeReads(L), <<m>>) = Each(PlainReads(h, a, "Claude"), kids)
    BY <1>3, <1>8
  <2> HIDE DEF h
  <2>3. Each(PlainReads(h, a, "Claude"), kids) = Each(PlainReads(L, a, NoAuthor), kids)
    <3>1. ReadAlike(h, a, "Claude", L, a, NoAuthor, kids)
      BY <1>2, <1>3, <2>1, <2>2, KidsReadAlike
    <3> QED BY <3>1, Zenon DEF ReadAlike
  <2>5. NodeReads(L)[n] = Each(PlainReads(L, a, NoAuthor), kids)
    BY <1>3, <1>5
  <2> QED BY <2>3, <2>4, <2>5
<1>10. Each(NodeReads(R), <<m>>) = <<>>
  <2> DEFINE h == After(DeletedText, R)
  <2>1. KidsNothing(h, a, "Claude", kids)
    <3> SUFFICES ASSUME NEW k \in DOMAIN kids, NEW j \in DOMAIN kids[k].ts
                 PROVE  h[EntryOf(kids[k].ts[j], kids[k].fmt, a, "Claude")] = <<>>
      BY DEF KidsNothing, TextsNothing
    <3> DEFINE t == kids[k].ts[j]
               fmt == kids[k].fmt
    <3>1. t \in Text /\ fmt \in Format
      BY <1>1, TextsOfKids
    <3> HIDE DEF t, fmt
    <3>2. h[EntryOf(t, fmt, a, "Claude")] = R[EntryOf(DeletedText[t], fmt, a, "Claude")]
      <4>1. AfterIs(DeletedText, R, t, fmt, a, "Claude")
        BY <1>2, <3>1, AfterAt
      <4> QED BY <4>1, Zenon DEF AfterIs
    <3>3. DeletedText[t] = DelText(t.text, t.keep) /\ t.text \in Seq(Char) /\ t.keep \in BOOLEAN
      BY <3>1, ChangedTexts
    <3>4. R[EntryOf(DelText(t.text, t.keep), fmt, a, "Claude")] = <<>>
      BY <1>2, <3>1, <3>3, RightWritten, WrongOfTyped DEF R
    <3> QED BY <3>2, <3>3, <3>4 DEF t, fmt
  <2>2. h \in [Entry -> Seq(BOOLEAN)]
    BY <1>3, ChangedTexts, AfterTyped
  <2> HIDE DEF h
  <2>3. Each(PlainReads(h, a, "Claude"), kids) = <<>>
    BY <1>2, <2>1, <2>2, KidsReadNothing
  <2> QED BY <1>3, <1>8, <2>3 DEF h
<1>11. <<m>> \in Seq(Node)
  BY <1>7
<1> QED BY <1>9, <1>10, <1>11 DEF SoundFor, L, R, m, a, kids
-----------------------------------------------------------------------------
(* What was written keeps its ends.                                        *)
Written(kids) ==
  \A k \in DOMAIN kids : \A j \in DOMAIN kids[k].ts : kids[k].ts[j].keep \/ "newline" \notin Range(kids[k].ts[j].text)

LEMMA NoLapse ==
  ASSUME NEW n, NewlineLapse(TextsIn(n)) = {}
  PROVE  Written(n.kids)
<1>1. \A t \in TextsIn(n) : t.keep \/ "newline" \notin Range(t.text)
  BY DEF NewlineLapse
<1>2. \A k \in DOMAIN n.kids : \A j \in DOMAIN n.kids[k].ts : n.kids[k].ts[j] \in TextsIn(n)
  BY DEF TextsIn, Range
<1> QED BY <1>1, <1>2 DEF Written

(* A text that is restored, by an insertion or as it was.                  *)
LEMMA RestoredEntry ==
  ASSUME NEW t \in Text, NEW fmt \in Format, t.keep \/ "newline" \notin Range(t.text)
  PROVE  /\ \A ins \in {NoAuthor, "Claude"} : After(RestoredText, WrongOf)[EntryOf(t, fmt, ins, NoAuthor)] = <<>>
         /\ After(RestoredText, LeftOf("Claude"))[EntryOf(t, fmt, "Claude", NoAuthor)] = <<>>
         /\ After(RestoredText, LeftOf("Claude"))[EntryOf(t, fmt, NoAuthor, NoAuthor)] = t.text
<1> DEFINE x == T(t.text, t.keep)
           c == "Claude"
           L == LeftOf(c)
           R == WrongOf
<1>1. t.text \in Seq(Char) /\ t.keep \in BOOLEAN /\ RestoredText[t] = x
  BY ChangedTexts
<1>2. c \in Holder /\ NoAuthor \in Holder /\ c \in Person
  BY HoldersAre, AuthorIsPerson
<1>3. EdgeKept(t.text, t.keep)
  BY <1>1, WrittenIsKept
<1>4. L[EntryOf(x, fmt, NoAuthor, NoAuthor)] = t.text /\ L[EntryOf(x, fmt, c, NoAuthor)] = <<>>
  BY <1>1, LeftWritten
<1>5. \A ins \in Holder : R[EntryOf(x, fmt, ins, NoAuthor)] = <<>>
  BY <1>1, <1>2, <1>3, RightWritten, WrongOfTyped
<1> HIDE DEF x, c, L, R
<1>6. ASSUME NEW g, NEW ins \in Holder
      PROVE  After(RestoredText, g)[EntryOf(t, fmt, ins, NoAuthor)] = g[EntryOf(x, fmt, ins, NoAuthor)]
  <2>1. AfterIs(RestoredText, g, t, fmt, ins, NoAuthor)
    BY <1>2, AfterAt
  <2> QED BY <1>1, <2>1, Zenon DEF AfterIs
<1>7. \A ins \in {NoAuthor, c} : After(RestoredText, R)[EntryOf(t, fmt, ins, NoAuthor)] = <<>>
  BY <1>2, <1>5, <1>6
<1>8. /\ After(RestoredText, L)[EntryOf(t, fmt, c, NoAuthor)] = <<>>
      /\ After(RestoredText, L)[EntryOf(t, fmt, NoAuthor, NoAuthor)] = t.text
  BY <1>2, <1>4, <1>6
<1> QED BY <1>7, <1>8, Zenon DEF c, L, R

LEMMA RestoredTyped ==
  ASSUME NEW n \in Node, IsWrap(n), \A k \in DOMAIN n.kids : n.kids[k].kind = "run"
  PROVE  /\ RunsOnly(n.kids) /\ n.kids \in Seq(PlainNode) /\ n.author \in Person
         /\ KidsRestored(n.kids) \in Seq(PlainNode) /\ KidsRestored(n.kids) \in Seq(Node)
<1> DEFINE kids == n.kids
           r == KidsRestored(kids)
<1>1. RunsOnly(kids) /\ n.author \in Person
  BY WrapOfRuns
<1>2. kids \in Seq(PlainNode) /\ r \in Seq(PlainNode)
  BY <1>1, ChangedKidsRead DEF RunsOnly
<1> HIDE DEF r
<1>3. r \in Seq(Node)
  <2>1. \A k \in DOMAIN r : r[k] \in Node
    BY <1>2, LenProperties, NodesNest
  <2> QED BY <1>2, <2>1, SeqWidens
<1> QED BY <1>1, <1>2, <1>3 DEF r

LEMMA RestoredSound ==
  ASSUME NEW n \in Node, n.kind = "del", \A k \in DOMAIN n.kids : n.kids[k].kind = "run"
  PROVE  /\ <<n, Ins("Claude", KidsRestored(n.kids))>> \in Seq(Node)
         /\ Written(n.kids) => SoundFor(n, <<n, Ins("Claude", KidsRestored(n.kids))>>)
<1> DEFINE kids == n.kids
           back == KidsRestored(kids)
           c == "Claude"
           ins == Ins(c, back)
           L == LeftOf(c)
           R == WrongOf
<1>1. RunsOnly(kids) /\ kids \in Seq(PlainNode) /\ back \in Seq(PlainNode)
  BY RestoredTyped DEF IsWrap
<1>2. c \in Person /\ c \in Holder /\ NoAuthor \in Holder
  BY AuthorIsPerson, HoldersAre
<1>3. L \in [Entry -> Seq(Char)] /\ R \in [Entry -> Seq(BOOLEAN)]
  BY ReadingsTyped
<1>4. ins \in Node
  BY <1>1, <1>2, WrapsMade
<1>5. <<n, ins>> \in Seq(Node)
  <2> HIDE DEF ins
  <2> QED BY <1>4
<1>6. ASSUME Written(kids), NEW k \in DOMAIN kids, NEW j \in DOMAIN kids[k].ts
      PROVE  /\ After(RestoredText, R)[EntryOf(kids[k].ts[j], kids[k].fmt, c, NoAuthor)] = <<>>
             /\ After(RestoredText, L)[EntryOf(kids[k].ts[j], kids[k].fmt, c, NoAuthor)] = <<>>
  <2>1. kids[k].ts[j] \in Text /\ kids[k].fmt \in Format
    BY <1>1, TextsOfKids
  <2>2. kids[k].ts[j].keep \/ "newline" \notin Range(kids[k].ts[j].text)
    BY <1>6 DEF Written
  <2> QED BY <2>1, <2>2, RestoredEntry
<1>7. ASSUME NEW W, NEW g \in [Entry -> Seq(W)]
      PROVE  NodeReads(g)[ins] = Each(PlainReads(After(RestoredText, g), c, NoAuthor), kids)
  <2> HIDE DEF back, c, kids
  <2>1. ins.kind = "ins" /\ ins.author = c /\ ins.kids = back /\ IsWrap(ins)
    BY DEF Ins, IsWrap
  <2> HIDE DEF ins
  <2>2. WrapsPlain(g, ins)
    BY <1>1, <1>4, <2>1, WrapOfPlain
  <2>3. NodeReads(g)[ins] = Each(PlainReads(g, c, NoAuthor), back)
    BY <2>1, <2>2 DEF WrapsPlain, InsOf, DelOf
  <2>4. RestoredReads(g, c, NoAuthor, kids)
    BY <1>1, <1>2, ChangedKidsReads
  <2> QED BY <2>3, <2>4, Zenon DEF RestoredReads, back
<1> HIDE DEF kids, ins, c, L, R
<1>8. ASSUME Written(kids) PROVE NodeReads(L)[ins] = <<>> /\ NodeReads(R)[ins] = <<>>
  <2> DEFINE l == After(RestoredText, L)
             r == After(RestoredText, R)
  <2>1. KidsNothing(l, c, NoAuthor, kids) /\ KidsNothing(r, c, NoAuthor, kids)
    BY <1>6, <1>8 DEF KidsNothing, TextsNothing
  <2>2. l \in [Entry -> Seq(Char)] /\ r \in [Entry -> Seq(BOOLEAN)]
    BY <1>3, ChangedTexts, AfterTyped
  <2>3. NodeReads(L)[ins] = Each(PlainReads(l, c, NoAuthor), kids) /\ NodeReads(R)[ins] = Each(PlainReads(r, c, NoAuthor), kids)
    BY <1>3, <1>7
  <2> HIDE DEF l, r
  <2>4. Each(PlainReads(l, c, NoAuthor), kids) = <<>> /\ Each(PlainReads(r, c, NoAuthor), kids) = <<>>
    BY <1>1, <1>2, <2>1, <2>2, KidsReadNothing
  <2> QED BY <2>3, <2>4
<1>9. Written(kids) => SoundFor(n, <<n, ins>>)
  BY <1>4, <1>8, InsertedSound DEF L, R, c
<1> QED BY <1>5, <1>9 DEF ins, back, kids, c
-----------------------------------------------------------------------------
(* An own change that is taken back: an insertion goes, a deletion leaves  *)
(* its runs.                                                               *)
LEMMA UndoneInsertion ==
  ASSUME NEW n \in Node, n.kind = "ins", n.author = "Claude", \A k \in DOMAIN n.kids : n.kids[k].kind = "run"
  PROVE  SoundFor(n, <<>>)
<1> DEFINE kids == n.kids
           c == "Claude"
           L == LeftOf(c)
<1>1. RunsOnly(kids) /\ kids \in Seq(PlainNode) /\ IsWrap(n)
  BY RestoredTyped DEF IsWrap
<1>2. c \in Holder /\ NoAuthor \in Holder /\ L \in [Entry -> Seq(Char)]
  BY AuthorIsPerson, HoldersAre, ReadingsTyped
<1>3. NodeReads(L)[n] = Each(PlainReads(L, c, NoAuthor), kids)
  <2>1. WrapsPlain(L, n)
    BY <1>1, <1>2, WrapOfPlain
  <2> QED BY <2>1 DEF WrapsPlain, InsOf, DelOf
<1>4. KidsNothing(L, c, NoAuthor, kids)
  <2> SUFFICES ASSUME NEW k \in DOMAIN kids, NEW j \in DOMAIN kids[k].ts
               PROVE  L[EntryOf(kids[k].ts[j], kids[k].fmt, c, NoAuthor)] = <<>>
    BY DEF KidsNothing, TextsNothing
  <2>1. kids[k].ts[j] \in Text /\ kids[k].fmt \in Format
    BY <1>1, TextsOfKids
  <2> QED BY <1>2, <2>1, LeftAt
<1> HIDE DEF c, L, kids
<1>5. NodeReads(L)[n] = <<>>
  BY <1>1, <1>2, <1>3, <1>4, KidsReadNothing
<1>6. Each(NodeReads(L), <<>>) = <<>> /\ Each(NodeReads(WrongOf), <<>>) = <<>>
  BY EachEmpty
<1> QED BY <1>5, <1>6 DEF SoundFor, L, c

LEMMA UndoneDeletion ==
  ASSUME NEW n \in Node, n.kind = "del", n.author = "Claude", \A k \in DOMAIN n.kids : n.kids[k].kind = "run",
         Written(n.kids)
  PROVE  SoundFor(n, KidsRestored(n.kids))
<1> DEFINE kids == n.kids
           back == KidsRestored(kids)
           c == "Claude"
           L == LeftOf(c)
           R == WrongOf
           l == After(RestoredText, L)
           r == After(RestoredText, R)
<1>1. RunsOnly(kids) /\ kids \in Seq(PlainNode) /\ back \in Seq(PlainNode) /\ IsWrap(n)
  BY RestoredTyped DEF IsWrap
<1>2. /\ c \in Holder /\ NoAuthor \in Holder /\ NoAuthor # c
      /\ L \in [Entry -> Seq(Char)] /\ R \in [Entry -> Seq(BOOLEAN)]
  BY AuthorIsPerson, HoldersAre, ReadingsTyped, RedlineAssumption
<1>3. l \in [Entry -> Seq(Char)] /\ r \in [Entry -> Seq(BOOLEAN)]
  BY <1>2, ChangedTexts, AfterTyped
<1>4. NodeReads(L)[n] = Each(PlainReads(L, NoAuthor, c), kids)
  <2>1. WrapsPlain(L, n)
    BY <1>1, <1>2, WrapOfPlain
  <2> QED BY <2>1 DEF WrapsPlain, InsOf, DelOf
<1>5. ASSUME NEW k \in DOMAIN kids, NEW j \in DOMAIN kids[k].ts
      PROVE  /\ r[EntryOf(kids[k].ts[j], kids[k].fmt, NoAuthor, NoAuthor)] = <<>>
             /\ l[EntryOf(kids[k].ts[j], kids[k].fmt, NoAuthor, NoAuthor)]
                  = L[EntryOf(kids[k].ts[j], kids[k].fmt, NoAuthor, c)]
  <2> DEFINE t == kids[k].ts[j]
             fmt == kids[k].fmt
  <2>1. t \in Text /\ fmt \in Format
    BY <1>1, TextsOfKids
  <2>2. t.keep \/ "newline" \notin Range(t.text)
    BY DEF Written
  <2> HIDE DEF t, fmt
  <2>3. r[EntryOf(t, fmt, NoAuthor, NoAuthor)] = <<>> /\ l[EntryOf(t, fmt, NoAuthor, NoAuthor)] = t.text
    BY <2>1, <2>2, RestoredEntry
  <2>4. L[EntryOf(t, fmt, NoAuthor, c)] = t.text
    BY <1>2, <2>1, LeftAt
  <2> QED BY <2>3, <2>4 DEF t, fmt
<1> HIDE DEF kids, c, L, R
<1>6. ASSUME NEW W, NEW g \in [Entry -> Seq(W)]
      PROVE  Each(NodeReads(g), back) = Each(PlainReads(After(RestoredText, g), NoAuthor, NoAuthor), kids)
  <2>1. RestoredReads(g, NoAuthor, NoAuthor, kids)
    BY <1>1, <1>2, ChangedKidsReads
  <2> HIDE DEF back
  <2>2. Each(NodeReads(g), back) = Each(PlainReads(g, NoAuthor, NoAuthor), back)
    BY <1>1, PlainInParagraph
  <2> QED BY <2>1, <2>2, Zenon DEF RestoredReads, back
<1>7. /\ Each(NodeReads(L), back) = Each(PlainReads(l, NoAuthor, NoAuthor), kids)
      /\ Each(NodeReads(R), back) = Each(PlainReads(r, NoAuthor, NoAuthor), kids)
  <2> HIDE DEF back
  <2> QED BY <1>2, <1>6
<1> HIDE DEF l, r, back
<1>8. Each(PlainReads(l, NoAuthor, NoAuthor), kids) = Each(PlainReads(L, NoAuthor, c), kids)
  <2>1. KidsAlike(l, NoAuthor, NoAuthor, L, NoAuthor, c, kids)
    BY <1>5 DEF KidsAlike, TextsAlike
  <2>2. ReadAlike(l, NoAuthor, NoAuthor, L, NoAuthor, c, kids)
    BY <1>1, <1>2, <1>3, <2>1, KidsReadAlike
  <2> QED BY <2>2, Zenon DEF ReadAlike
<1>9. Each(PlainReads(r, NoAuthor, NoAuthor), kids) = <<>>
  <2>1. KidsNothing(r, NoAuthor, NoAuthor, kids)
    BY <1>5 DEF KidsNothing, TextsNothing
  <2> QED BY <1>1, <1>2, <1>3, <2>1, KidsReadNothing
<1>10. SoundFor(n, back)
  BY <1>4, <1>7, <1>8, <1>9, Zenon DEF SoundFor, L, R, c
<1> QED BY <1>10 DEF back, kids

(* An edit by the author; without a lapse, it is a sound one.              *)
SoundEdit(p, i) ==
  \E nodes \in Seq(Node) : \E lapse :
    EditBody(p, i, nodes, lapse) /\ (lapse = {} => SoundFor(body[p][i], nodes))

LEMMA TrackDeleteIsSound ==
  ASSUME NEW p, NEW i, NEW cut \in 0 .. 1, NEW keep \in BOOLEAN, body[p][i] \in Node, TrackDelete(p, i, cut, keep)
  PROVE  SoundEdit(p, i)
<1> DEFINE n == body[p][i]
           t == n.ts[1]
           text == t.text
           fmt == n.fmt
           written == T(text, keep)
           rest == Run(fmt, <<T(SubSeq(text, cut + 1, Len(text)), keep)>>)
           before == IF cut = 0 THEN <<>> ELSE <<Run(fmt, <<T(SubSeq(text, 1, cut), keep)>>)>>
           nodes == before \o <<Del("Claude", <<Deleted(rest)>>)>>
           lapse == NewlineLapse({written})
<1>1. IsText(n) /\ Len(n.ts) = 1 /\ cut < Len(text) /\ EditBody(p, i, nodes, lapse)
  BY Zenon DEF TrackDelete
<1>2. n \in RunNode
  BY <1>1, NodesNest DEF IsText
<1>3. text \in Seq(Char) /\ fmt \in Format /\ t \in Text /\ n.ts = <<t>> /\ t.tag = "t" /\ t.keep \in BOOLEAN
  <2>1. n.ts \in Seq(Text) /\ fmt \in Format
    BY <1>2 DEF RunNode
  <2>2. t \in Text /\ 1 \in DOMAIN n.ts
    BY <1>1, <2>1, LenProperties
  <2>3. n.ts = <<t>>
    <3> DEFINE ts == n.ts
    <3>1. ts \in Seq(Text) /\ Len(ts) = 1 /\ t = ts[1]
      BY <1>1, <2>1
    <3> HIDE DEF ts, t
    <3>2. ts = <<t>>
      BY <2>2, <3>1
    <3> QED BY <3>2 DEF ts
  <2>4. t.tag = "t"
    BY <1>1, <2>2 DEF IsText
  <2> QED BY <2>1, <2>2, <2>3, <2>4 DEF Text
<1>4. n = Piece(fmt, text, t.keep)
  <2>1. t = T(text, t.keep)
    BY <1>3 DEF T, Text
  <2>2. n = Run(fmt, <<t>>)
    BY <1>2, <1>3 DEF Run, RunNode
  <2> QED BY <2>1, <2>2, Zenon DEF Piece
<1>5. nodes = DeletedNodes(fmt, text, cut, keep)
  <2> DEFINE x == SubSeq(text, cut + 1, Len(text))
  <2>1. Deleted(Run(fmt, <<T(x, keep)>>)) = Run(fmt, <<DelText(x, keep)>>)
    <3> HIDE DEF x
    <3> QED BY DEF Deleted, Run, T, DelText
  <2> QED BY <2>1, Zenon DEF DeletedNodes, Piece, Gone
<1>6. lapse = {} => keep \/ "newline" \notin Range(text)
  <2> HIDE DEF text
  <2>1. written.keep = keep /\ written.text = text
    BY DEF T
  <2> HIDE DEF written
  <2> QED BY <2>1 DEF NewlineLapse
<1>7. nodes \in Seq(Node) /\ (lapse = {} => SoundFor(n, nodes))
  <2> HIDE DEF text, fmt, nodes, n, t, lapse
  <2> QED BY <1>1, <1>3, <1>4, <1>5, <1>6, DeletedNodesSound
<1> HIDE DEF nodes, lapse
<1> QED BY <1>1, <1>7 DEF SoundEdit
-----------------------------------------------------------------------------
(* Each edit is a sound one; a mistake is one with a lapse.                *)
LEMMA TrackInsertIsSound ==
  ASSUME NEW p, NEW i, NEW keep \in BOOLEAN, body[p][i] \in Node, TrackInsert(p, i, keep)
  PROVE  SoundEdit(p, i)
<1> DEFINE n == body[p][i]
           ins == Ins("Claude", <<Run("plain", <<T(<<"space", "new">>, keep)>>)>>)
           nodes == <<n, ins>>
<1>1. EditBody(p, i, nodes, {})
  BY Zenon DEF TrackInsert
<1>2. nodes \in Seq(Node) /\ SoundFor(n, nodes)
  BY NewTextSound
<1> HIDE DEF nodes
<1> QED BY <1>1, <1>2 DEF SoundEdit

LEMMA RejectInsertionIsSound ==
  ASSUME NEW p, NEW i, body[p][i] \in Node, RejectInsertion(p, i)
  PROVE  SoundEdit(p, i)
<1> DEFINE n == body[p][i]
           nodes == <<RejectedNode(n.author, n.kids)>>
<1>1. n.kind = "ins" /\ n.author # "Claude" /\ (\A k \in DOMAIN n.kids : IsText(n.kids[k])) /\ EditBody(p, i, nodes, {})
  BY Zenon DEF RejectInsertion, RejectedNode, KidsDeleted
<1>2. nodes \in Seq(Node) /\ SoundFor(n, nodes)
  BY <1>1, RejectedSound
<1> HIDE DEF nodes
<1> QED BY <1>1, <1>2 DEF SoundEdit

LEMMA RestoreDeletionIsSound ==
  ASSUME NEW p, NEW i, body[p][i] \in Node, RestoreDeletion(p, i)
  PROVE  SoundEdit(p, i)
<1> DEFINE n == body[p][i]
           nodes == <<n, Ins("Claude", KidsRestored(n.kids))>>
           lapse == NewlineLapse(TextsIn(n))
<1>1. n.kind = "del" /\ (\A k \in DOMAIN n.kids : n.kids[k].kind = "run") /\ EditBody(p, i, nodes, lapse)
  BY Zenon DEF RestoreDeletion, KidsRestored
<1>2. nodes \in Seq(Node) /\ (Written(n.kids) => SoundFor(n, nodes))
  BY <1>1, RestoredSound
<1>3. lapse = {} => Written(n.kids)
  BY NoLapse
<1> HIDE DEF nodes, lapse
<1> QED BY <1>1, <1>2, <1>3 DEF SoundEdit

LEMMA UndoIsSound ==
  ASSUME NEW p, NEW i, body[p][i] \in Node, Undo(p, i)
  PROVE  SoundEdit(p, i)
<1> DEFINE n == body[p][i]
           nodes == IF n.kind = "ins" THEN <<>> ELSE KidsRestored(n.kids)
           lapse == IF n.kind = "ins" THEN {} ELSE NewlineLapse(TextsIn(n))
<1>1. /\ IsWrap(n) /\ n.author = "Claude" /\ \A k \in DOMAIN n.kids : n.kids[k].kind = "run"
      /\ EditBody(p, i, nodes, lapse)
  BY Zenon DEF Undo, KidsRestored
<1>2. CASE n.kind = "ins"
  <2>1. SoundFor(n, nodes)
    BY <1>1, <1>2, UndoneInsertion
  <2>2. nodes \in Seq(Node)
    BY <1>2
  <2> HIDE DEF nodes, lapse
  <2> QED BY <1>1, <2>1, <2>2 DEF SoundEdit
<1>3. CASE n.kind = "del"
  <2>1. lapse = {} => Written(n.kids)
    BY <1>3, NoLapse
  <2>2. nodes = KidsRestored(n.kids) /\ nodes \in Seq(Node)
    BY <1>1, <1>3, RestoredTyped
  <2> HIDE DEF nodes, lapse
  <2>3. lapse = {} => SoundFor(n, nodes)
    BY <1>1, <1>3, <2>1, <2>2, UndoneDeletion
  <2> QED BY <1>1, <2>2, <2>3 DEF SoundEdit
<1> QED BY <1>1, <1>2, <1>3 DEF IsWrap

LEMMA MistakesAreLapses ==
  ASSUME NEW p, NEW i, body[p][i] \in Node, EditUntracked(p, i) \/ DeleteText(p, i)
  PROVE  SoundEdit(p, i)
<1> DEFINE n == body[p][i]
<1>1. CASE EditUntracked(p, i)
  <2> DEFINE run == Run("plain", <<T(<<"new">>, FALSE)>>)
             nodes == <<run>>
             lapse == {"untracked"}
  <2>1. EditBody(p, i, nodes, lapse) /\ lapse # {}
    BY <1>1, Zenon DEF EditUntracked
  <2>2. <<"new">> \in Seq(Char)
    BY AuthorIsPerson
  <2>3. run \in Node
    BY <2>2, NewRun, AuthorIsPerson, NodesNest
  <2> HIDE DEF run, lapse
  <2>4. nodes \in Seq(Node)
    BY <2>3
  <2> HIDE DEF nodes
  <2> QED BY <2>1, <2>4 DEF SoundEdit
<1>2. CASE DeleteText(p, i)
  <2> DEFINE del == Del("Claude", <<n>>)
             nodes == <<del>>
             lapse == {"text in deletion"}
  <2>1. IsText(n) /\ EditBody(p, i, nodes, lapse)
    BY <1>2, Zenon DEF DeleteText
  <2>0. lapse # {}
    BY Zenon
  <2> HIDE DEF lapse
  <2>2. n \in PlainNode
    BY <2>1, NodesNest DEF IsText
  <2> HIDE DEF n
  <2>3. <<n>> \in Seq(PlainNode)
    BY <2>2
  <2>4. del \in Node
    BY <2>3, WrapsMade, AuthorIsPerson
  <2> HIDE DEF del
  <2>5. nodes \in Seq(Node)
    BY <2>4
  <2> HIDE DEF nodes
  <2> QED BY <2>0, <2>1, <2>5 DEF SoundEdit
<1> QED BY <1>1, <1>2

(* Whatever the author does to a node of a body is such an edit.           *)
LEMMA AuthorEditsSound ==
  ASSUME NEW p, NEW i, body[p][i] \in Node,
         \/ \E cut \in 0 .. 1, keep \in BOOLEAN : TrackDelete(p, i, cut, keep)
         \/ \E keep \in BOOLEAN : TrackInsert(p, i, keep)
         \/ RejectInsertion(p, i) \/ RestoreDeletion(p, i) \/ Undo(p, i)
         \/ EditUntracked(p, i) \/ DeleteText(p, i)
  PROVE  SoundEdit(p, i)
<1>1. ASSUME NEW cut \in 0 .. 1, NEW keep \in BOOLEAN, TrackDelete(p, i, cut, keep)
      PROVE  SoundEdit(p, i)
  BY <1>1, TrackDeleteIsSound, Zenon
<1>2. ASSUME NEW keep \in BOOLEAN, TrackInsert(p, i, keep)
      PROVE  SoundEdit(p, i)
  BY <1>2, TrackInsertIsSound, Zenon
<1>3. CASE RejectInsertion(p, i) \/ RestoreDeletion(p, i) \/ Undo(p, i)
  BY <1>3, RejectInsertionIsSound, RestoreDeletionIsSound, UndoIsSound, Zenon
<1>4. CASE EditUntracked(p, i) \/ DeleteText(p, i)
  BY <1>4, MistakesAreLapses, Zenon
<1> QED BY <1>1, <1>2, <1>3, <1>4, Zenon
-----------------------------------------------------------------------------
(* The whole body: every text is right, and with the changes by Claude     *)
(* rejected every paragraph says what it did.                              *)
BodySound ==
  /\ ReadsNothing(WrongOf, body)
  /\ DOMAIN body = DOMAIN originalBody
  /\ ReadsAlike(LeftOf("Claude"), body, originalBody)

(* A sound edit keeps the body sound.                                      *)
LEMMA SoundEditKeeps ==
  ASSUME BodySound, body \in Body, NEW p \in DOMAIN body, NEW i \in DOMAIN body[p],
         NEW nodes \in Seq(Node), SoundFor(body[p][i], nodes), body' = Replaced(body, p, i, nodes),
         originalBody' = originalBody
  PROVE  BodySound'
<1> DEFINE L == LeftOf("Claude")
           R == WrongOf
           c == Replaced(body, p, i, nodes)
<1>1. L \in [Entry -> Seq(Char)] /\ R \in [Entry -> Seq(BOOLEAN)]
  BY ReadingsTyped
<1>2. /\ Each(NodeReads(L), nodes) = NodeReads(L)[body[p][i]]
      /\ NodeReads(R)[body[p][i]] = <<>> => Each(NodeReads(R), nodes) = <<>>
  BY Zenon DEF SoundFor
<1>3. ReadsNothing(R, body) /\ DOMAIN body = DOMAIN originalBody /\ ReadsAlike(L, body, originalBody)
  BY Zenon DEF BodySound
<1> HIDE DEF L, R
<1>4. ReadsAlike(L, c, body)
  BY <1>1, <1>2, ReplacedReads
<1>5. ReadsNothing(R, c)
  BY <1>1, <1>2, <1>3, ReplacedReads
<1>6. DOMAIN c = DOMAIN body
  BY DEF Replaced
<1> HIDE DEF c
<1>7. ReadsAlike(L, c, originalBody)
  BY <1>3, <1>4 DEF ReadsAlike
<1>8. ReadsNothing(R, body') /\ DOMAIN body' = DOMAIN originalBody' /\ ReadsAlike(L, body', originalBody')
  BY <1>3, <1>5, <1>6, <1>7, Zenon DEF c
<1> QED BY <1>8, Zenon DEF BodySound, L, R
-----------------------------------------------------------------------------
(* Nothing is read of a body if nothing is of any of its texts.            *)
LEMMA AllTextsRead ==
  ASSUME NEW W, NEW g \in [Entry -> Seq(W)], NEW b \in Body
  PROVE  /\ AllTexts(b) \subseteq Entry
         /\ ReadsNothing(g, b) <=> \A e \in AllTexts(b) : g[e] = <<>>
<1>1. \A p \in DOMAIN b : Texts(b[p]) \in Seq(Entry)
  <2>1. \A p \in DOMAIN b : b[p] \in Seq(Node)
    BY LenProperties DEF Body
  <2> QED BY <2>1, TextsAre
<1>2. \A s \in Seq(Entry) : Range(s) \subseteq Entry
  <2>1. \A s \in Seq(Entry) : \A k \in DOMAIN s : s[k] \in Entry
    BY LenProperties
  <2> QED BY <2>1 DEF Range
<1>3. AllTexts(b) \subseteq Entry
  BY <1>1, <1>2 DEF AllTexts
<1>4. \A s \in Seq(Entry) : Each(g, s) = <<>> <=> \A e \in Range(s) : g[e] = <<>>
  <2>1. \A s \in Seq(Entry) : Each(g, s) = <<>> <=> \A k \in DOMAIN s : g[s[k]] = <<>>
    <3> DEFINE E == Entry
    <3>1. g \in [E -> Seq(W)]
      OBVIOUS
    <3> HIDE DEF E
    <3>2. \A s \in Seq(E) : Each(g, s) = <<>> <=> \A k \in DOMAIN s : g[s[k]] = <<>>
      BY <3>1, NothingOfEach
    <3> QED BY <3>2 DEF E
  <2> QED BY <2>1 DEF Range
<1>5. ReadsNothing(g, b) <=> \A p \in DOMAIN b : \A e \in Range(Texts(b[p])) : g[e] = <<>>
  BY <1>1, <1>4 DEF ReadsNothing
<1>6. ReadsNothing(g, b) <=> \A e \in AllTexts(b) : g[e] = <<>>
  BY <1>5 DEF AllTexts
<1> QED BY <1>3, <1>6

(* A body is right if nothing is read by WrongOf.                          *)
RightIn(b) == \A e \in AllTexts(b) : Right(e)

LEMMA RightIsRead ==
  ASSUME NEW b \in Body
  PROVE  ReadsNothing(WrongOf, b) <=> RightIn(b)
<1>1. WrongOf \in [Entry -> Seq(BOOLEAN)] /\ \A e \in Entry : WrongOf[e] = <<>> <=> Right(e)
  BY WrongOfTyped
<1>2. AllTexts(b) \subseteq Entry /\ (ReadsNothing(WrongOf, b) <=> \A e \in AllTexts(b) : WrongOf[e] = <<>>)
  BY <1>1, AllTextsRead
<1> HIDE DEF Right
<1> QED BY <1>1, <1>2 DEF RightIn

(* A text without xml:space that the validators refuse.                    *)
Bare(e) == e.t.tag = "t" /\ EdgeIn(e.t.text, Blank) /\ ~e.t.keep
BareOf == [e \in Entry |-> IF Bare(e) THEN <<TRUE>> ELSE <<>>]

LEMMA BareIsRead ==
  ASSUME NEW b \in Body
  PROVE  /\ BareOf \in [Entry -> Seq(BOOLEAN)] /\ \A e \in Entry : BareOf[e] = <<>> <=> ~Bare(e)
         /\ ReadsNothing(BareOf, b) <=> WhitespacePreserved(b)
<1>1. BareOf \in [Entry -> Seq(BOOLEAN)] /\ \A e \in Entry : BareOf[e] = <<>> <=> ~Bare(e)
  <2> DEFINE r(e) == Bare(e)
  <2>1. BareOf = [e \in Entry |-> IF r(e) THEN <<TRUE>> ELSE <<>>]
    BY DEF BareOf
  <2> HIDE DEF r
  <2>2. <<TRUE>> \in Seq(BOOLEAN) /\ <<>> \in Seq(BOOLEAN) /\ <<TRUE>> # <<>>
    OBVIOUS
  <2>3. BareOf \in [Entry -> Seq(BOOLEAN)]
    BY <2>1, <2>2
  <2>4. \A e \in Entry : BareOf[e] = <<>> <=> ~r(e)
    BY <2>1, <2>2
  <2> QED BY <2>3, <2>4 DEF r
<1>2. AllTexts(b) \subseteq Entry /\ (ReadsNothing(BareOf, b) <=> \A e \in AllTexts(b) : BareOf[e] = <<>>)
  BY <1>1, AllTextsRead
<1>3. WhitespacePreserved(b) <=> \A e \in AllTexts(b) : ~Bare(e)
  BY DEF WhitespacePreserved, Bare
<1> HIDE DEF Bare
<1> QED BY <1>1, <1>2, <1>3

(* What is read of a body that is repaired.                                *)
Repaired(e) == EntryOf(RepairOf[e.t], e.fmt, e.ins, e.del)

LEMMA RepairedEntry ==
  ASSUME NEW e \in Entry
  PROVE  /\ Repaired(e) \in Entry
         /\ Repaired(e).t.text = e.t.text /\ Repaired(e).t.tag = e.t.tag
         /\ Repaired(e).ins = e.ins /\ Repaired(e).del = e.del
         /\ Repaired(e).t.keep <=> e.t.keep \/ (e.t.tag = "t" /\ EdgeIn(e.t.text, {"space", "tab"}))
<1> DEFINE t == e.t
           r == RepairOf[t]
           c == Repaired(e)
<1>1. t \in Text /\ e.fmt \in Format /\ e.ins \in Holder /\ e.del \in Holder
  BY DEF Entry
<1>2. r \in Text /\ r.text = t.text /\ r.tag = t.tag
  BY <1>1, RepairOfTyped
<1>3. r.keep <=> t.keep \/ (t.tag = "t" /\ EdgeIn(t.text, {"space", "tab"}))
  <2> DEFINE keep == t.keep \/ (t.tag = "t" /\ EdgeIn(t.text, {"space", "tab"}))
  <2>1. RepairOf[t] = [t EXCEPT !.keep = keep]
    BY <1>1 DEF RepairOf
  <2> HIDE DEF keep, t
  <2>2. r.keep = keep
    BY <1>1, <2>1 DEF Text
  <2> QED BY <2>2 DEF keep, t
<1> HIDE DEF r
<1>4. c \in Entry /\ c.t = r /\ c.ins = e.ins /\ c.del = e.del
  BY <1>1, <1>2 DEF Repaired, EntryOf, Entry, r
<1> HIDE DEF c, t
<1> QED BY <1>2, <1>3, <1>4 DEF c, t

LEMMA RepairedReads ==
  ASSUME NEW W, NEW g \in [Entry -> Seq(W)], NEW b \in Body
  PROVE  /\ RepairWhitespace(b) \in Body /\ DOMAIN RepairWhitespace(b) = DOMAIN b
         /\ ReadsNothing(g, RepairWhitespace(b)) <=> \A e \in AllTexts(b) : g[Repaired(e)] = <<>>
<1> DEFINE u == OnTs(RepairOf, b)
           h == After(RepairOf, g)
<1>1. RepairWhitespace(b) = u
  BY Zenon DEF RepairWhitespace, RepairOf
<1>2. u \in Body /\ DOMAIN u = DOMAIN b /\ \A p \in DOMAIN b : Each(g, Texts(u[p])) = Each(h, Texts(b[p]))
  BY RepairOfTyped, OnTsReads
<1>3. h \in [Entry -> Seq(W)]
  BY RepairOfTyped, AfterTyped
<1>4. \A e \in Entry : h[e] = g[Repaired(e)]
  BY DEF After, Repaired
<1> HIDE DEF u, h
<1>5. ReadsNothing(g, u) <=> ReadsNothing(h, b)
  BY <1>2 DEF ReadsNothing
<1>6. AllTexts(b) \subseteq Entry /\ (ReadsNothing(h, b) <=> \A e \in AllTexts(b) : h[e] = <<>>)
  BY <1>3, AllTextsRead
<1> QED BY <1>1, <1>2, <1>4, <1>5, <1>6
-----------------------------------------------------------------------------
(* A repair takes nothing wrong in, and what was right keeps its ends.     *)
LEMMA RepairedIsRight ==
  ASSUME NEW e \in Entry
  PROVE  /\ Right(e) => Right(Repaired(e)) /\ ~Bare(Repaired(e))
         /\ LeftOf("Claude")[Repaired(e)] = LeftOf("Claude")[e]
<1> DEFINE c == Repaired(e)
<1>1. /\ c \in Entry /\ c.t.text = e.t.text /\ c.t.tag = e.t.tag /\ c.ins = e.ins /\ c.del = e.del
      /\ c.t.keep <=> e.t.keep \/ (e.t.tag = "t" /\ EdgeIn(e.t.text, {"space", "tab"}))
  BY RepairedEntry
<1> HIDE DEF c
<1>2. Right(e) => Right(c)
  BY <1>1 DEF Right, EdgeKept
<1>3. Right(e) => ~Bare(c)
  BY <1>1 DEF Right, EdgeKept, Bare
<1>4. LeftOf("Claude")[c] = LeftOf("Claude")[e]
  <2> DEFINE who == "Claude"
  <2> HIDE DEF who
  <2>1. LeftOf(who)[c] = TextLeft(c, who) /\ LeftOf(who)[e] = TextLeft(e, who)
    BY <1>1 DEF LeftOf
  <2>2. TextLeft(c, who) = TextLeft(e, who)
    BY <1>1 DEF TextLeft
  <2> QED BY <2>1, <2>2, Zenon DEF who
<1> QED BY <1>2, <1>3, <1>4 DEF c

LEMMA RepairedBody ==
  ASSUME NEW b \in Body, RightIn(b)
  PROVE  /\ RepairWhitespace(b) \in Body /\ DOMAIN RepairWhitespace(b) = DOMAIN b
         /\ RightIn(RepairWhitespace(b)) /\ WhitespacePreserved(RepairWhitespace(b))
         /\ ReadsAlike(LeftOf("Claude"), RepairWhitespace(b), b)
<1> DEFINE u == RepairWhitespace(b)
           L == LeftOf("Claude")
<1>1. /\ WrongOf \in [Entry -> Seq(BOOLEAN)] /\ L \in [Entry -> Seq(Char)]
      /\ \A e \in Entry : WrongOf[e] = <<>> <=> Right(e)
      /\ BareOf \in [Entry -> Seq(BOOLEAN)] /\ \A e \in Entry : BareOf[e] = <<>> <=> ~Bare(e)
  BY ReadingsTyped, WrongOfTyped, BareIsRead
<1>2. \A e \in AllTexts(b) : e \in Entry /\ Right(e)
  BY <1>1, AllTextsRead DEF RightIn
<1>3. \A e \in AllTexts(b) : Repaired(e) \in Entry /\ Right(Repaired(e)) /\ ~Bare(Repaired(e))
  BY <1>2, RepairedEntry, RepairedIsRight
<1>4. u \in Body /\ DOMAIN u = DOMAIN b
  BY <1>1, RepairedReads
<1>5. \A e \in AllTexts(b) : WrongOf[Repaired(e)] = <<>> /\ BareOf[Repaired(e)] = <<>>
  <2> HIDE DEF Right, Bare
  <2> QED BY <1>1, <1>3
<1>6. ReadsNothing(WrongOf, u) /\ ReadsNothing(BareOf, u)
  BY <1>1, <1>5, RepairedReads
<1>7. ReadsAlike(L, u, b)
  <2>1. u = OnTs(RepairOf, b)
    BY Zenon DEF RepairWhitespace, RepairOf
  <2>2. After(RepairOf, L) = L
    <3>1. \A e \in Entry : L[EntryOf(RepairOf[e.t], e.fmt, e.ins, e.del)] = L[e]
      <4>1. \A e \in Entry : L[Repaired(e)] = L[e]
        BY RepairedIsRight
      <4> HIDE DEF L
      <4> QED BY <4>1 DEF Repaired
    <3>2. L = [e \in Entry |-> L[e]]
      BY <1>1
    <3> HIDE DEF L
    <3> QED BY <3>1, <3>2 DEF After
  <2> HIDE DEF L
  <2>3. \A p \in DOMAIN b : Each(L, Texts(OnTs(RepairOf, b)[p])) = Each(After(RepairOf, L), Texts(b[p]))
    BY <1>1, RepairOfTyped, OnTsReads
  <2> QED BY <2>1, <2>2, <2>3 DEF ReadsAlike
<1> HIDE DEF u, L
<1>8. RightIn(u) /\ WhitespacePreserved(u)
  BY <1>4, <1>6, RightIsRead, BareIsRead
<1> QED BY <1>4, <1>7, <1>8 DEF u, L

(* A body that is right passes the validators once it is repaired.         *)
LEMMA RightIsValid ==
  ASSUME NEW b, RightIn(b)
  PROVE  DeletionsValid(b) /\ InsertionsValid(b)
BY DEF RightIn, Right, DeletionsValid, InsertionsValid

LEMMA SoundIsRedlined ==
  ASSUME NEW b \in Body, NEW c \in Body, DOMAIN b = DOMAIN c, ReadsAlike(LeftOf("Claude"), b, c)
  PROVE  Redlined(c, b, "Claude")
<1>1. \A p \in DOMAIN b : Each(LeftOf("Claude"), Texts(b[p])) = Each(LeftOf("Claude"), Texts(c[p]))
  BY DEF ReadsAlike
<1>2. TextContent(b, "Claude") = TextContent(c, "Claude")
  BY <1>1, SameContent
<1> QED BY <1>2 DEF Redlined

LEMMA RepairSound ==
  ASSUME BodySound, body \in Body, originalBody \in Body, body' = RepairWhitespace(body), originalBody' = originalBody
  PROVE  /\ BodySound'
         /\ WhitespacePreserved(body') /\ DeletionsValid(body') /\ InsertionsValid(body')
         /\ Redlined(originalBody, body', "Claude")
<1> DEFINE L == LeftOf("Claude")
           u == RepairWhitespace(body)
<1>1. RightIn(body) /\ DOMAIN body = DOMAIN originalBody /\ ReadsAlike(L, body, originalBody)
  BY RightIsRead DEF BodySound
<1>2. /\ u \in Body /\ DOMAIN u = DOMAIN body /\ RightIn(u) /\ WhitespacePreserved(u) /\ ReadsAlike(L, u, body)
  BY <1>1, RepairedBody
<1> HIDE DEF L, u
<1>3. ReadsAlike(L, u, originalBody)
  BY <1>1, <1>2 DEF ReadsAlike
<1>4. DeletionsValid(u) /\ InsertionsValid(u) /\ ReadsNothing(WrongOf, u)
  BY <1>2, RightIsValid, RightIsRead
<1>5. Redlined(originalBody, u, "Claude")
  BY <1>1, <1>2, <1>3, SoundIsRedlined DEF L
<1>6. ReadsNothing(WrongOf, body') /\ DOMAIN body' = DOMAIN originalBody' /\ ReadsAlike(L, body', originalBody')
  BY <1>1, <1>2, <1>3, <1>4 DEF u
<1>7. BodySound'
  BY <1>6, Zenon DEF BodySound, L
<1> QED BY <1>2, <1>4, <1>5, <1>7 DEF u
-----------------------------------------------------------------------------
(* A reading that takes the text or nothing is the same for joined texts.  *)
LEMMA TextOrNothing ==
  ASSUME NEW g \in [Entry -> Seq(Char)], NEW P,
         \A e \in Entry : e.t.tag = "t" => g[e] = IF <<e.ins, e.del>> \in P THEN e.t.text ELSE <<>>
  PROVE  Additive(g, Char)
<1>1. ASSUME NEW x \in Text, NEW y \in Text, NEW fmt \in Format, NEW ins \in Holder, NEW del \in Holder, BothTexts(x, y)
      PROVE  g[EntryOf(JoinTexts(x, y), fmt, ins, del)] = g[EntryOf(x, fmt, ins, del)] \o g[EntryOf(y, fmt, ins, del)]
  <2> DEFINE j == JoinTexts(x, y)
             xy == x.text \o y.text
  <2>1. x.text \in Seq(Char) /\ y.text \in Seq(Char) /\ x.tag = "t" /\ y.tag = "t"
    BY <1>1 DEF Text, BothTexts
  <2>2. xy \in Seq(Char)
    BY <2>1, ConcatProperties
  <2>3. j \in Text /\ j.text = xy /\ j.tag = "t"
    <3>1. EdgeIn(xy, {"space"}) \in BOOLEAN
      BY DEF EdgeIn
    <3> HIDE DEF xy
    <3>2. j = [tag |-> "t", text |-> xy, keep |-> EdgeIn(xy, {"space"})]
      BY DEF JoinTexts, T, xy
    <3> HIDE DEF j
    <3> QED BY <2>2, <3>1, <3>2 DEF Text
  <2>4. ASSUME NEW t \in Text, t.tag = "t"
        PROVE  g[EntryOf(t, fmt, ins, del)] = IF <<ins, del>> \in P THEN t.text ELSE <<>>
    <3> DEFINE e == EntryOf(t, fmt, ins, del)
    <3>1. e \in Entry /\ e.t = t /\ e.ins = ins /\ e.del = del
      BY DEF EntryOf, Entry
    <3> HIDE DEF e
    <3> QED BY <2>4, <3>1 DEF e
  <2>5. /\ g[EntryOf(x, fmt, ins, del)] = IF <<ins, del>> \in P THEN x.text ELSE <<>>
        /\ g[EntryOf(y, fmt, ins, del)] = IF <<ins, del>> \in P THEN y.text ELSE <<>>
        /\ g[EntryOf(j, fmt, ins, del)] = IF <<ins, del>> \in P THEN x.text \o y.text ELSE <<>>
    <3> HIDE DEF j
    <3> QED BY <2>1, <2>3, <2>4
  <2>6. <<>> \o <<>> = <<>>
    OBVIOUS
  <2> HIDE DEF j
  <2> QED BY <2>5, <2>6, Zenon DEF j
<1> QED BY <1>1 DEF Additive

LEMMA LeftIsAdditive == Additive(LeftOf("Claude"), Char)
<1> DEFINE who == "Claude"
           g == LeftOf(who)
           P == {q \in Holder \X Holder : q[1] # who}
<1>1. g \in [Entry -> Seq(Char)]
  BY LeftOfTyped
<1>2. ASSUME NEW e \in Entry, e.t.tag = "t"
      PROVE  g[e] = IF <<e.ins, e.del>> \in P THEN e.t.text ELSE <<>>
  <2> HIDE DEF who
  <2>1. g[e] = TextLeft(e, who)
    BY DEF LeftOf
  <2>2. <<e.ins, e.del>> \in P <=> e.ins # who
    BY DEF Entry
  <2> HIDE DEF P, g
  <2> QED BY <1>2, <2>1, <2>2 DEF TextLeft
<1> HIDE DEF P, g
<1> QED BY <1>1, <1>2, TextOrNothing DEF g

(* A text that is deleted as a w:t, and one that is inserted as a delText. *)
DeletedWell(e) == e.del # NoAuthor => e.t.tag = "delText" \/ e.t.text = <<>>
InsertedWell(e) == e.ins # NoAuthor /\ e.del = NoAuthor => e.t.tag = "t"
UndeletedOf == [e \in Entry |-> IF e.del # NoAuthor /\ e.t.tag # "delText" THEN e.t.text ELSE <<>>]
UninsertedOf == [e \in Entry |-> IF InsertedWell(e) THEN <<>> ELSE <<"new">>]

LEMMA UndeletedIs ==
  /\ Additive(UndeletedOf, Char) /\ UndeletedOf \in [Entry -> Seq(Char)]
  /\ \A e \in Entry : UndeletedOf[e] = <<>> <=> DeletedWell(e)
<1> DEFINE P == {q \in Holder \X Holder : q[2] # NoAuthor}
<1>1. ASSUME NEW e \in Entry
      PROVE  UndeletedOf[e] = (IF e.del # NoAuthor /\ e.t.tag # "delText" THEN e.t.text ELSE <<>>) /\ e.t.text \in Seq(Char)
  BY DEF UndeletedOf, Entry, Text
<1>2. UndeletedOf \in [Entry -> Seq(Char)]
  <2>1. ASSUME NEW e \in Entry PROVE UndeletedOf[e] \in Seq(Char)
    <3>1. UndeletedOf[e] = e.t.text \/ UndeletedOf[e] = <<>>
      BY <1>1
    <3>2. e.t.text \in Seq(Char) /\ <<>> \in Seq(Char)
      BY <1>1
    <3> QED BY <3>1, <3>2, Zenon
  <2>2. UndeletedOf = [e \in Entry |-> UndeletedOf[e]]
    BY DEF UndeletedOf
  <2> QED BY <2>1, <2>2
<1>3. ASSUME NEW e \in Entry, e.t.tag = "t"
      PROVE  UndeletedOf[e] = IF <<e.ins, e.del>> \in P THEN e.t.text ELSE <<>>
  <2>1. <<e.ins, e.del>> \in P <=> e.del # NoAuthor
    BY DEF Entry
  <2> HIDE DEF P
  <2> QED BY <1>1, <1>3, <2>1
<1> HIDE DEF P
<1>4. Additive(UndeletedOf, Char)
  BY <1>2, <1>3, TextOrNothing
<1>5. \A e \in Entry : UndeletedOf[e] = <<>> <=> DeletedWell(e)
  BY <1>1 DEF DeletedWell
<1> QED BY <1>2, <1>4, <1>5

LEMMA UninsertedIs ==
  /\ Additive(UninsertedOf, Char) /\ UninsertedOf \in [Entry -> Seq(Char)]
  /\ \A e \in Entry : UninsertedOf[e] = <<>> <=> InsertedWell(e)
<1> DEFINE P == {}
           r(e) == InsertedWell(e)
<1>0. UninsertedOf = [e \in Entry |-> IF r(e) THEN <<>> ELSE <<"new">>]
  BY DEF UninsertedOf
<1>1. <<"new">> \in Seq(Char) /\ <<>> \in Seq(Char) /\ <<"new">> # <<>>
  BY AuthorIsPerson
<1> HIDE DEF r
<1>2. UninsertedOf \in [Entry -> Seq(Char)] /\ \A e \in Entry : UninsertedOf[e] = <<>> <=> r(e)
  BY <1>0, <1>1
<1>3. ASSUME NEW e \in Entry, e.t.tag = "t"
      PROVE  UninsertedOf[e] = IF <<e.ins, e.del>> \in P THEN e.t.text ELSE <<>>
  <2>1. r(e)
    BY <1>3 DEF InsertedWell, r
  <2> QED BY <1>2, <2>1
<1> HIDE DEF P
<1>4. Additive(UninsertedOf, Char)
  BY <1>2, <1>3, TextOrNothing
<1> QED BY <1>2, <1>4 DEF r

LEMMA ValidIsRead ==
  ASSUME NEW b \in Body
  PROVE  /\ ReadsNothing(UndeletedOf, b) <=> DeletionsValid(b)
         /\ ReadsNothing(UninsertedOf, b) <=> InsertionsValid(b)
<1>1. /\ AllTexts(b) \subseteq Entry
      /\ ReadsNothing(UndeletedOf, b) <=> \A e \in AllTexts(b) : UndeletedOf[e] = <<>>
      /\ ReadsNothing(UninsertedOf, b) <=> \A e \in AllTexts(b) : UninsertedOf[e] = <<>>
  BY UndeletedIs, UninsertedIs, AllTextsRead
<1>2. /\ DeletionsValid(b) <=> \A e \in AllTexts(b) : DeletedWell(e)
      /\ InsertionsValid(b) <=> \A e \in AllTexts(b) : InsertedWell(e)
  BY DEF DeletionsValid, InsertionsValid, DeletedWell, InsertedWell
<1> QED BY <1>1, <1>2, UndeletedIs, UninsertedIs

(* What is unpacked is right, unless a newline at an end was lost.         *)
LEMMA UnpackedIsRight ==
  ASSUME NEW b \in Body, NEW simplify \in BOOLEAN, NEW merge \in BOOLEAN,
         DeletionsValid(b), InsertionsValid(b),
         WhitespacePreserved(RepairWhitespace(Unpack(b, simplify, merge)))
  PROVE  /\ DOMAIN Unpack(b, simplify, merge) = DOMAIN b
         /\ ReadsNothing(WrongOf, Unpack(b, simplify, merge))
         /\ ReadsAlike(LeftOf("Claude"), Unpack(b, simplify, merge), b)
<1> DEFINE u == Unpack(b, simplify, merge)
           L == LeftOf("Claude")
<1>1. /\ Additive(L, Char) /\ Additive(UndeletedOf, Char) /\ Additive(UninsertedOf, Char)
  BY LeftIsAdditive, UndeletedIs, UninsertedIs
<1>2. /\ ReadsNothing(UndeletedOf, b) /\ ReadsNothing(UninsertedOf, b)
  BY ValidIsRead
<1>3. u \in Body /\ DOMAIN u = DOMAIN b /\ WhitespacePreserved(RepairWhitespace(u))
  BY <1>1, UnpackKeeps
<1>4. \A p \in DOMAIN b : /\ Each(L, Texts(u[p])) = Each(L, Texts(b[p]))
                          /\ Each(UndeletedOf, Texts(u[p])) = Each(UndeletedOf, Texts(b[p]))
                          /\ Each(UninsertedOf, Texts(u[p])) = Each(UninsertedOf, Texts(b[p]))
  <2> HIDE DEF L
  <2> QED BY <1>1, UnpackKeeps
<1> HIDE DEF u, L
<1>5. ReadsAlike(L, u, b)
  BY <1>4 DEF ReadsAlike
<1>6. ReadsNothing(UndeletedOf, u) /\ ReadsNothing(UninsertedOf, u)
  BY <1>2, <1>3, <1>4 DEF ReadsNothing
<1>7. DeletionsValid(u) /\ InsertionsValid(u)
  BY <1>3, <1>6, ValidIsRead
<1>8. \A e \in AllTexts(u) : e \in Entry /\ ~Bare(Repaired(e))
  <2>0. /\ BareOf \in [Entry -> Seq(BOOLEAN)] /\ \A e \in Entry : BareOf[e] = <<>> <=> ~Bare(e)
    BY <1>3, BareIsRead
  <2>1. ReadsNothing(BareOf, RepairWhitespace(u))
    <3>1. RepairWhitespace(u) \in Body
      BY <1>3, <2>0, RepairedReads
    <3> QED BY <1>3, <3>1, BareIsRead
  <2>2. \A e \in AllTexts(u) : e \in Entry /\ BareOf[Repaired(e)] = <<>>
    BY <1>3, <2>0, <2>1, RepairedReads, AllTextsRead
  <2>3. \A e \in Entry : Repaired(e) \in Entry
    BY RepairedEntry
  <2> HIDE DEF Bare
  <2> QED BY <2>0, <2>2, <2>3
<1>9. RightIn(u)
  <2>1. ASSUME NEW e \in AllTexts(u) PROVE Right(e)
    <3> DEFINE c == Repaired(e)
    <3>1. /\ c.t.text = e.t.text /\ c.t.tag = e.t.tag
          /\ c.t.keep <=> e.t.keep \/ (e.t.tag = "t" /\ EdgeIn(e.t.text, {"space", "tab"}))
          /\ ~Bare(c)
      BY <1>8, RepairedEntry
    <3> HIDE DEF c
    <3>2. e.t.tag = "t" => EdgeKept(e.t.text, e.t.keep)
      BY <3>1 DEF Bare, EdgeKept
    <3> QED BY <1>7, <3>2 DEF Right, DeletionsValid, InsertionsValid
  <2> QED BY <2>1 DEF RightIn
<1>10. ReadsNothing(WrongOf, u)
  BY <1>3, <1>9, RightIsRead
<1> QED BY <1>3, <1>5, <1>10 DEF u, L
-----------------------------------------------------------------------------
(* The types of a document.  A paragraph is neither added nor taken away,  *)
(* and a repair draws an ID once: it leaves none that is too large.        *)
DocumentTyped ==
  /\ DocumentTypeOK
  /\ Len(originalBody) \in Nat /\ DOMAIN body = 1 .. Len(originalBody)
  /\ (\E k \in ids : k[2] = TooLarge) => used <= MaxIds

LEMMA DocumentInitTyped ==
  ASSUME DocumentInit(Documents)
  PROVE  DocumentTyped
<1>1. PICK d \in Documents :
        /\ originalBody = d.body /\ bodyFaults = d.faults
        /\ parts = d.parts /\ related = d.parts
        /\ comments = d.comments /\ extended = d.extended /\ ids = d.ids /\ extensible = d.extensible
        /\ starts = {k[1] : k \in d.comments} /\ ends = starts /\ references = starts
        /\ used = Max({0} \cup {k[2] : k \in d.comments} \cup {k[2] : k \in d.ids})
  BY DEF DocumentInit
<1>2. /\ MaxIds \in Nat
      /\ d.body \in Body /\ d.faults \subseteq {"old"} /\ d.parts \subseteq CommentPart
      /\ d.comments \subseteq CommentId \X HexId /\ d.extended \subseteq HexId \X HexId
      /\ d.ids \subseteq HexId \X HexId /\ d.extensible \subseteq HexId
  BY DocumentAssumption
<1>3. used \in HexId
  <2> DEFINE drawn == {0} \cup {k[2] : k \in d.comments} \cup {k[2] : k \in d.ids}
  <2>1. drawn \in SUBSET Nat /\ drawn # {} /\ drawn \subseteq HexId /\ \A x \in drawn : x <= MaxIds
    BY <1>2 DEF HexId
  <2>2. used = Max(drawn)
    BY <1>1
  <2> HIDE DEF drawn
  <2>3. Max(drawn) \in drawn
    BY <1>2, <2>1, BoundedHasMax
  <2> QED BY <2>1, <2>2, <2>3
<1>4. Len(originalBody) \in Nat /\ DOMAIN originalBody = 1 .. Len(originalBody)
  BY <1>1, <1>2, LenProperties DEF Body
<1>5. DOMAIN body = 1 .. Len(originalBody) /\ body \in Body /\ packedBody \in Body
  <2>1. PICK simplify \in BOOLEAN, merge \in BOOLEAN : body = Unpack(originalBody, simplify, merge)
    BY DEF DocumentInit
  <2>2. body \in Body /\ DOMAIN body = DOMAIN originalBody
    BY <1>1, <1>2, <2>1, UnpackLetters
  <2>3. packedBody \in Body
    BY DEF DocumentInit, Body
  <2> QED BY <1>4, <2>2, <2>3
<1>6. Len(body) = Len(originalBody)
  BY <1>4, <1>5
<1>7. starts \subseteq CommentId
  BY <1>1, <1>2
<1>8. originalBody \in {c.body : c \in Documents}
  BY <1>1
<1>9. used \in DrawnId /\ used <= MaxIds /\ ids \subseteq HexId \X DrawnId
  BY <1>1, <1>2, <1>3 DEF HexId, DrawnId
<1> QED BY <1>1, <1>2, <1>4, <1>5, <1>6, <1>7, <1>8, <1>9 DEF DocumentTyped, DocumentTypeOK, Fault

LEMMA RepairTyped ==
  ASSUME DocumentTyped, Repair
  PROVE  /\ DOMAIN body' = DOMAIN body /\ body' \in Body /\ Letters(body') = Letters(body)
         /\ ids' \subseteq HexId \X DrawnId /\ used' \in DrawnId
         /\ ~\E k \in ids' : k[2] = TooLarge
<1>1. DOMAIN body' = DOMAIN body /\ body' \in Body /\ Letters(body') = Letters(body)
  <2>1. body \in Body
    BY DEF DocumentTyped, DocumentTypeOK
  <2>2. body' = body \/ body' = RepairWhitespace(body)
    BY DEF Repair
  <2> QED BY <2>1, <2>2, RepairLetters
<1>2. ids \subseteq HexId \X DrawnId /\ used \in DrawnId /\ MaxIds \in Nat
  BY DocumentAssumption DEF DocumentTyped, DocumentTypeOK
<1>3. ids' = RepairDurableId(ids) /\ used' = IF ids' = ids THEN used ELSE used + 1
  BY DEF Repair
<1>4. used \in Nat /\ used + 1 # TooLarge
  BY <1>2 DEF DrawnId, TooLarge
<1>5. ~\E k \in ids' : k[2] = TooLarge
  BY <1>2, <1>3, <1>4 DEF RepairDurableId
<1>6. CASE \E k \in ids : k[2] = TooLarge
  <2>1. used + 1 \in DrawnId
    BY <1>2, <1>6 DEF DocumentTyped, DrawnId
  <2>2. ids' \subseteq HexId \X DrawnId
    BY <1>2, <1>3, <2>1 DEF RepairDurableId
  <2> QED BY <1>1, <1>2, <1>3, <1>5, <2>1, <2>2
<1>7. CASE ~\E k \in ids : k[2] = TooLarge
  <2>1. ids' = ids
    BY <1>2, <1>3, <1>7 DEF RepairDurableId
  <2> QED BY <1>1, <1>2, <1>3, <1>5, <2>1
<1> QED BY <1>6, <1>7

LEMMA AddCommentTyped ==
  ASSUME DocumentTyped, NEW cid \in CommentId, NEW parent \in CommentId \cup {0}, AddComment(cid, parent)
  PROVE  DocumentTyped'
<1> DEFINE para == used + 1
           durable == used + 2
           known == comments \cup {<<cid, para>>}
           above == IF parent = 0 THEN 0 ELSE Min(ParasOf(parent, known))
<1>1. /\ comments \subseteq CommentId \X HexId /\ extended \subseteq HexId \X HexId
      /\ ids \subseteq HexId \X DrawnId /\ extensible \subseteq HexId /\ used \in DrawnId
      /\ parts \subseteq CommentPart /\ related \subseteq CommentPart /\ MaxIds \in Nat
  BY DocumentAssumption DEF DocumentTyped, DocumentTypeOK
<1>2. para \in HexId /\ durable \in HexId /\ durable \in DrawnId /\ durable # TooLarge /\ durable <= MaxIds
  <2>1. used + 2 <= MaxIds
    BY Zenon DEF AddComment
  <2> QED BY <1>1, <2>1 DEF HexId, DrawnId, TooLarge
<1>3. comments' = known /\ used' = durable /\ related' = Related /\ UNCHANGED <<bodyVars, markerVars>>
  BY Zenon DEF AddComment
<1>4. known \subseteq CommentId \X HexId /\ Related \subseteq CommentPart
  BY <1>1, <1>2 DEF Related
<1>5. /\ parts' \subseteq CommentPart /\ extended' \subseteq HexId \X HexId
      /\ ids' \subseteq HexId \X DrawnId /\ extensible' \subseteq HexId
  <2>1. CASE parent = 0 \/ ParasOf(parent, known) # {}
    <3>1. /\ parts' = CommentPart /\ extended' = extended \cup {<<para, above>>}
          /\ ids' = ids \cup {<<para, durable>>} /\ extensible' = extensible \cup {durable}
      BY <2>1, Zenon DEF AddComment, Extended
    <3>2. above \in HexId
      <4>1. ParasOf(parent, known) \in SUBSET HexId
        BY <1>4 DEF ParasOf
      <4>2. HexId \in SUBSET Nat /\ 0 \in HexId
        BY <1>1 DEF HexId
      <4>3. parent # 0 => Min(ParasOf(parent, known)) \in ParasOf(parent, known)
        BY <2>1, <4>1, <4>2, NaturalsHaveMin
      <4> QED BY <4>1, <4>2, <4>3
    <3> HIDE DEF above, para, durable
    <3> QED BY <1>1, <1>2, <3>1, <3>2
  <2>2. CASE ~(parent = 0 \/ ParasOf(parent, known) # {})
    <3>1. parts' = parts \cup {"comments", "extended"} /\ UNCHANGED <<extended, ids, extensible>>
      BY <2>2, Zenon DEF AddComment
    <3> QED BY <1>1, <3>1 DEF CommentPart
  <2> QED BY <2>1, <2>2
<1>6. UNCHANGED <<originalBody, body, packedBody, bodyFaults, starts, ends, references>>
  BY <1>3 DEF bodyVars, markerVars
<1> HIDE DEF para, durable, known
<1> QED BY <1>2, <1>3, <1>4, <1>5, <1>6 DEF DocumentTyped, DocumentTypeOK

(* An edit of a paragraph leaves the number of paragraphs.                 *)
LEMMA EditBodyTyped ==
  ASSUME DocumentTyped, NEW p \in DOMAIN body, NEW i \in DOMAIN body[p],
         NEW nodes \in Seq(Node), NEW lapse, EditBody(p, i, nodes, lapse)
  PROVE  DocumentTyped'
<1>1. /\ UNCHANGED <<originalBody, packedBody, bodyFaults, parts, related, comments, extended, ids, extensible, used>>
      /\ UNCHANGED <<starts, ends, references>>
  BY DEF EditBody, commentVars, markerVars
<1>2. DOMAIN body' = DOMAIN body
  BY DEF EditBody
<1>3. DOMAIN body' = 1 .. Len(originalBody) /\ Len(body') = Len(originalBody)
  BY <1>2 DEF DocumentTyped
<1>4. body' \in Body
  <2>1. body \in Body
    BY DEF DocumentTyped, DocumentTypeOK
  <2> DEFINE b == body
  <2>2. b \in Body /\ p \in DOMAIN b /\ i \in DOMAIN b[p]
    BY <2>1
  <2>3. body' = [b EXCEPT ![p] = SubSeq(@, 1, i - 1) \o nodes \o SubSeq(@, i + 1, Len(@))]
    BY DEF EditBody
  <2> HIDE DEF b
  <2> QED BY <2>2, <2>3, SplicedTyped
<1> QED BY <1>1, <1>3, <1>4 DEF DocumentTyped, DocumentTypeOK

LEMMA DocumentNextTyped ==
  ASSUME DocumentTyped, DocumentNext
  PROVE  DocumentTyped'
<1>1. ASSUME NEW p \in DOMAIN body, NEW i \in DOMAIN body[p],
             \/ \E cut \in 0 .. 1, keep \in BOOLEAN : TrackDelete(p, i, cut, keep)
             \/ \E keep \in BOOLEAN : TrackInsert(p, i, keep)
             \/ RejectInsertion(p, i) \/ RestoreDeletion(p, i) \/ Undo(p, i)
             \/ EditUntracked(p, i) \/ DeleteText(p, i)
      PROVE  DocumentTyped'
  <2>1. body[p][i] \in Node
    BY NodeOfBody DEF DocumentTyped, DocumentTypeOK
  <2>2. SoundEdit(p, i)
    BY <1>1, <2>1, AuthorEditsSound, Zenon
  <2>3. PICK nodes \in Seq(Node) : \E lapse : EditBody(p, i, nodes, lapse)
    BY <2>2, Zenon DEF SoundEdit
  <2>4. PICK lapse : EditBody(p, i, nodes, lapse)
    BY <2>3
  <2> QED BY <2>4, EditBodyTyped
<1>2. ASSUME NEW fault \in {"new", "malformed"}, SpoilBody(fault)
      PROVE  DocumentTyped'
  BY <1>2 DEF SpoilBody, commentVars, markerVars, Fault, DocumentTyped, DocumentTypeOK
<1>3. ASSUME NEW cid \in CommentId, NEW parent \in CommentId \cup {0}, AddComment(cid, parent)
      PROVE  DocumentTyped'
  BY <1>3, AddCommentTyped
<1>4. ASSUME NEW cid \in CommentId, NEW whole \in BOOLEAN, MarkComment(cid, whole)
      PROVE  DocumentTyped'
  <2>1. /\ UNCHANGED <<originalBody, body, packedBody, bodyFaults>>
        /\ UNCHANGED <<parts, related, comments, extended, ids, extensible, used>>
        /\ starts' \subseteq starts \cup {cid} /\ ends' \subseteq ends \cup {cid}
        /\ references' \subseteq references \cup {cid}
    <3>1. starts' = starts \cup {cid} /\ UNCHANGED <<bodyVars, commentVars>>
      BY <1>4, Zenon DEF MarkComment
    <3>2. (ends' = ends \cup {cid} /\ references' = references \cup {cid}) \/ UNCHANGED <<ends, references>>
      BY <1>4, Zenon DEF MarkComment
    <3> QED BY <3>1, <3>2 DEF bodyVars, commentVars
  <2> QED BY <2>1 DEF DocumentTyped, DocumentTypeOK
<1>5. ASSUME Repair, packedBody' \in Body,
             UNCHANGED <<originalBody, bodyFaults, parts, related, comments, extended, extensible, markerVars>>
      PROVE  DocumentTyped'
  <2>1. UNCHANGED <<starts, ends, references>>
    BY <1>5 DEF markerVars
  <2>2. /\ DOMAIN body' = DOMAIN body /\ body' \in Body /\ ids' \subseteq HexId \X DrawnId /\ used' \in DrawnId
        /\ ~\E k \in ids' : k[2] = TooLarge
    BY <1>5, RepairTyped
  <2>3. DOMAIN body' = 1 .. Len(originalBody) /\ Len(body') = Len(originalBody)
    BY <2>2 DEF DocumentTyped
  <2> QED BY <1>5, <2>1, <2>2, <2>3 DEF DocumentTyped, DocumentTypeOK
<1>6. CASE PackDocument
  <2>1. /\ Repair /\ (packedBody' = Condense(body') \/ packedBody' = packedBody)
        /\ UNCHANGED <<originalBody, bodyFaults, parts, related, comments, extended, extensible, markerVars>>
    BY <1>6, Zenon DEF PackDocument
  <2>2. body' \in Body /\ packedBody \in Body
    BY <2>1, RepairTyped DEF DocumentTyped, DocumentTypeOK
  <2>3. packedBody' \in Body
    BY <2>1, <2>2, CondensedTyped
  <2> QED BY <1>5, <2>1, <2>3
<1>7. ASSUME NEW against \in BOOLEAN, NEW repair \in BOOLEAN, ValidateDocument(against, repair)
      PROVE  DocumentTyped'
  <2>0. packedBody' = packedBody
    BY <1>7, Zenon DEF ValidateDocument
  <2>1. CASE repair
    <3>1. packedBody' \in Body
      BY <2>0 DEF DocumentTyped, DocumentTypeOK
    <3> QED BY <1>5, <1>7, <2>1, <3>1, Zenon DEF ValidateDocument
  <2>2. CASE ~repair
    <3>1. UNCHANGED <<body, ids, used>>
          /\ UNCHANGED <<originalBody, bodyFaults, parts, related, comments, extended, extensible, markerVars>>
      BY <1>7, <2>2, Zenon DEF ValidateDocument
    <3> QED BY <2>0, <3>1 DEF markerVars, DocumentTyped, DocumentTypeOK
  <2> QED BY <2>1, <2>2
<1> QED BY <1>1, <1>2, <1>3, <1>4, <1>6, <1>7 DEF DocumentNext

(* What a step makes of the verdict on a document.                         *)
LEMMA DocumentVerdict ==
  ASSUME verdict \in Verdict, DocumentNext
  PROVE  verdict' \in Verdict
<1>1. ASSUME NEW p, NEW i, NEW nodes, NEW lapse, EditBody(p, i, nodes, lapse)
      PROVE  verdict' = "none"
  BY <1>1 DEF EditBody, Edited
<1>2. ASSUME NEW p \in DOMAIN body, NEW i \in DOMAIN body[p],
             \/ \E cut \in 0 .. 1, keep \in BOOLEAN : TrackDelete(p, i, cut, keep)
             \/ \E keep \in BOOLEAN : TrackInsert(p, i, keep)
             \/ RejectInsertion(p, i) \/ RestoreDeletion(p, i) \/ Undo(p, i)
             \/ EditUntracked(p, i) \/ DeleteText(p, i)
      PROVE  verdict' = "none"
  <2>1. ASSUME NEW cut, NEW keep, TrackDelete(p, i, cut, keep)
        PROVE  verdict' = "none"
    BY <1>1, <2>1, Zenon DEF TrackDelete
  <2>2. ASSUME NEW keep, TrackInsert(p, i, keep)
        PROVE  verdict' = "none"
    BY <1>1, <2>2, Zenon DEF TrackInsert
  <2>3. CASE RejectInsertion(p, i) \/ RestoreDeletion(p, i) \/ Undo(p, i)
    BY <1>1, <2>3, Zenon DEF RejectInsertion, RestoreDeletion, Undo
  <2>4. CASE EditUntracked(p, i) \/ DeleteText(p, i)
    BY <1>1, <2>4, Zenon DEF EditUntracked, DeleteText
  <2> QED BY <1>2, <2>1, <2>2, <2>3, <2>4
<1>3. ASSUME NEW fault, SpoilBody(fault)
      PROVE  verdict' = "none"
  BY <1>3 DEF SpoilBody, Edited
<1>4. ASSUME NEW cid, NEW parent, AddComment(cid, parent)
      PROVE  verdict' = "none"
  <2>1. ASSUME NEW lapse, Edited(1, MaxDocumentEdits, lapse)
        PROVE  verdict' = "none"
    BY <2>1 DEF Edited
  <2> QED BY <1>4, <2>1, Zenon DEF AddComment
<1>5. ASSUME NEW cid, NEW whole, MarkComment(cid, whole)
      PROVE  verdict' = "none"
  BY <1>5, Zenon DEF MarkComment, Edited
<1>6. ASSUME PackDocument
      PROVE  verdict' \in Verdict
  <2>1. verdict' = "packed" \/ verdict' = "refused"
    BY <1>6, Zenon DEF PackDocument, Judged
  <2> QED BY <2>1 DEF Verdict
<1>7. ASSUME NEW against, NEW repair, ValidateDocument(against, repair)
      PROVE  verdict' \in Verdict
  <2>1. verdict' = "valid" \/ verdict' = "invalid"
    BY <1>7, Zenon DEF ValidateDocument, Judged
  <2> QED BY <2>1 DEF Verdict
<1> QED BY <1>2, <1>3, <1>4, <1>5, <1>6, <1>7 DEF DocumentNext, Verdict

LEMMA WorkbookNextTyped ==
  ASSUME WorkbookTypeOK, WorkbookNext
  PROVE  WorkbookTypeOK'
<1> USE DEF WorkbookTypeOK, Outcome
<1>1. CASE WriteFormulas \/ RecalcFails
  BY <1>1 DEF WriteFormulas, RecalcFails
<1>2. ASSUME NEW code \in {0, 1, 124}, NEW stores \in BOOLEAN, Recalc(code, stores)
      PROVE  WorkbookTypeOK'
  <2>1. spelled' = spelled
    BY <1>2, Zenon DEF Recalc
  <2>2. macro' = "own" /\ formulas' = formulas /\ cached' \in {cached, formulas}
    BY <1>2 DEF Recalc
  <2>3. report' \in {"success", "errors_found", "error"}
    BY <1>2 DEF Recalc, ReportOf
  <2> QED BY <2>1, <2>2, <2>3
<1> QED BY <1>1, <1>2 DEF WorkbookNext

(* A file has the types of its format.                                     *)
FormatTyped ==
  /\ suffix \in {".docx", ".pptx", ".xlsx"} /\ verdict \in Verdict
  /\ suffix = ".pptx" => SlidesTyped
  /\ suffix = ".docx" => DocumentTyped
  /\ suffix = ".xlsx" => WorkbookTypeOK

LEMMA FormatInit == Init => FormatTyped
<1> SUFFICES ASSUME Init PROVE FormatTyped
  OBVIOUS
<1>1. suffix \in {".docx", ".pptx", ".xlsx"} /\ verdict = "none"
  BY DEF Init
<1>2. ASSUME suffix = ".pptx" PROVE SlidesTyped
  BY <1>1, <1>2, SlidesInitTyped DEF Init
<1>3. ASSUME suffix = ".docx" PROVE DocumentTyped
  BY <1>3, DocumentInitTyped DEF Init
<1>4. ASSUME suffix = ".xlsx" PROVE WorkbookTypeOK
  BY <1>4 DEF Init, WorkbookInit, WorkbookTypeOK, Outcome
<1> QED BY <1>1, <1>2, <1>3, <1>4 DEF FormatTyped, Verdict

LEMMA FormatNext == Inv /\ FormatTyped /\ [Next]_vars => FormatTyped'
<1> SUFFICES ASSUME Inv, FormatTyped, [Next]_vars PROVE FormatTyped'
  OBVIOUS
<1>1. CASE Presentation
  <2>1. suffix = ".pptx" /\ suffix' = suffix /\ SlidesNext /\ SlidesTyped /\ Connected
    BY <1>1 DEF Presentation, FormatTyped, Inv
  <2>2. SlidesTyped'
    BY <2>1, AuthorTyped, ScriptsTyped, Zenon DEF SlidesNext
  <2> QED BY <2>1, <2>2 DEF FormatTyped, SlidesTyped
<1>2. CASE TextDocument
  <2>1. suffix = ".docx" /\ suffix' = suffix /\ DocumentNext /\ DocumentTyped
    BY <1>2 DEF TextDocument, FormatTyped
  <2>2. DocumentTyped'
    BY <2>1, DocumentNextTyped
  <2>3. verdict' \in Verdict
    BY <2>1, DocumentVerdict DEF FormatTyped
  <2> QED BY <2>1, <2>2, <2>3 DEF FormatTyped
<1>3. CASE Spreadsheet
  <2>1. suffix = ".xlsx" /\ WorkbookTypeOK /\ WorkbookNext /\ UNCHANGED <<suffix, verdict>>
    BY <1>3 DEF Spreadsheet, FormatTyped, editingVars
  <2>2. WorkbookTypeOK'
    BY <2>1, WorkbookNextTyped
  <2> QED BY <2>1, <2>2 DEF FormatTyped
<1>4. CASE PackWorkbook
  BY <1>4 DEF PackWorkbook, Judged, workbookVars, FormatTyped, Verdict, WorkbookTypeOK
<1>5. CASE UNCHANGED vars
  <2>1. UNCHANGED <<suffix, verdict>> /\ UNCHANGED slidesVars /\ UNCHANGED documentVars /\ UNCHANGED workbookVars
    BY <1>5 DEF vars, editingVars
  <2>2. SlidesTyped => SlidesTyped'
    BY <2>1 DEF SlidesTyped, SlidesTypeOK, slidesVars
  <2>3. DocumentTyped => DocumentTyped'
    BY <2>1 DEF DocumentTyped, DocumentTypeOK, documentVars, bodyVars, commentVars, markerVars
  <2>4. WorkbookTypeOK => WorkbookTypeOK'
    BY <2>1 DEF WorkbookTypeOK, workbookVars
  <2> QED BY <2>1, <2>2, <2>3, <2>4 DEF FormatTyped
<1> QED BY <1>1, <1>2, <1>3, <1>4, <1>5 DEF Next

(* Every file has the types of its format, and a document its paragraphs.  *)
THEOREM OfficeIsTyped == Spec => []TypeOK
<1>1. FormatTyped => TypeOK
  BY DEF FormatTyped, SlidesTyped, DocumentTyped, TypeOK
<1> QED BY <1>1, InitInv, NextInv, FormatInit, FormatNext, PTL DEF Spec
-----------------------------------------------------------------------------
(* The text of a document: unpacking changed no letter of it, and what was *)
(* packed last still is what the body makes.                               *)
Packed ==
  verdict = "packed" =>
    /\ packedBody = Condense(body) /\ WhitespacePreserved(body)
    /\ Redlined(originalBody, body, "Claude")

TextInv ==
  /\ suffix = ".docx" => edits \in Nat /\ UnpackKeepsText /\ Packed
  /\ suffix # ".docx" => body = <<>> /\ originalBody = <<>>

LEMMA TextInit == Init => TextInv
<1> SUFFICES ASSUME Init PROVE TextInv
  OBVIOUS
<1>1. verdict = "none" /\ edits = 0
  BY DEF Init
<1>2. PICK simplify \in BOOLEAN, merge \in BOOLEAN : body = Unpack(originalBody, simplify, merge)
  BY DEF Init, DocumentInit
<1>3. CASE suffix = ".docx"
  <2>1. originalBody \in Body
    <3>1. PICK d \in Documents : originalBody = d.body
      BY <1>3 DEF Init, DocumentInit
    <3> QED BY <3>1, DocumentAssumption
  <2>2. Letters(body) = Letters(originalBody)
    BY <1>2, <2>1, UnpackLetters
  <2> QED BY <1>1, <1>3, <2>2 DEF TextInv, UnpackKeepsText, Packed
<1>4. CASE suffix # ".docx"
  <2>1. originalBody = <<>>
    <3>1. DocumentInit({NoDocument})
      BY <1>4 DEF Init
    <3>2. originalBody = NoDocument.body
      BY <3>1, Zenon DEF DocumentInit
    <3> QED BY <3>2 DEF NoDocument
  <2>2. originalBody \in Body /\ DOMAIN originalBody = {}
    BY <2>1 DEF Body
  <2>3. body \in Body /\ DOMAIN body = {}
    BY <1>2, <2>2, UnpackLetters
  <2>4. body = <<>>
    BY <2>3, LenProperties DEF Body
  <2> QED BY <1>4, <2>1, <2>4 DEF TextInv
<1> QED BY <1>3, <1>4

(* An edit, and a mark or a comment, is counted and undoes the verdict.    *)
LEMMA EditCounts ==
  ASSUME edits \in Nat, NEW lapse, Edited(1, MaxDocumentEdits, lapse)
  PROVE  edits' \in Nat /\ edits' # 0 /\ verdict' = "none"
BY DEF Edited

LEMMA DocumentNextKeepsText ==
  ASSUME DocumentTyped, edits \in Nat, UnpackKeepsText, Packed, DocumentNext
  PROVE  edits' \in Nat /\ UnpackKeepsText' /\ Packed'
<1>1. ASSUME NEW lapse, Edited(1, MaxDocumentEdits, lapse)
      PROVE  edits' \in Nat /\ UnpackKeepsText' /\ Packed'
  BY <1>1, EditCounts DEF UnpackKeepsText, Packed
<1>2. ASSUME NEW p \in DOMAIN body, NEW i \in DOMAIN body[p],
             \/ \E cut \in 0 .. 1, keep \in BOOLEAN : TrackDelete(p, i, cut, keep)
             \/ \E keep \in BOOLEAN : TrackInsert(p, i, keep)
             \/ RejectInsertion(p, i) \/ RestoreDeletion(p, i) \/ Undo(p, i)
             \/ EditUntracked(p, i) \/ DeleteText(p, i)
      PROVE  \E lapse : Edited(1, MaxDocumentEdits, lapse)
  <2>1. body[p][i] \in Node
    BY NodeOfBody DEF DocumentTyped, DocumentTypeOK
  <2>2. SoundEdit(p, i)
    BY <1>2, <2>1, AuthorEditsSound, Zenon
  <2> QED BY <2>2, Zenon DEF SoundEdit, EditBody
<1>3. ASSUME NEW fault, SpoilBody(fault)
      PROVE  \E lapse : Edited(1, MaxDocumentEdits, lapse)
  BY <1>3, Zenon DEF SpoilBody
<1>4. ASSUME NEW cid, NEW parent, AddComment(cid, parent)
      PROVE  \E lapse : Edited(1, MaxDocumentEdits, lapse)
  BY <1>4, Zenon DEF AddComment
<1>5. ASSUME NEW cid, NEW whole, MarkComment(cid, whole)
      PROVE  \E lapse : Edited(1, MaxDocumentEdits, lapse)
  BY <1>5, Zenon DEF MarkComment
<1>6. ASSUME Repair, UNCHANGED <<originalBody, edits>>
      PROVE  edits' \in Nat /\ UnpackKeepsText'
  <2>1. Letters(body') = Letters(body)
    BY <1>6, RepairTyped
  <2> QED BY <1>6, <2>1 DEF UnpackKeepsText
<1>7. ASSUME PackDocument
      PROVE  edits' \in Nat /\ UnpackKeepsText' /\ Packed'
  <2>1. Repair /\ UNCHANGED <<originalBody, edits>>
    BY <1>7, Zenon DEF PackDocument, Judged
  <2>2. CASE DocumentValid(body', ids', TRUE)
    <3>1. packedBody' = Condense(body')
      BY <1>7, <2>2, Zenon DEF PackDocument
    <3>2. WhitespacePreserved(body') /\ Redlined(originalBody, body', "Claude")
      BY <2>2, Zenon DEF DocumentValid
    <3> QED BY <1>6, <2>1, <3>1, <3>2 DEF Packed
  <2>3. CASE ~DocumentValid(body', ids', TRUE)
    <3>1. verdict' = "refused"
      BY <1>7, <2>3, Zenon DEF PackDocument, Judged
    <3> QED BY <1>6, <2>1, <3>1 DEF Packed
  <2> QED BY <2>2, <2>3
<1>8. ASSUME NEW against, NEW repair, ValidateDocument(against, repair)
      PROVE  edits' \in Nat /\ UnpackKeepsText' /\ Packed'
  <2>1. UNCHANGED <<originalBody, edits>> /\ (Repair \/ UNCHANGED body)
    BY <1>8, Zenon DEF ValidateDocument, Judged
  <2>2. verdict' = "valid" \/ verdict' = "invalid"
    BY <1>8, Zenon DEF ValidateDocument, Judged
  <2> QED BY <1>6, <2>1, <2>2 DEF Packed, UnpackKeepsText
<1> QED BY <1>1, <1>2, <1>3, <1>4, <1>5, <1>7, <1>8, Zenon DEF DocumentNext

LEMMA TextNext == FormatTyped /\ TextInv /\ [Next]_vars => TextInv'
<1> SUFFICES ASSUME FormatTyped, TextInv, [Next]_vars PROVE TextInv'
  OBVIOUS
<1>1. CASE TextDocument
  <2>1. suffix = ".docx" /\ suffix' = suffix /\ DocumentTyped /\ DocumentNext
    BY <1>1 DEF TextDocument, FormatTyped
  <2> QED BY <2>1, DocumentNextKeepsText DEF TextInv
<1>2. CASE Presentation \/ Spreadsheet \/ PackWorkbook
  <2>1. suffix # ".docx" /\ suffix' = suffix /\ UNCHANGED documentVars
    BY <1>2 DEF Presentation, Spreadsheet, PackWorkbook
  <2> QED BY <2>1 DEF TextInv, documentVars, bodyVars
<1>3. CASE UNCHANGED vars
  <2>1. UNCHANGED <<suffix, edits, verdict, body, originalBody, packedBody>>
    BY <1>3 DEF vars, editingVars, documentVars, bodyVars
  <2> QED BY <2>1 DEF TextInv, UnpackKeepsText, Packed
<1> QED BY <1>1, <1>2, <1>3 DEF Next

(* Unpacking a document, with or without the merging of runs and tracked   *)
(* changes, changes no letter of it, no format and no author of a change;  *)
(* nor do the repairs, until the author edits it.                          *)
THEOREM UnpackingKeepsText == Spec => []UnpackKeepsText
<1>1. TextInv => UnpackKeepsText
  BY DEF TextInv, UnpackKeepsText, Letters
<1> QED BY <1>1, InitInv, NextInv, FormatInit, FormatNext, TextInit, TextNext, PTL DEF Spec

(* Who rejects the changes by Claude in a packed file reads what the       *)
(* original says: no edit is packed untracked, and neither the repairs nor *)
(* the condensing took a space that was to be kept.                        *)
THEOREM PackingRestores == Spec => []PackedRestores
<1>1. ASSUME FormatTyped, TextInv PROVE PackedRestores
  <2>1. SUFFICES ASSUME verdict = "packed", ChangedBy(body, "Claude"), HarmlessDeletions
                 PROVE  TextContent(Read(packedBody), "Claude") = TextContent(originalBody, "Claude")
    BY DEF PackedRestores
  <2>2. suffix = ".docx"
    <3>1. ~ChangedBy(<<>>, "Claude")
      BY DEF ChangedBy
    <3> QED BY <1>1, <2>1, <3>1 DEF TextInv
  <2>3. /\ packedBody = Condense(body) /\ WhitespacePreserved(body) /\ body \in Body
        /\ TextContent(body, "Claude") = TextContent(originalBody, "Claude")
    BY <1>1, <2>1, <2>2 DEF TextInv, Packed, Redlined, FormatTyped, DocumentTyped, DocumentTypeOK
  <2>4. HarmlessIn(body)
    <3>1. ASSUME NEW e \in AllTexts(body) PROVE e.t.tag = "t" \/ e.t.tag = "delText"
      <4>1. PICK p \in DOMAIN body : e \in Range(Texts(body[p]))
        BY <3>1 DEF AllTexts
      <4>2. Texts(body[p]) \in Seq(Entry)
        <5>1. body[p] \in Seq(Node)
          BY <2>3, LenProperties DEF Body
        <5> QED BY <5>1, TextsAre
      <4>3. e \in Entry
        BY <4>1, <4>2, LenProperties DEF Range
      <4> QED BY <4>3 DEF Entry, Text
    <3> QED BY <2>1, <2>3, <3>1 DEF HarmlessIn, Harmless, WhitespacePreserved, HarmlessDeletions
  <2>5. TextContent(Read(Condense(body)), "Claude") = TextContent(body, "Claude")
    BY <2>3, <2>4, PackedIsLeft
  <2> QED BY <2>3, <2>5
<1> QED BY <1>1, InitInv, NextInv, FormatInit, FormatNext, TextInit, TextNext, PTL DEF Spec
-----------------------------------------------------------------------------
(* The comments are numbered once, all their parts or none are there, and  *)
(* those that are marked are marked whole.                                 *)
CommentsSound ==
  /\ UniqueCommentIds
  /\ related = parts
  /\ starts = ends /\ references = starts
  /\ starts \subseteq {k[1] : k \in comments}

(* A document of an author without a lapse passes the validators.          *)
DocumentSound ==
  lapses = {} => BodySound /\ CommentsSound /\ bodyFaults \subseteq {"old"} /\ verdict # "refused"

LEMMA DocumentSoundInit ==
  ASSUME DocumentInit(Documents), verdict = "none", lapses = {} => DocumentLapses = {}
  PROVE  DocumentSound
<1> SUFFICES ASSUME lapses = {} PROVE BodySound /\ CommentsSound /\ bodyFaults \subseteq {"old"}
  BY DEF DocumentSound
<1>1. PICK d \in Documents :
        /\ originalBody = d.body /\ bodyFaults = d.faults
        /\ parts = d.parts /\ related = d.parts /\ comments = d.comments
        /\ starts = {k[1] : k \in d.comments} /\ ends = starts /\ references = starts
  BY Zenon DEF DocumentInit
<1>2. d.body \in Body /\ d.faults \subseteq {"old"}
  BY DocumentAssumption
<1>3. PICK simplify \in BOOLEAN, merge \in BOOLEAN : body = Unpack(originalBody, simplify, merge)
  BY Zenon DEF DocumentInit
<1>4. /\ WhitespacePreserved(RepairWhitespace(body))
      /\ DeletionsValid(originalBody) /\ InsertionsValid(originalBody) /\ UniqueCommentIds
  <2> DEFINE lost == ~WhitespacePreserved(RepairWhitespace(body))
             valid == DeletionsValid(originalBody) /\ InsertionsValid(originalBody) /\ UniqueCommentIds
  <2>1. (IF lost THEN {"newline"} ELSE {}) \cup (IF valid THEN {} ELSE {"invalid file"}) = {}
    BY Zenon DEF DocumentLapses, LostWhitespace
  <2> HIDE DEF lost, valid
  <2>2. ~lost /\ valid
    BY <2>1, Zenon
  <2> QED BY <2>2 DEF lost, valid
<1>5. BodySound
  <2> DEFINE b == originalBody
  <2>1. b \in Body /\ DeletionsValid(b) /\ InsertionsValid(b) /\ WhitespacePreserved(RepairWhitespace(Unpack(b, simplify, merge)))
    BY <1>1, <1>2, <1>3, <1>4
  <2>2. /\ DOMAIN Unpack(b, simplify, merge) = DOMAIN b
        /\ ReadsNothing(WrongOf, Unpack(b, simplify, merge))
        /\ ReadsAlike(LeftOf("Claude"), Unpack(b, simplify, merge), b)
    BY <2>1, UnpackedIsRight
  <2> QED BY <1>3, <2>2, Zenon DEF BodySound
<1>6. CommentsSound
  BY <1>1, <1>4 DEF CommentsSound
<1> QED BY <1>1, <1>2, <1>5, <1>6

(* A comment without a lapse: its number is new, and its parts are there.  *)
LEMMA AddCommentSound ==
  ASSUME CommentsSound, NEW cid \in CommentId, NEW parent \in CommentId \cup {0}, AddComment(cid, parent), lapses' = {}
  PROVE  CommentsSound' /\ lapses = {} /\ verdict' = "none" /\ UNCHANGED bodyVars
<1> DEFINE para == used + 1
           known == comments \cup {<<cid, para>>}
           found == parent = 0 \/ ParasOf(parent, known) # {}
           lapse == CommentLapse(cid, parent)
<1>1. /\ comments' = known /\ related' = Related
      /\ UNCHANGED <<bodyVars, markerVars>>
  BY Zenon DEF AddComment
<1>2. parts' = CommentPart /\ Edited(1, MaxDocumentEdits, lapse)
  <2>1. CASE found
    BY <2>1, Zenon DEF AddComment
  <2>2. CASE ~found
    <3>1. Edited(1, MaxDocumentEdits, lapse \cup {"failed reply"})
      BY <2>2, Zenon DEF AddComment
    <3> HIDE DEF lapse, found
    <3> QED BY <3>1 DEF Edited
  <2> QED BY <2>1, <2>2
<1>3. lapse = {} /\ lapses = {} /\ verdict' = "none"
  <2> HIDE DEF lapse
  <2> QED BY <1>2 DEF Edited
<1>4. cid \notin {k[1] : k \in comments} /\ parts \in {{}, CommentPart}
  BY <1>3 DEF CommentLapse
<1>5. related' = CommentPart
  BY <1>1, <1>4 DEF Related, CommentPart, CommentsSound
<1>6. UniqueCommentIds'
  <2> DEFINE new == <<cid, para>>
  <2>1. comments' = comments \cup {new} /\ new[1] = cid
    BY <1>1
  <2> HIDE DEF new
  <2> QED BY <1>4, <2>1 DEF UniqueCommentIds, CommentsSound
<1>7. UNCHANGED <<starts, ends, references>> /\ {k[1] : k \in comments} \subseteq {k[1] : k \in comments'}
  BY <1>1 DEF markerVars
<1> QED BY <1>1, <1>2, <1>3, <1>5, <1>6, <1>7 DEF CommentsSound

(* A comment that is marked without a lapse is there, and marked whole.    *)
LEMMA MarkCommentSound ==
  ASSUME CommentsSound, NEW cid \in CommentId, NEW whole \in BOOLEAN, MarkComment(cid, whole), lapses' = {}
  PROVE  CommentsSound' /\ lapses = {} /\ verdict' = "none" /\ UNCHANGED bodyVars
<1> DEFINE lapse == IF ~whole THEN {"half marked"}
                    ELSE IF cid \in {k[1] : k \in comments} THEN {} ELSE {"marked early"}
<1>1. Edited(1, MaxDocumentEdits, lapse) /\ starts' = starts \cup {cid} /\ UNCHANGED <<bodyVars, commentVars>>
  BY Zenon DEF MarkComment
<1>2. lapse = {} /\ lapses = {} /\ verdict' = "none"
  <2> HIDE DEF lapse
  <2> QED BY <1>1 DEF Edited
<1>3. whole /\ cid \in {k[1] : k \in comments}
  BY <1>2
<1>4. ends' = ends \cup {cid} /\ references' = references \cup {cid}
  BY <1>3, Zenon DEF MarkComment
<1>5. UNCHANGED <<comments, parts, related>>
  BY <1>1 DEF commentVars
<1> HIDE DEF lapse
<1> QED BY <1>1, <1>2, <1>3, <1>4, <1>5 DEF CommentsSound, UniqueCommentIds

(* An edit without a lapse.                                                *)
LEMMA EditSound ==
  ASSUME BodySound, body \in Body, NEW p \in DOMAIN body, NEW i \in DOMAIN body[p], SoundEdit(p, i), lapses' = {}
  PROVE  BodySound' /\ lapses = {} /\ verdict' = "none" /\ UNCHANGED <<bodyFaults, commentVars, markerVars>>
<1>1. PICK nodes \in Seq(Node) : \E lapse : EditBody(p, i, nodes, lapse) /\ (lapse = {} => SoundFor(body[p][i], nodes))
  BY Zenon DEF SoundEdit
<1>2. PICK lapse : EditBody(p, i, nodes, lapse) /\ (lapse = {} => SoundFor(body[p][i], nodes))
  BY <1>1
<1>3. /\ Edited(1, MaxDocumentEdits, lapse)
      /\ UNCHANGED <<originalBody, bodyFaults, commentVars, markerVars>>
  BY <1>2 DEF EditBody
<1>4. lapse = {} /\ lapses = {} /\ verdict' = "none"
  BY <1>3 DEF Edited
<1>5. body' = Replaced(body, p, i, nodes)
  BY <1>2, Zenon DEF EditBody, Replaced, Spliced
<1>6. BodySound'
  <2>1. SoundFor(body[p][i], nodes) /\ originalBody' = originalBody
    BY <1>2, <1>3, <1>4
  <2> QED BY <1>5, <2>1, SoundEditKeeps
<1> QED BY <1>3, <1>4, <1>6

(* pack.py repairs what is left to repair, and validates what is sound.    *)
LEMMA PackDocumentSound ==
  ASSUME DocumentTyped, originalBody \in Body, BodySound, CommentsSound, bodyFaults \subseteq {"old"}, PackDocument
  PROVE  BodySound' /\ CommentsSound' /\ verdict' # "refused" /\ UNCHANGED bodyFaults
<1>1. /\ Repair
      /\ UNCHANGED <<originalBody, bodyFaults, parts, related, comments, extended, extensible, markerVars>>
  BY Zenon DEF PackDocument
<1>2. body' = RepairWhitespace(body) /\ originalBody' = originalBody
  <2>1. "malformed" \notin bodyFaults
    OBVIOUS
  <2> QED BY <1>1, <2>1, Zenon DEF Repair
<1>3. /\ BodySound'
      /\ WhitespacePreserved(body') /\ DeletionsValid(body') /\ InsertionsValid(body')
      /\ Redlined(originalBody, body', "Claude")
  <2>1. body \in Body
    BY DEF DocumentTyped, DocumentTypeOK
  <2> QED BY <1>2, <2>1, RepairSound
<1>4. DurableIdsValid(ids')
  <2>1. ~\E k \in ids' : k[2] = TooLarge
    BY <1>1, RepairTyped
  <2> QED BY <2>1 DEF DurableIdsValid
<1>5. BodyWellFormed /\ UniqueCommentIds /\ CommentPartsRelated /\ DocumentSchemaValid(TRUE) /\ CommentMarkersValid
  BY DEF BodyWellFormed, CommentPartsRelated, DocumentSchemaValid, SchemaErrors, OriginalErrors, CommentMarkersValid, CommentsSound
<1>6. DocumentValid(body', ids', TRUE)
  BY <1>3, <1>4, <1>5, Zenon DEF DocumentValid
<1>7. verdict' = "packed"
  BY <1>6, Zenon DEF PackDocument, Judged
<1>8. CommentsSound'
  BY <1>1 DEF CommentsSound, UniqueCommentIds, markerVars
<1> QED BY <1>1, <1>3, <1>7, <1>8

(* So does validate.py, with its repairs or without.                       *)
LEMMA ValidateDocumentSound ==
  ASSUME DocumentTyped, originalBody \in Body, BodySound, CommentsSound, bodyFaults \subseteq {"old"},
         NEW against \in BOOLEAN, NEW repair \in BOOLEAN, ValidateDocument(against, repair)
  PROVE  BodySound' /\ CommentsSound' /\ verdict' # "refused" /\ UNCHANGED bodyFaults
<1>1. UNCHANGED <<originalBody, bodyFaults, parts, related, comments, extended, extensible, markerVars>>
  BY Zenon DEF ValidateDocument
<1>2. BodySound'
  <2>1. CASE repair
    <3>1. Repair
      BY <2>1, Zenon DEF ValidateDocument
    <3>2. "malformed" \notin bodyFaults
      OBVIOUS
    <3>3. body' = RepairWhitespace(body) /\ originalBody' = originalBody
      BY <1>1, <3>1, <3>2 DEF Repair
    <3>4. body \in Body
      BY DEF DocumentTyped, DocumentTypeOK
    <3> QED BY <3>3, <3>4, RepairSound
  <2>2. CASE ~repair
    <3>1. body' = body /\ originalBody' = originalBody
      BY <1>1, <2>2, Zenon DEF ValidateDocument
    <3> QED BY <3>1, Zenon DEF BodySound
  <2> QED BY <2>1, <2>2
<1>3. verdict' = "valid" \/ verdict' = "invalid"
  BY Zenon DEF ValidateDocument, Judged
<1>4. CommentsSound'
  BY <1>1 DEF CommentsSound, UniqueCommentIds, markerVars
<1> QED BY <1>1, <1>2, <1>3, <1>4

LEMMA DocumentSoundNext ==
  ASSUME DocumentTyped, DocumentSound, DocumentNext
  PROVE  DocumentSound'
<1> SUFFICES ASSUME lapses' = {}
             PROVE  BodySound' /\ CommentsSound' /\ bodyFaults' \subseteq {"old"} /\ verdict' # "refused"
  BY DEF DocumentSound
<1>0. body \in Body /\ originalBody \in Body
  <2>1. originalBody \in {d.body : d \in Documents} /\ body \in Body
    BY DEF DocumentTyped, DocumentTypeOK
  <2> QED BY <2>1, DocumentAssumption
<1>1. ASSUME NEW p \in DOMAIN body, NEW i \in DOMAIN body[p],
             \/ \E cut \in 0 .. 1, keep \in BOOLEAN : TrackDelete(p, i, cut, keep)
             \/ \E keep \in BOOLEAN : TrackInsert(p, i, keep)
             \/ RejectInsertion(p, i) \/ RestoreDeletion(p, i) \/ Undo(p, i)
             \/ EditUntracked(p, i) \/ DeleteText(p, i)
      PROVE  BodySound' /\ CommentsSound' /\ bodyFaults' \subseteq {"old"} /\ verdict' # "refused"
  <2>1. body[p][i] \in Node
    BY <1>0, NodeOfBody
  <2>2. SoundEdit(p, i)
    BY <1>1, <2>1, AuthorEditsSound, Zenon
  <2>3. lapses = {}
    <3>1. lapses \subseteq lapses'
      BY <2>2 DEF SoundEdit, EditBody, Edited
    <3> QED BY <3>1
  <2>4. BodySound /\ CommentsSound /\ bodyFaults \subseteq {"old"}
    BY <2>3 DEF DocumentSound
  <2>5. BodySound' /\ verdict' = "none" /\ UNCHANGED <<bodyFaults, commentVars, markerVars>>
    BY <1>0, <2>2, <2>4, EditSound
  <2>6. CommentsSound'
    BY <2>4, <2>5 DEF CommentsSound, UniqueCommentIds, commentVars, markerVars
  <2> QED BY <2>4, <2>5, <2>6
<1>2. ASSUME NEW fault, SpoilBody(fault)
      PROVE  FALSE
  BY <1>2 DEF SpoilBody, Edited
<1>3. ASSUME lapses = {}, CommentsSound', verdict' = "none", UNCHANGED bodyVars
      PROVE  BodySound' /\ CommentsSound' /\ bodyFaults' \subseteq {"old"} /\ verdict' # "refused"
  <2>1. BodySound /\ bodyFaults \subseteq {"old"}
    BY <1>3 DEF DocumentSound
  <2>2. body' = body /\ originalBody' = originalBody /\ bodyFaults' = bodyFaults
    BY <1>3 DEF bodyVars
  <2>3. BodySound'
    BY <2>1, <2>2, Zenon DEF BodySound
  <2> QED BY <1>3, <2>1, <2>2, <2>3
<1>4. ASSUME NEW cid \in CommentId, NEW parent \in CommentId \cup {0}, AddComment(cid, parent)
      PROVE  BodySound' /\ CommentsSound' /\ bodyFaults' \subseteq {"old"} /\ verdict' # "refused"
  <2>1. lapses = {}
    <3>1. \A lapse : Edited(1, MaxDocumentEdits, lapse) => lapses = {}
      BY DEF Edited
    <3> QED BY <1>4, <3>1, Zenon DEF AddComment
  <2>2. CommentsSound
    BY <2>1 DEF DocumentSound
  <2> QED BY <1>3, <1>4, <2>1, <2>2, AddCommentSound
<1>5. ASSUME NEW cid \in CommentId, NEW whole \in BOOLEAN, MarkComment(cid, whole)
      PROVE  BodySound' /\ CommentsSound' /\ bodyFaults' \subseteq {"old"} /\ verdict' # "refused"
  <2>1. lapses = {}
    <3>1. \A lapse : Edited(1, MaxDocumentEdits, lapse) => lapses = {}
      BY DEF Edited
    <3> QED BY <1>5, <3>1, Zenon DEF MarkComment
  <2>2. CommentsSound
    BY <2>1 DEF DocumentSound
  <2> QED BY <1>3, <1>5, <2>1, <2>2, MarkCommentSound
<1>6. ASSUME PackDocument
      PROVE  BodySound' /\ CommentsSound' /\ bodyFaults' \subseteq {"old"} /\ verdict' # "refused"
  <2>1. lapses = {}
    BY <1>6, Zenon DEF PackDocument, Judged
  <2>2. BodySound /\ CommentsSound /\ bodyFaults \subseteq {"old"}
    BY <2>1 DEF DocumentSound
  <2> QED BY <1>0, <1>6, <2>2, PackDocumentSound
<1>7. ASSUME NEW against \in BOOLEAN, NEW repair \in BOOLEAN, ValidateDocument(against, repair)
      PROVE  BodySound' /\ CommentsSound' /\ bodyFaults' \subseteq {"old"} /\ verdict' # "refused"
  <2>1. lapses = {}
    BY <1>7, Zenon DEF ValidateDocument, Judged
  <2>2. BodySound /\ CommentsSound /\ bodyFaults \subseteq {"old"}
    BY <2>1 DEF DocumentSound
  <2> QED BY <1>0, <1>7, <2>2, ValidateDocumentSound
<1> QED BY <1>1, <1>2, <1>4, <1>5, <1>6, <1>7, Zenon DEF DocumentNext
-----------------------------------------------------------------------------
(* A file stays sound; a workbook is never refused.                        *)
SoundInv ==
  /\ suffix = ".pptx" => Sound
  /\ suffix = ".docx" => DocumentSound
  /\ suffix = ".xlsx" => verdict # "refused"

LEMMA SoundInvInit == Init => SoundInv
<1> SUFFICES ASSUME Init PROVE SoundInv
  OBVIOUS
<1>1. verdict = "none" /\ (suffix = ".pptx" => SlidesInit(Original))
  BY DEF Init
<1>2. lapses = {} => files \cap Trash = {}
  BY Zenon DEF Init, SlidesLapses
<1>3. ASSUME suffix = ".docx" PROVE DocumentSound
  <2>1. DocumentInit(Documents)
    BY <1>3 DEF Init
  <2>2. lapses = {} => DocumentLapses = {}
    <3>1. lapses = SlidesLapses \cup DocumentLapses
      BY Zenon DEF Init
    <3> QED BY <3>1
  <2> QED BY <1>1, <2>1, <2>2, DocumentSoundInit
<1> QED BY <1>1, <1>2, <1>3, SoundInit DEF SoundInv

LEMMA SoundInvNext == Inv /\ FormatTyped /\ SoundInv /\ [Next]_vars => SoundInv'
<1> SUFFICES ASSUME Inv, FormatTyped, SoundInv, [Next]_vars PROVE SoundInv'
  OBVIOUS
<1>1. CASE Presentation
  <2>1. /\ suffix = ".pptx" /\ suffix' = suffix /\ SlidesNext
        /\ SlidesTyped /\ Connected /\ Wired /\ Tidy /\ Sound
    BY <1>1 DEF Presentation, FormatTyped, Inv, SoundInv
  <2>2. Sound'
    BY <2>1, AuthorSound, RemoveSlidesSound, RemoveFilesSound, CleanEndsSound, PackSound, Zenon DEF SlidesNext, Clean
  <2> QED BY <2>1, <2>2 DEF SoundInv
<1>2. CASE TextDocument
  <2>1. suffix = ".docx" /\ suffix' = suffix /\ DocumentNext /\ DocumentTyped /\ DocumentSound
    BY <1>2 DEF TextDocument, FormatTyped, SoundInv
  <2>2. DocumentSound'
    BY <2>1, DocumentSoundNext
  <2> QED BY <2>1, <2>2 DEF SoundInv
<1>3. CASE Spreadsheet \/ PackWorkbook
  <2>1. suffix = ".xlsx" /\ suffix' = suffix /\ verdict' \in {verdict, "packed"}
    BY <1>3 DEF Spreadsheet, PackWorkbook, Judged, editingVars
  <2> QED BY <2>1 DEF SoundInv
<1>4. CASE UNCHANGED vars
  <2>1. UNCHANGED <<suffix, original, files, relsOf, presRels, sldIdLst, overrides, uses, faults, printed, pc, removed, verdict, lapses>>
    BY <1>4 DEF vars, slidesVars, editingVars
  <2>2. \A p : Loose(p)' <=> Loose(p)
    BY <2>1 DEF Loose
  <2>3. /\ ListSound => ListSound'
        /\ PartsSound => PartsSound'
        /\ UnsweptSound => UnsweptSound'
        /\ Clear' = Clear /\ Careful' = Careful
    BY <2>1 DEF ListSound, PartsSound, UnsweptSound, Clear, Referenced, Careful
  <2>4. LinksSound => LinksSound'
    BY <2>1, <2>2 DEF LinksSound, Listed
  <2>5. DocumentSound => DocumentSound'
    <3>1. UNCHANGED <<originalBody, body, bodyFaults, parts, related, comments, starts, ends, references>>
      BY <1>4 DEF vars, documentVars, bodyVars, commentVars, markerVars
    <3>2. BodySound => BodySound'
      BY <3>1, Zenon DEF BodySound
    <3>3. CommentsSound => CommentsSound'
      BY <3>1 DEF CommentsSound, UniqueCommentIds
    <3> QED BY <2>1, <3>1, <3>2, <3>3 DEF DocumentSound
  <2> QED BY <2>1, <2>3, <2>4, <2>5 DEF SoundInv, Sound, CarefulAuthorPacks
<1> QED BY <1>1, <1>2, <1>3, <1>4 DEF Next

(* Whatever an author adds, edits, comments and cleans in whatever order,  *)
(* pack.py refuses nothing of one without a lapse: a presentation keeps    *)
(* its list and its links as long as clean.py leaves no comment or control *)
(* behind, a document its tracked text and its comments, and a workbook is *)
(* not validated.                                                          *)
THEOREM CarefulAuthorIsPacked == Spec => []CarefulAuthorPacks
<1>1. FormatTyped /\ SoundInv => CarefulAuthorPacks
  BY DEF FormatTyped, SoundInv, Sound, DocumentSound, CarefulAuthorPacks
<1> QED BY <1>1, InitInv, NextInv, FormatInit, FormatNext, SoundInvInit, SoundInvNext, PTL DEF Spec
=============================================================================
