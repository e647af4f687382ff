------------------------------ MODULE MCOffice ------------------------------
(***************************************************************************)
(* Small files for the Office model.                                       *)
(***************************************************************************)
EXTENDS Office

CONSTANTS layout, layout2, notes, picture, chart, drawing, diagram, theme, remark, trash

NoUses == [p \in Part |-> {}]
NoFaults == [p \in Slide \cup Chart |-> {}]

(* Two slides in the list; the second links to the first, whose notes hold *)
(* a picture that its chart refers to as well.                             *)
Linked ==
  [files |-> {1, 2, layout, notes, picture, chart, theme},
   relsOf |-> [p \in {1, 2, notes, chart} |->
                 CASE p = 1 -> {layout, notes, chart} [] p = 2 -> {layout, 1}
                   [] p = notes -> {1, picture} [] OTHER -> {picture, theme}],
   presRels |-> {[rid |-> 1, slide |-> 1], [rid |-> 2, slide |-> 2]},
   sldIdLst |-> {[id |-> 256, rid |-> 1], [id |-> 257, rid |-> 2]},
   uses |-> [NoUses EXCEPT ![1] = {chart}, ![2] = {1}, ![chart] = {picture, theme}],
   faults |-> [NoFaults EXCEPT ![chart] = {"old"}]]

(* A slide with a comment and a diagram that has a picture.                *)
Commented ==
  [files |-> {1, layout, layout2, diagram, picture, remark},
   relsOf |-> [p \in {1, diagram} |-> IF p = 1 THEN {layout, diagram, remark} ELSE {picture}],
   presRels |-> {[rid |-> 1, slide |-> 1]},
   sldIdLst |-> {[id |-> 256, rid |-> 1]},
   uses |-> [NoUses EXCEPT ![1] = {diagram}, ![diagram] = {picture}],
   faults |-> NoFaults]

(* A slide with a drawing around a chart, and a file in [trash].           *)
Nested ==
  [files |-> {1, layout, picture, chart, drawing, trash},
   relsOf |-> [p \in {1, drawing, chart} |->
                 CASE p = 1 -> {layout, drawing} [] p = drawing -> {chart} [] OTHER -> {picture}],
   presRels |-> {[rid |-> 1, slide |-> 1]},
   sldIdLst |-> {[id |-> 256, rid |-> 1]},
   uses |-> [NoUses EXCEPT ![1] = {drawing}, ![drawing] = {chart}, ![chart] = {picture}],
   faults |-> NoFaults]

MCOriginal == {Linked, Commented, Nested}

a == <<"a">>

(* Runs that only a proofErr and the limits of w:t divide, and a deletion  *)
(* that cannot be restored as it stands.                                   *)
Spaced ==
  [NoDocument EXCEPT !.faults = {"old"},
     !.body = <<<<Run("plain", <<T(<<"a", "space">>, TRUE)>>), ProofErr,
                  Run("plain", <<T(a, FALSE), T(<<"space", "b">>, TRUE)>>)>>,
                <<Del("Jane", <<Run("plain", <<DelText(<<"b", "newline">>, FALSE)>>)>>)>>>>]

(* Blanks of each kind, and the comments of an older document.             *)
Edges ==
  [NoDocument EXCEPT !.parts = {"comments"}, !.comments = {<<1, 1>>},
     !.body = <<<<Run("plain", <<T(<<"space">>, TRUE)>>), Mark, Run("plain", <<T(<<"a", "tab">>, TRUE)>>),
                  Run("bold", <<T(a, FALSE)>>), Run("bold", <<T(<<"b", "newline">>, TRUE)>>)>>>>]

(* Changes by two authors, and a durable ID that is too large.             *)
Reviewed ==
  [body |-> <<<<Ins("Jane", <<Run("plain", <<T(a, FALSE)>>)>>), Ins("Jane", <<Run("bold", <<T(<<"b">>, FALSE)>>)>>),
                Ins("Claude", <<Run("plain", <<T(<<"c">>, FALSE)>>)>>)>>,
              <<Del("Jane", <<Run("plain", <<DelText(a, FALSE)>>)>>), Mark,
                Del("Jane", <<Run("plain", <<DelText(<<"space", "d">>, TRUE)>>)>>)>>>>,
   faults |-> {}, parts |-> CommentPart, comments |-> {<<1, 1>>}, extended |-> {<<1, 0>>},
   ids |-> {<<1, TooLarge>>}, extensible |-> {TooLarge}]

(* A deletion whose w:t was not renamed, before any edit.                  *)
Unrenamed == [NoDocument EXCEPT !.body = <<<<Del("Jane", <<Run("plain", <<T(a, FALSE)>>)>>)>>>>]

MCDocuments == {Spaced, Edges, Reviewed, Unrenamed}
=============================================================================
