------------------------------- MODULE Office -------------------------------
(***************************************************************************)
(* An Office file from unpack.py to pack.py: the suffix of the file picks  *)
(* the format, and with it what unpacking simplifies and which validators  *)
(* and repairs run.  A presentation is the Slides model, a document the    *)
(* Document model, and a workbook the Workbook model.                      *)
(***************************************************************************)
EXTENDS Slides, Document, Workbook

VARIABLE suffix  \* of the file

vars == <<suffix, editingVars, slidesVars, documentVars, workbookVars>>

(* The state of the formats the file does not have.                        *)
NoSlides == [files |-> {}, relsOf |-> [p \in {} |-> {}], presRels |-> {}, sldIdLst |-> {},
             uses |-> [p \in Part |-> {}], faults |-> [p \in Slide \cup Chart |-> {}]]
NoDocument == [body |-> <<>>, faults |-> {}, parts |-> {}, comments |-> {}, extended |-> {},
               ids |-> {}, extensible |-> {}]

Init ==
  /\ suffix \in {".docx", ".pptx", ".xlsx"}
  /\ SlidesInit(IF suffix = ".pptx" THEN Original ELSE {NoSlides})
  /\ DocumentInit(IF suffix = ".docx" THEN Documents ELSE {NoDocument})
  /\ verdict = "none" /\ edits = 0
  /\ lapses = SlidesLapses \cup DocumentLapses
  /\ IF suffix = ".xlsx" THEN WorkbookInit ELSE NoWorkbook

Presentation == suffix = ".pptx" /\ SlidesNext /\ UNCHANGED <<suffix, documentVars, workbookVars>>

TextDocument == suffix = ".docx" /\ DocumentNext /\ UNCHANGED <<suffix, slidesVars, workbookVars>>

Spreadsheet ==
  /\ suffix = ".xlsx" /\ WorkbookNext
  /\ UNCHANGED <<suffix, editingVars, slidesVars, documentVars>>

(* No validator knows a workbook: pack.py packs it as it is.               *)
PackWorkbook ==
  /\ suffix = ".xlsx"
  /\ Judged("packed")
  /\ UNCHANGED <<suffix, slidesVars, documentVars, workbookVars>>

Next == Presentation \/ TextDocument \/ Spreadsheet \/ PackWorkbook

CleanTurn == RemoveOrphanedFiles /\ UNCHANGED <<suffix, documentVars, workbookVars>>

(* clean.py, once started, goes on; the author need do nothing.            *)
Spec == Init /\ [][Next]_vars /\ WF_vars(CleanTurn)
-----------------------------------------------------------------------------
TypeOK ==
  /\ suffix \in {".docx", ".pptx", ".xlsx"} /\ verdict \in Verdict
  /\ suffix = ".pptx" => SlidesTypeOK
  /\ suffix = ".docx" => DocumentTypeOK
  /\ suffix = ".xlsx" => WorkbookTypeOK
=============================================================================
