------------------------------ MODULE Workbook ------------------------------
(***************************************************************************)
(* A workbook: its author writes formulas, of which openpyxl stores no     *)
(* values, and recalc.py has LibreOffice compute them by a macro that it   *)
(* puts into the user's profile, reads them and reports the errors.  What  *)
(* it reports need not be true of the formulas: the values may be those of *)
(* before, and a text may be taken for an error.                           *)
(***************************************************************************)
EXTENDS Naturals

VARIABLES
  formulas,  \* what they come to: "clean", or "errors" in some cell
  cached,    \* the values in the file: "none", "clean" or "errors"
  macro,     \* Module1 of the profile: "absent", "own", or "other" of the user
  report,    \* what recalc returned last: "none", "success", "errors_found" or "error"
  spelled    \* some text cell contains an error string, such as "#N/A"

workbookVars == <<formulas, cached, macro, report, spelled>>

Outcome == {"clean", "errors"}
-----------------------------------------------------------------------------
WorkbookInit ==
  /\ formulas \in Outcome /\ cached \in {"none", formulas}
  /\ macro \in {"absent", "own", "other"} /\ report = "none" /\ spelled \in BOOLEAN

NoWorkbook ==
  formulas = "clean" /\ cached = "none" /\ macro = "absent" /\ report = "none" /\ spelled = FALSE

(* Through openpyxl no values are stored; in the XML the old ones stay.    *)
WriteFormulas ==
  /\ formulas' \in Outcome /\ cached' \in {"none", cached} /\ spelled' \in BOOLEAN
  /\ report' = "none" /\ UNCHANGED macro

(* 124 is that of timeout(1).                                              *)
Accepted(code) == code \in {0, 124}

(* Cells without a value have no error, text cells that spell one do.      *)
ReportOf(values) == IF values = "errors" \/ spelled THEN "errors_found" ELSE "success"

(* setup_libreoffice_macro replaces whatever Module1 is not its own.       *)
(* Whether soffice stored the values recalc does not ask.                  *)
Recalc(code, stores) ==
  /\ macro' = "own"
  /\ cached' = IF stores THEN formulas ELSE cached
  /\ report' = IF Accepted(code) THEN ReportOf(cached') ELSE "error"
  /\ UNCHANGED <<formulas, spelled>>

(* The macro cannot be written, soffice does not start, or the file cannot *)
(* be read afterwards.                                                     *)
RecalcFails ==
  /\ macro' \in {macro, "own"} /\ cached' \in {cached, formulas}
  /\ report' = "error"
  /\ UNCHANGED <<formulas, spelled>>

WorkbookNext ==
  \/ WriteFormulas \/ RecalcFails
  \/ \E code \in {0, 1, 124}, stores \in BOOLEAN : Recalc(code, stores)
-----------------------------------------------------------------------------
WorkbookTypeOK ==
  /\ formulas \in Outcome /\ cached \in Outcome \cup {"none"}
  /\ macro \in {"absent", "own", "other"} /\ spelled \in BOOLEAN
  /\ report \in {"none", "success", "errors_found", "error"}
=============================================================================
