------------------------------- MODULE Review -------------------------------
(***************************************************************************)
(* generate_review.py and viewer.html: the outputs of the runs of one      *)
(* iteration are shown in a browser, whose page saves what the reviewer    *)
(* says of them in feedback.json, always whole.  The next iteration shows  *)
(* it beside its own runs.                                                 *)
(*                                                                         *)
(* One page is open at a time, and its requests are handled in the order   *)
(* they are sent (HTTPServer has one thread).  A file that was cut short   *)
(* cannot be read, and counts as one that says nothing.                    *)
(*                                                                         *)
(* A definition whose comment starts with "Mutant:" is a faulty variant of *)
(* the definition below it; no specification uses it.                      *)
(***************************************************************************)
EXTENDS Naturals, FiniteSets, Functions

CONSTANTS
  Run,            \* runs of an evaluation, by run_id
  Text,           \* what a reviewer may say
  MaxReviews      \* bound: iterations

VARIABLES
  outputs,     \* runs that have an outputs directory
  feedback,    \* feedback.json: text by run
  previous,    \* of the iteration before: [feedback, outputs]
  reviews,     \* the number of the iteration
  serving,     \* is the server up?
  page,        \* "none", "loading" or "shown"
  embedded,    \* runs in the page
  feedbackMap, \* the page's own
  typed,       \* history: what the reviewer last typed for a run
  said,        \* history: ... when the page told them it is saved
  saidBefore,  \* history: ... in the iteration before
  unsaved,     \* history: the last save failed, whatever the page told them
  reloaded     \* history: a page was loaded that did not show what was saved

reviewVars == <<outputs, feedback, previous, reviews, serving, page, embedded, feedbackMap,
                typed, said, saidBefore, unsaved, reloaded>>

ASSUME ReviewAssumption == "" \notin Text /\ MaxReviews \in Nat

Nothing == [r \in {} |-> ""]
With(f, r, text) == [q \in DOMAIN f \cup {r} |-> IF q = r THEN text ELSE f[q]]
Said(f) == Restrict(f, {r \in DOMAIN f : f[r] # ""})
-----------------------------------------------------------------------------
ReviewInit ==
  /\ outputs = {} /\ feedback = Nothing
  /\ previous = [feedback |-> Nothing, outputs |-> {}] /\ reviews = 1
  /\ serving = FALSE /\ page = "none" /\ embedded = {} /\ feedbackMap = Nothing
  /\ typed = Nothing /\ said = Nothing /\ saidBefore = Nothing /\ unsaved = FALSE /\ reloaded = FALSE

(* A run of the evaluation is there, perhaps while the viewer runs.        *)
Produce(r) ==
  /\ outputs' = outputs \cup {r}
  /\ UNCHANGED <<feedback, previous, reviews, serving, page, embedded, feedbackMap, typed, said, saidBefore, unsaved, reloaded>>

(* main, which gives up if there are no runs.                              *)
Serve ==
  /\ ~serving /\ outputs # {}
  /\ serving' = TRUE
  /\ UNCHANGED <<outputs, feedback, previous, reviews, page, embedded, feedbackMap, typed, said, saidBefore, unsaved, reloaded>>

(* Ctrl+C, or the _kill_port of another viewer.                            *)
StopServing ==
  /\ serving /\ serving' = FALSE
  /\ UNCHANGED <<outputs, feedback, previous, reviews, page, embedded, feedbackMap, typed, said, saidBefore, unsaved, reloaded>>

HasPrevious == Said(previous.feedback) # Nothing \/ previous.outputs # {}

(* Mutant: the page never asks for what was saved.                         *)
AsksNever == FALSE
Asks == ~HasPrevious

(* do_GET of the page, with the runs found now; init of the page starts    *)
(* from nothing if there is a previous iteration.                          *)
LoadPage ==
  /\ serving
  /\ page' = IF Asks THEN "loading" ELSE "shown"
  /\ embedded' = outputs /\ feedbackMap' = Nothing
  /\ reloaded' = (reloaded \/ unsaved \/ (HasPrevious /\ Said(feedback) # Nothing))
  /\ typed' = said
  /\ UNCHANGED <<outputs, feedback, previous, reviews, serving, said, saidBefore, unsaved>>

(* do_GET of /api/feedback.  Without an answer the page shows nothing.     *)
Fetch ==
  /\ page = "loading" /\ page' = "shown"
  /\ feedbackMap' = IF serving THEN feedback ELSE Nothing
  /\ reloaded' = (reloaded \/ (~serving /\ Said(feedback) # Nothing))
  /\ UNCHANGED <<outputs, feedback, previous, reviews, serving, embedded, typed, said, saidBefore, unsaved>>

Typed(r, text) == IF text = "" THEN Restrict(feedbackMap, DOMAIN feedbackMap \ {r})
                  ELSE With(feedbackMap, r, text)

(* do_POST: the file is written, or cannot be, which empties it or not.    *)
Answered(reviewed) ==
  /\ serving /\ UNCHANGED serving
  /\ \/ feedback' = reviewed /\ unsaved' = FALSE
     \/ feedback' \in {feedback, Nothing} /\ unsaved' = TRUE

(* The server is not up, or ends while it writes.                          *)
Unanswered(reviewed, final) ==
  /\ serving' = FALSE
  /\ IF serving THEN feedback' \in {feedback, Nothing, reviewed} ELSE UNCHANGED feedback
  /\ unsaved' = (unsaved \/ final \/ feedback' # feedback)

(* The page says Saved whatever the answer is; without one the final       *)
(* dialog says so too, and a file is downloaded.                           *)
Post(r, text, reviewed, final) ==
  /\ typed' = With(typed, r, text)
  /\ \/ Answered(reviewed) /\ said' = typed'
     \/ Unanswered(reviewed, final) /\ said' = IF final THEN typed' ELSE said
  /\ UNCHANGED <<outputs, previous, reviews, page, embedded, saidBefore, reloaded>>

(* saveCurrentFeedback: what is blank is left out.                         *)
Save(r, text) ==
  /\ page = "shown" /\ r \in embedded
  /\ feedbackMap' = Typed(r, text)
  /\ Post(r, text, Said(feedbackMap'), FALSE)

(* showDoneDialog: all runs of the page, and no other.                     *)
SubmitAll(r, text) ==
  /\ page = "shown" /\ r \in embedded
  /\ feedbackMap' = Typed(r, text)
  /\ Post(r, text, [q \in embedded |-> IF q \in DOMAIN feedbackMap' THEN feedbackMap'[q] ELSE ""], TRUE)

(* load_previous_iteration                                                 *)
LoadPreviousIteration == [feedback |-> Said(feedback), outputs |-> outputs]

(* The skill is improved; its runs get a directory of their own.           *)
NextIteration ==
  /\ reviews < MaxReviews /\ outputs # {}
  /\ reviews' = reviews + 1
  /\ previous' = LoadPreviousIteration
  /\ saidBefore' = said /\ typed' = Nothing /\ said' = Nothing
  /\ reloaded' = (reloaded \/ unsaved) /\ unsaved' = FALSE
  /\ outputs' = {} /\ feedback' = Nothing
  /\ serving' = FALSE /\ page' = "none" /\ embedded' = {} /\ feedbackMap' = Nothing

ReviewNext ==
  \/ \E r \in Run : Produce(r)
  \/ Serve \/ StopServing \/ LoadPage \/ Fetch \/ NextIteration
  \/ \E r \in Run, text \in Text \cup {""} : Save(r, text) \/ SubmitAll(r, text)
-----------------------------------------------------------------------------
OfRuns(f) == DOMAIN f \subseteq Run /\ \A r \in DOMAIN f : f[r] \in Text \cup {""}

(* The types of the tool's variables.                                      *)
ReviewTyped ==
  /\ outputs \subseteq Run /\ embedded \subseteq outputs
  /\ DOMAIN feedback \subseteq outputs /\ DOMAIN feedbackMap \subseteq embedded
  /\ OfRuns(feedback) /\ OfRuns(feedbackMap) /\ OfRuns(previous.feedback)
  /\ OfRuns(typed) /\ OfRuns(said) /\ OfRuns(saidBefore)
  /\ previous.outputs \subseteq Run /\ reviews \in Nat
  /\ page \in {"none", "loading", "shown"}
  /\ serving \in BOOLEAN /\ unsaved \in BOOLEAN /\ reloaded \in BOOLEAN

(* What the reviewer typed until the page told them that it is saved is in *)
(* feedback.json until they change it and save again, whatever runs come   *)
(* up meanwhile, through reloads of the page and restarts of the viewer,   *)
(* and the next iteration shows it.  Not so after a save that failed,      *)
(* which the page hides, until the next one, which makes up for it if the  *)
(* page is still the same.  A page that is reloaded before that, or in a   *)
(* later iteration, or without an answer to its request for what was       *)
(* saved, starts from nothing: its first save loses the rest.              *)
FeedbackKept ==
  ~reloaded => /\ unsaved \/ Said(feedback) = Said(said)
               /\ previous.feedback = Nothing \/ Said(previous.feedback) = Said(saidBefore)
=============================================================================
