---------------------------- MODULE PromptHandshake ----------------------------
(***************************************************************************)
(* A run asks its questions from a worker thread: which values the unknown *)
(* tokens have, whether the titles and NFOs are right, what to do about a  *)
(* failed upload.  It emits a signal the window's thread receives later    *)
(* and blocks in an event loop of its own until the answer's signal comes  *)
(* back.  A signal reaches only receivers connected when it is emitted.    *)
(* The question about an upload also has a watchdog: without an            *)
(* acknowledgement in time it answers itself with Cancel.                  *)
(***************************************************************************)
EXTENDS Naturals, Sequences

CONSTANTS
  MaxPrompts,  \* bound on the questions of one run
  HumanPace    \* a user needs longer to answer a dialog than the worker needs
               \* for its next line, and for receiving the acknowledgement

ASSUME PromptsAssumption == MaxPrompts \in Nat \ {0} /\ HumanPace \in BOOLEAN

Kinds == {"tokens", "overview", "retry"}

\* UploadRetryAction; a dialog that is confirmed or closed.
Answers == {"RETRY", "SKIP", "CANCEL", "ACCEPTED", "REJECTED"}

AnswersTo(k) == IF k = "retry" THEN {"RETRY", "SKIP", "CANCEL"}
                               ELSE {"ACCEPTED", "REJECTED"}

Ack == "ack"

VARIABLES
  pc,        \* the worker: "working", "connecting", "waiting" or "ended"
  kind,      \* the kind of the last question
  asked,     \* questions asked so far
  connected, \* the waiter's slots are connected
  watchdog,  \* the watchdog's timer is running
  toGui,     \* the question's signal, not yet received by the window
  dialog,    \* the dialog is open
  toWaiter,  \* signals queued for the waiter
  given,     \* ghost: the answer given while the worker waited for it
  lost,      \* ghost: a dialog went away without answering
  result     \* what the last question came back with

vars == <<pc, kind, asked, connected, watchdog, toGui, dialog, toWaiter, given,
          lost, result>>

Init ==
  /\ pc = "working" /\ kind = "tokens" /\ asked = 0
  /\ connected = FALSE /\ watchdog = FALSE
  /\ toGui = FALSE /\ dialog = FALSE /\ toWaiter = <<>>
  /\ given = "nothing" /\ lost = FALSE /\ result = "nothing"

-----------------------------------------------------------------------------
(* The worker.                                                             *)

\* upload_retry_and_wait_cb connects, starts the watchdog, emits.
AskRetry ==
  /\ connected' = TRUE /\ watchdog' = TRUE
  /\ pc' = "waiting"

\* token_prompt_and_wait_cb and overview_prompt_and_wait_cb emit first.
AskOther ==
  /\ connected' = FALSE /\ watchdog' = FALSE
  /\ pc' = "connecting"

Ask(k) ==
  /\ pc = "working" /\ asked < MaxPrompts
  /\ asked' = asked + 1 /\ kind' = k
  /\ IF k = "retry" THEN AskRetry ELSE AskOther
  /\ toGui' = TRUE /\ toWaiter' = <<>>
  /\ given' = "nothing" /\ result' = "nothing"
  /\ UNCHANGED <<dialog, lost>>

Connect ==
  /\ pc = "connecting"
  /\ connected' = TRUE /\ pc' = "waiting"
  /\ UNCHANGED <<kind, asked, watchdog, toGui, dialog, toWaiter, given, lost, result>>

\* Mutant: the acknowledgement is received and nothing done about it.
AckedWatchdog == watchdog

\* on_ack
StoppedWatchdog == FALSE

ReceiveAck ==
  /\ pc = "waiting" /\ toWaiter # <<>> /\ Head(toWaiter) = Ack
  /\ toWaiter' = Tail(toWaiter) /\ watchdog' = StoppedWatchdog
  /\ UNCHANGED <<pc, kind, asked, connected, toGui, dialog, given, lost, result>>

\* Mutant: the slots stay connected.
ResumeStillConnected(answer) ==
  /\ result' = answer
  /\ pc' = (IF answer = "CANCEL" THEN "ended" ELSE "working")
  /\ watchdog' = FALSE /\ toWaiter' = <<>>
  /\ UNCHANGED <<kind, asked, connected, toGui, dialog, given, lost>>

\* The loop ends; the slots are disconnected, and what is still queued for the
\* waiter goes with it.  Cancel is the last thing a run asks.
Resume(answer) ==
  /\ result' = answer
  /\ pc' = (IF answer = "CANCEL" THEN "ended" ELSE "working")
  /\ connected' = FALSE /\ watchdog' = FALSE /\ toWaiter' = <<>>
  /\ UNCHANGED <<kind, asked, toGui, dialog, given, lost>>

ReceiveAnswer ==
  /\ pc = "waiting" /\ toWaiter # <<>> /\ Head(toWaiter) # Ack
  /\ Resume(Head(toWaiter))

\* Mutant: a question nobody answered in time is skipped.
WatchdogSkips ==
  /\ pc = "waiting" /\ watchdog
  /\ Resume("SKIP")

WatchdogFires ==
  /\ pc = "waiting" /\ watchdog
  /\ Resume("CANCEL")

\* The run ends, between two questions.
EndRun ==
  /\ pc = "working" /\ pc' = "ended"
  /\ UNCHANGED <<kind, asked, connected, watchdog, toGui, dialog, toWaiter,
                 given, lost, result>>

-----------------------------------------------------------------------------
(* The window.                                                             *)

Emit(signal) ==
  toWaiter' = IF connected THEN Append(toWaiter, signal) ELSE toWaiter

\* The page's slot opens its dialog; for a failed upload, after telling the
\* worker so.
ShowDialog ==
  /\ toGui /\ ~dialog
  /\ toGui' = FALSE /\ dialog' = TRUE
  /\ IF kind = "retry" THEN Emit(Ack) ELSE UNCHANGED toWaiter
  /\ UNCHANGED <<pc, kind, asked, connected, watchdog, given, lost, result>>

Answer(a) ==
  /\ given' = (IF pc \in {"connecting", "waiting"} THEN a ELSE given)
  /\ dialog' = FALSE
  /\ Emit(a)
  /\ UNCHANGED <<pc, kind, asked, connected, watchdog, toGui, lost, result>>

UserAnswers ==
  /\ dialog
  /\ HumanPace => pc # "connecting" /\ toWaiter = <<>>
  /\ \E a \in AnswersTo(kind) : Answer(a)

\* Mutant: an upload's dialog that fails says nothing.
DialogFailsSilently ==
  /\ dialog
  /\ dialog' = FALSE /\ lost' = (kind # "retry" /\ pc # "ended")
  /\ UNCHANGED <<pc, kind, asked, connected, watchdog, toGui, toWaiter, given, result>>

\* Mutant: the answer has no default.
DialogFailsWithoutDefault ==
  /\ dialog
  /\ IF kind = "retry"
       THEN Answer("nothing")
       ELSE /\ dialog' = FALSE /\ lost' = TRUE
            /\ UNCHANGED <<pc, kind, asked, connected, watchdog, toGui, toWaiter,
                           given, result>>

\* Showing the dialog raises, or saving a setting from it does.  Only the slot
\* of the upload's question answers from a finally clause.
DialogFails ==
  /\ dialog
  /\ IF kind = "retry"
       THEN Answer("CANCEL")
       ELSE /\ dialog' = FALSE /\ lost' = TRUE
            /\ UNCHANGED <<pc, kind, asked, connected, watchdog, toGui, toWaiter,
                           given, result>>

WorkerStep == Connect \/ ReceiveAck \/ ReceiveAnswer
WindowStep == ShowDialog \/ UserAnswers

Next ==
  \/ WorkerStep \/ WatchdogFires \/ EndRun \/ \E k \in Kinds : Ask(k)
  \/ WindowStep \/ DialogFails

\* The worker's loop runs, the window's loop runs, and a user who is shown a
\* dialog answers it some time.
Spec == Init /\ [][Next]_vars /\ WF_vars(WorkerStep) /\ WF_vars(WindowStep)

-----------------------------------------------------------------------------
(* Properties.                                                             *)

\* Every variable stays in its range.
TypeOK ==
  /\ pc \in {"working", "connecting", "waiting", "ended"}
  /\ kind \in Kinds /\ asked \in 0..MaxPrompts
  /\ connected \in BOOLEAN /\ watchdog \in BOOLEAN
  /\ toGui \in BOOLEAN /\ dialog \in BOOLEAN /\ lost \in BOOLEAN
  /\ toWaiter \in Seq(Answers \cup {Ack})
  /\ given \in Answers \cup {"nothing"} /\ result \in Answers \cup {"nothing"}

\* A question is never put while another one's dialog is open or on its way:
\* there is one slot for the answer, and the dialogs would stack.
OneQuestion == pc = "working" => ~toGui /\ ~dialog

\* No slot stays connected between two questions, or after the run: the signals
\* are global, and the next answer would reach the wrong question ("a raise
\* inside the loop cannot leak a connection").
NothingLeaks == pc \in {"working", "ended"} => ~connected /\ toWaiter = <<>>

\* Every question is answered by its own answer: the run never goes on with
\* another's, and once the window acknowledged a failed upload nothing but the
\* user's choice ends the wait ("let the user take as long as they need").
P == INSTANCE Prompt WITH
       open <- pc \in {"connecting", "waiting"},
       seen <- kind = "retry" /\ asked > 0 /\ ~watchdog /\ pc = "waiting"
AnsweredByTheUser == P!PromptSpec

\* What the properties above rest on: where a question and its answer are.
Asking == pc \in {"connecting", "waiting"}
Underway ==
  /\ connected = (pc = "waiting")
  /\ pc # "waiting" => toWaiter = <<>> /\ ~watchdog
  /\ watchdog => kind = "retry"
  /\ pc = "connecting" => kind # "retry"
  /\ toGui => ~dialog /\ toWaiter = <<>>
  /\ Asking /\ (toGui \/ dialog) => given = "nothing"
  /\ \/ toWaiter \in {<<>>, <<Ack>>}
     \/ given # "nothing" /\ toWaiter \in {<<given>>, <<Ack, given>>}
  /\ toWaiter # <<>> /\ Head(toWaiter) = Ack => watchdog
  /\ pc = "waiting" /\ toGui /\ kind = "retry" => watchdog
  /\ pc = "waiting" /\ dialog /\ watchdog => toWaiter # <<>>
  /\ HumanPace /\ watchdog => given \in {"nothing", "CANCEL"}

\* While the run waits, something that will end the wait exists: its question is
\* on the way to the window, the dialog is open, or the answer is queued.  But
\* for a dialog that went away, and for an answer that was quicker than the
\* worker's next line, to a question that is emitted before it is listened for.
Missed == given # "nothing" /\ ~HumanPace /\ kind # "retry"
OnItsWay ==
  Asking => \/ toGui \/ dialog
            \/ given # "nothing" /\ toWaiter \in {<<given>>, <<Ack, given>>}
            \/ lost \/ Missed

\* A question does not block the run for ever, unless its dialog went away
\* without answering.
WorkerResumes == pc \in {"connecting", "waiting"} ~>
                   (pc \in {"working", "ended"} \/ lost)
=============================================================================
