-------------------------------- MODULE Prompt --------------------------------
(***************************************************************************)
(* What a run relies on when it stops to ask: a question gets the answer   *)
(* its user gave to that question; it goes unanswered, as Cancel, only     *)
(* before anybody saw it or when there was nothing to answer.              *)
(* PromptHandshake implements this between two threads.                    *)
(***************************************************************************)
CONSTANT Answers

VARIABLES
  open,   \* a question is waiting for its answer
  seen,   \* the asking side knows the user was shown it
  given,  \* the user's answer to it, or "nothing"
  result  \* what the last question came back with

promptVars == <<open, seen, given, result>>

PromptInit == open = FALSE /\ seen = FALSE /\ given = "nothing" /\ result = "nothing"

Ask == /\ ~open
       /\ open' = TRUE /\ seen' = FALSE
       /\ given' = "nothing" /\ result' = "nothing"

See == /\ open /\ ~seen
       /\ seen' = TRUE
       /\ UNCHANGED <<open, given, result>>

Give == /\ open /\ given = "nothing"
        /\ given' \in Answers
        /\ UNCHANGED <<open, seen, result>>

Return == /\ open
          /\ seen => given # "nothing"
          /\ result' = (IF given = "nothing" THEN "CANCEL" ELSE given)
          /\ open' = FALSE /\ seen' = FALSE
          /\ UNCHANGED given

PromptNext == Ask \/ See \/ Give \/ Return

PromptSpec == PromptInit /\ [][PromptNext]_promptVars
=============================================================================
