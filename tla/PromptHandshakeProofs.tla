------------------------- MODULE PromptHandshakeProofs -------------------------
(***************************************************************************)
(* Theorems about PromptHandshake for any number of questions and any      *)
(* order of the two threads' steps; the refinement for a user who is not   *)
(* faster than the worker's next line.                                     *)
(***************************************************************************)
EXTENDS PromptHandshake, SequenceTheorems, TLAPS

Inv == TypeOK /\ OneQuestion /\ Underway /\ OnItsWay

\* A queue of at most an acknowledgement and an answer: what Head and Tail give.
LEMMA Queues ==
  ASSUME NEW a, NEW b
  PROVE  /\ Head(<<a>>) = a /\ Tail(<<a>>) = <<>> /\ <<a>> # <<>>
         /\ Head(<<a, b>>) = a /\ Tail(<<a, b>>) = <<b>> /\ <<a, b>> # <<>>
         /\ Append(<<>>, a) = <<a>>
<1>1. Head(<<a>>) = a
  OBVIOUS
<1>2. Tail(<<a>>) = <<>>
  OBVIOUS
<1>3. <<a>> # <<>>
  OBVIOUS
<1>4. Head(<<a, b>>) = a
  OBVIOUS
<1>5. Tail(<<a, b>>) = <<b>>
  OBVIOUS
<1>6. <<a, b>> # <<>>
  OBVIOUS
<1>7. Append(<<>>, a) = <<a>>
  OBVIOUS
<1> QED BY <1>1, <1>2, <1>3, <1>4, <1>5, <1>6, <1>7

LEMMA SecondInQueue ==
  ASSUME NEW S, NEW a \in S, NEW b \in S
  PROVE  Append(<<a>>, b) = <<a, b>>
<1> DEFINE s == Append(<<a>>, b)
           t == <<a, b>>
<1>1. s \in Seq(S) /\ t \in Seq(S)
  OBVIOUS
<1>2. Len(s) = 2 /\ Len(t) = 2
  OBVIOUS
<1>3. s[1] = a /\ s[2] = b
  OBVIOUS
<1>4. t[1] = a /\ t[2] = b
  OBVIOUS
<1>5. \A i \in 1..Len(s) : s[i] = t[i]
  BY <1>2, <1>3, <1>4
<1> HIDE DEF s, t
<1>6. s = t
  BY <1>1, <1>2, <1>5, SeqEqual
<1> QED BY <1>6 DEF s, t

\* Such a queue is a queue of signals.
LEMMA QueuesTyped ==
  ASSUME NEW a \in Answers
  PROVE  /\ <<>> \in Seq(Answers \cup {Ack})
         /\ <<Ack>> \in Seq(Answers \cup {Ack})
         /\ <<a>> \in Seq(Answers \cup {Ack})
         /\ <<Ack, a>> \in Seq(Answers \cup {Ack})
<1> DEFINE S == Answers \cup {Ack}
<1>1. Ack \in S /\ a \in S
  OBVIOUS
<1> HIDE DEF S
<1>2. <<>> \in Seq(S)
  OBVIOUS
<1>3. <<Ack>> \in Seq(S)
  BY <1>1
<1>4. <<a>> \in Seq(S)
  BY <1>1
<1>5. <<Ack, a>> \in Seq(S)
  BY <1>1
<1> QED BY <1>2, <1>3, <1>4, <1>5 DEF S

LEMMA EmptyTyped == <<>> \in Seq(Answers \cup {Ack})
  OBVIOUS

\* An answer is not an acknowledgement, and none of them is "nothing".
LEMMA Signals ==
  /\ Ack \notin Answers /\ "nothing" \notin Answers /\ Ack # "nothing"
  /\ \A k \in Kinds : AnswersTo(k) \subseteq Answers
  /\ "CANCEL" \in Answers
  BY DEF Ack, Answers, Kinds, AnswersTo

LEMMA InvInit == Init => Inv
<1> SUFFICES ASSUME Init PROVE Inv
  OBVIOUS
<1>1. TypeOK
  <2>1. asked \in 0..MaxPrompts
    BY PromptsAssumption DEF Init
  <2>2. toWaiter \in Seq(Answers \cup {Ack})
    BY EmptyTyped DEF Init
  <2> QED BY <2>1, <2>2 DEF Init, TypeOK, Kinds
<1>2. OneQuestion /\ Underway /\ OnItsWay
  BY DEF Init, OneQuestion, Underway, OnItsWay, Missed, Asking
<1> QED BY <1>1, <1>2 DEF Inv

\* Asking, connecting and ending: the worker alone.
LEMMA WorkerKeepsInv ==
  ASSUME Inv, NEW k \in Kinds, Ask(k) \/ Connect \/ EndRun \/ WatchdogFires
  PROVE  Inv'
<1> USE PromptsAssumption
<1>1. CASE Ask(k)
  <2>1. TypeOK'
    <3>1. asked' \in 0..MaxPrompts
      BY <1>1 DEF Inv, TypeOK, Ask
    <3>2. toWaiter' \in Seq(Answers \cup {Ack})
      BY <1>1, EmptyTyped DEF Ask
    <3>3. pc' \in {"connecting", "waiting"} /\ connected' \in BOOLEAN /\ watchdog' \in BOOLEAN
      BY <1>1 DEF Ask, AskRetry, AskOther
    <3> QED BY <1>1, <3>1, <3>2, <3>3 DEF Inv, TypeOK, Ask
  <2>2. OneQuestion' /\ Underway' /\ OnItsWay'
    BY <1>1
    DEF Inv, TypeOK, OneQuestion, Underway, OnItsWay, Missed, Asking, Ask, AskRetry, AskOther
  <2> QED BY <2>1, <2>2 DEF Inv
<1>2. CASE Connect
  BY <1>2 DEF Inv, TypeOK, OneQuestion, Underway, OnItsWay, Missed, Asking, Connect
<1>3. CASE EndRun
  BY <1>3 DEF Inv, TypeOK, OneQuestion, Underway, OnItsWay, Missed, Asking, EndRun
<1>4. CASE WatchdogFires
  <2>1. TypeOK'
    BY <1>4, Signals, EmptyTyped DEF Inv, TypeOK, WatchdogFires, Resume
  <2>2. OneQuestion' /\ Underway' /\ OnItsWay'
    BY <1>4
    DEF Inv, TypeOK, OneQuestion, Underway, OnItsWay, Missed, Asking, WatchdogFires, Resume
  <2> QED BY <2>1, <2>2 DEF Inv
<1> QED BY <1>1, <1>2, <1>3, <1>4

\* The worker receives what is queued for it: first the acknowledgement, then
\* the answer to its question.
LEMMA ReceivingKeepsInv ==
  ASSUME Inv, ReceiveAck \/ ReceiveAnswer
  PROVE  Inv'
<1>1. CASE ReceiveAck
  <2>1. toWaiter = <<Ack>> \/ (given # "nothing" /\ toWaiter = <<Ack, given>>)
    BY <1>1, Queues, Signals DEF Inv, TypeOK, Underway, ReceiveAck
  <2>2. toWaiter' = <<>> \/ (given # "nothing" /\ toWaiter' = <<given>>)
    <3>1. CASE toWaiter = <<Ack>>
      BY <1>1, <3>1, Queues DEF ReceiveAck
    <3>2. CASE given # "nothing" /\ toWaiter = <<Ack, given>>
      <4>1. Tail(<<Ack, given>>) = <<given>>
        BY Queues
      <4> QED BY <1>1, <3>2, <4>1 DEF ReceiveAck
    <3> QED BY <2>1, <3>1, <3>2
  <2>3. given # Ack
    BY Signals DEF Inv, TypeOK
  <2>4. TypeOK'
    <3>1. toWaiter' \in Seq(Answers \cup {Ack})
      BY <2>2, EmptyTyped, QueuesTyped DEF Inv, TypeOK
    <3> QED BY <1>1, <3>1 DEF Inv, TypeOK, ReceiveAck, StoppedWatchdog
  <2>5. OneQuestion' /\ Underway'
    BY <1>1, <2>1, <2>2, <2>3, Queues
    DEF Inv, TypeOK, OneQuestion, Underway, Asking, ReceiveAck, StoppedWatchdog
  <2>6. OnItsWay'
    <3>1. pc = "waiting" /\ kind = "retry" /\ ~toGui
      BY <1>1, <2>1, Queues DEF Inv, Underway, ReceiveAck
    <3>2. CASE toWaiter = <<Ack>>
      <4>1. <<Ack>> # <<given>> /\ <<Ack>> # <<Ack, given>>
        BY <2>3
      <4>2. dialog \/ lost
        BY <3>1, <3>2, <4>1 DEF Inv, OnItsWay, Missed, Asking
      <4> QED BY <1>1, <4>2 DEF OnItsWay, ReceiveAck
    <3>3. CASE given # "nothing" /\ toWaiter' = <<given>>
      BY <1>1, <3>3 DEF OnItsWay, ReceiveAck
    <3>4. toWaiter = <<Ack>> \/ (given # "nothing" /\ toWaiter' = <<given>>)
      BY <2>1, <1>1, Queues DEF ReceiveAck
    <3> QED BY <3>2, <3>3, <3>4
  <2> QED BY <2>4, <2>5, <2>6 DEF Inv
<1>2. CASE ReceiveAnswer
  <2>1. given # "nothing" /\ Head(toWaiter) = given
    BY <1>2, Queues DEF Inv, Underway, ReceiveAnswer
  <2>2. TypeOK'
    BY <1>2, <2>1, EmptyTyped DEF Inv, TypeOK, ReceiveAnswer, Resume
  <2>3. OneQuestion' /\ Underway' /\ OnItsWay'
    BY <1>2, <2>1
    DEF Inv, TypeOK, OneQuestion, Underway, OnItsWay, Missed, Asking, ReceiveAnswer, Resume
  <2> QED BY <2>2, <2>3 DEF Inv
<1> QED BY <1>1, <1>2

\* The window shows the dialog of the question that is under way, if any is.
LEMMA ShowingKeepsInv ==
  ASSUME Inv, ShowDialog
  PROVE  Inv'
<1>1. toWaiter = <<>> /\ pc # "working"
  BY DEF Inv, Underway, OneQuestion, ShowDialog
<1>2. toWaiter' = (IF kind = "retry" /\ pc = "waiting" THEN <<Ack>> ELSE <<>>)
  BY <1>1, Queues DEF Inv, TypeOK, Underway, ShowDialog, Emit
<1>3. TypeOK'
  <2>1. toWaiter' \in Seq(Answers \cup {Ack})
    BY <1>2, Signals, QueuesTyped
  <2> QED BY <2>1 DEF Inv, TypeOK, ShowDialog
<1>4. OneQuestion' /\ Underway' /\ OnItsWay'
  BY <1>1, <1>2, Queues
  DEF Inv, TypeOK, OneQuestion, Underway, OnItsWay, Missed, Asking, ShowDialog
<1> QED BY <1>3, <1>4 DEF Inv

\* A dialog's answer: queued behind an acknowledgement at most.
LEMMA AnsweringKeepsInv ==
  ASSUME Inv, dialog, NEW a \in Answers, Answer(a),
         HumanPace /\ a # "CANCEL" => toWaiter = <<>>, HumanPace => pc # "connecting"
  PROVE  Inv'
<1>1. ~toGui /\ pc # "working"
  BY DEF Inv, TypeOK, Underway, OneQuestion
<1>2. CASE pc = "waiting"
  <2>1. given = "nothing" /\ connected /\ given' = a
    BY <1>2 DEF Inv, TypeOK, Underway, OnItsWay, Missed, Asking, Answer
  <2>2. toWaiter \in {<<>>, <<Ack>>}
    BY <2>1 DEF Inv, Underway
  <2>3. toWaiter' = Append(toWaiter, a)
    BY <2>1 DEF Answer, Emit
  <2>4. /\ toWaiter = <<>> => toWaiter' = <<a>>
        /\ toWaiter = <<Ack>> => toWaiter' = <<Ack, a>>
    <3>1. CASE toWaiter = <<>>
      BY <2>3, <3>1, Queues
    <3>2. CASE toWaiter = <<Ack>>
      <4>1. Append(<<Ack>>, a) = <<Ack, a>>
        <5> DEFINE S == Answers \cup {Ack}
        <5>1. Ack \in S /\ a \in S
          OBVIOUS
        <5> QED BY <5>1, SecondInQueue
      <4> QED BY <2>3, <3>2, <4>1
    <3> QED BY <3>1, <3>2
  <2>5. TypeOK'
    <3>1. toWaiter' \in Seq(Answers \cup {Ack})
      BY <2>2, <2>4, QueuesTyped
    <3> QED BY <1>1, <2>1, <3>1 DEF Inv, TypeOK, Answer
  <2>6. a # Ack /\ a # "nothing"
    BY Signals
  <2>7. Head(toWaiter') = Ack => watchdog
    BY <2>2, <2>4, <2>6, Queues DEF Inv, Underway
  <2>8. HumanPace /\ watchdog => given' \in {"nothing", "CANCEL"}
    BY <1>2, <2>1 DEF Inv, Underway
  <2>9. OneQuestion' /\ Underway' /\ OnItsWay'
    BY <1>1, <1>2, <2>1, <2>2, <2>4, <2>6, <2>7, <2>8
    DEF Inv, TypeOK, OneQuestion, Underway, OnItsWay, Missed, Asking, Answer
  <2> QED BY <2>5, <2>9 DEF Inv
<1>3. CASE pc # "waiting"
  <2>1. ~connected /\ toWaiter = <<>> /\ toWaiter' = <<>>
    BY <1>3 DEF Inv, TypeOK, Underway, Answer, Emit
  <2>2. TypeOK'
    BY <1>1, <2>1 DEF Inv, TypeOK, Answer
  <2>3. OneQuestion' /\ Underway'
    BY <1>1, <1>3, <2>1 DEF Inv, TypeOK, OneQuestion, Underway, Asking, Answer
  <2>4. OnItsWay'
    <3>1. Asking' => pc = "connecting" /\ kind # "retry" /\ given' = a
      BY <1>3 DEF Inv, TypeOK, Underway, Asking, Answer
    <3>2. a # "nothing" /\ (pc = "connecting" => ~HumanPace)
      BY Signals
    <3> QED BY <3>1, <3>2 DEF OnItsWay, Missed, Answer
  <2> QED BY <2>2, <2>3, <2>4 DEF Inv
<1> QED BY <1>2, <1>3

\* A dialog that closes: with the user's answer, or with the default one of an
\* upload's question, or without any.
LEMMA ClosingKeepsInv ==
  ASSUME Inv, UserAnswers \/ DialogFails
  PROVE  Inv'
<1>1. CASE UserAnswers
  <2>1. PICK a \in AnswersTo(kind) : Answer(a)
    BY <1>1 DEF UserAnswers
  <2>2. a \in Answers
    BY <2>1, Signals DEF Inv, TypeOK
  <2> QED BY <1>1, <2>1, <2>2, AnsweringKeepsInv DEF UserAnswers
<1>2. CASE DialogFails /\ kind = "retry"
  <2>1. pc # "connecting"
    BY <1>2 DEF Inv, Underway
  <2> QED BY <1>2, <2>1, Signals, AnsweringKeepsInv DEF DialogFails
<1>3. CASE DialogFails /\ kind # "retry"
  BY <1>3 DEF Inv, TypeOK, OneQuestion, Underway, OnItsWay, Missed, Asking, DialogFails
<1> QED BY <1>1, <1>2, <1>3

LEMMA InvNext == Inv /\ [Next]_vars => Inv'
<1> SUFFICES ASSUME Inv, [Next]_vars PROVE Inv'
  OBVIOUS
<1>1. ASSUME NEW k \in Kinds, Ask(k) PROVE Inv'
  BY <1>1, WorkerKeepsInv
<1>2. ASSUME Connect \/ EndRun \/ WatchdogFires PROVE Inv'
  BY <1>2, WorkerKeepsInv DEF Kinds
<1>3. CASE UNCHANGED vars
  BY <1>3 DEF Inv, TypeOK, OneQuestion, Underway, OnItsWay, Missed, Asking, vars
<1> QED
  BY <1>1, <1>2, <1>3, ReceivingKeepsInv, ShowingKeepsInv, ClosingKeepsInv
  DEF Next, WorkerStep, WindowStep

\* Every variable of the handshake stays in its range.
THEOREM TypeCorrect == Spec => []TypeOK
  BY InvInit, InvNext, PTL DEF Spec, Inv

\* A question is never put while another one's dialog is open or on its way.
THEOREM OneAtATime == Spec => []OneQuestion
  BY InvInit, InvNext, PTL DEF Spec, Inv

\* While a run waits for an answer, its question, its dialog or its answer is
\* there and nowhere else, unless a dialog went away without answering, or an
\* answer came before anybody listened (token_prompt_and_wait_cb and
\* overview_prompt_and_wait_cb connect after they emit).
THEOREM UnderwayAlways == Spec => [](Underway /\ OnItsWay)
  BY InvInit, InvNext, PTL DEF Spec, Inv

\* No slot stays connected between two questions or after the run, and no
\* signal is left for one.
THEOREM NoLeak == Spec => []NothingLeaks
<1>1. Inv => NothingLeaks
  BY DEF Inv, TypeOK, Underway, NothingLeaks
<1> QED BY <1>1, InvInit, InvNext, PTL DEF Spec

-----------------------------------------------------------------------------
(* The refinement.                                                         *)

LEMMA PromptStarts == Init => P!PromptInit
  BY DEF Init, P!PromptInit

\* Every step of the two threads is a step of a question, or none.
LEMMA PromptStep ==
  ASSUME HumanPace, Inv, [Next]_vars
  PROVE  [P!PromptNext]_(P!promptVars)
<1> USE DEF P!promptVars, P!PromptNext
<1>1. ASSUME NEW k \in Kinds, Ask(k) PROVE P!Ask
  BY <1>1 DEF Inv, TypeOK, Ask, AskRetry, AskOther, P!Ask
<1>2. CASE Connect
  BY <1>2 DEF Inv, Underway, Connect
<1>3. CASE EndRun
  BY <1>3 DEF EndRun
<1>4. CASE WatchdogFires
  BY <1>4 DEF Inv, TypeOK, Underway, WatchdogFires, Resume, P!Return
<1>5. CASE ReceiveAck
  BY <1>5, PromptsAssumption
  DEF Inv, TypeOK, Underway, ReceiveAck, StoppedWatchdog, P!See
<1>6. CASE ReceiveAnswer
  <2>1. given # "nothing" /\ Head(toWaiter) = given
    BY <1>6, Queues DEF Inv, Underway, ReceiveAnswer
  <2> QED BY <1>6, <2>1 DEF Inv, TypeOK, ReceiveAnswer, Resume, P!Return
<1>7. CASE ShowDialog
  BY <1>7 DEF ShowDialog
<1>8. ASSUME dialog, NEW a \in Answers, Answer(a) PROVE P!Give \/ UNCHANGED P!promptVars
  BY <1>8 DEF Inv, TypeOK, Underway, OnItsWay, Missed, Asking, Answer, P!Give
<1>9. CASE UserAnswers
  BY <1>8, <1>9, Signals DEF Inv, TypeOK, UserAnswers
<1>10. CASE DialogFails
  BY <1>8, <1>10, Signals DEF DialogFails
<1>11. CASE UNCHANGED vars
  BY <1>11 DEF vars
<1> QED
  BY <1>1, <1>2, <1>3, <1>4, <1>5, <1>6, <1>7, <1>9, <1>10, <1>11
  DEF Next, WorkerStep, WindowStep

\* The handshake implements Prompt: a run goes on with the answer its user gave
\* to the question it asked, and with Cancel only when nobody was shown it.
THEOREM HandshakeImplementsPrompt == HumanPace /\ Spec => AnsweredByTheUser
<1>1. ASSUME HumanPace PROVE Spec => AnsweredByTheUser
  BY <1>1, InvInit, InvNext, PromptStarts, PromptStep, PTL
  DEF Spec, AnsweredByTheUser, P!PromptSpec
<1> QED BY <1>1
=============================================================================
