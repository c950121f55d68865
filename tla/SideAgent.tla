----------------------------- MODULE SideAgent ------------------------------
(***************************************************************************)
(* The side agent of a session (side.rs): a queue of questions of its own, *)
(* one runner that answers them one after the other from the state of the  *)
(* session, and a private history of the exchanges.                        *)
(*                                                                         *)
(* Questions are numbered as they are asked.  The state of the session is  *)
(* known by the number of events it is folded from (EventLog), and so is   *)
(* an answer by the state it tells of; who words it is left out.           *)
(***************************************************************************)
EXTENDS SessionEvents

CONSTANTS
  SideQueueCap, \* capacity of the question channel (64)
  SideHistCap,  \* length the history is cut to (16)
  MaxQuestions  \* bound: questions asked

ASSUME SideAssumption ==
  /\ SideQueueCap \in Nat \ {0}
  /\ SideHistCap \in Nat \ {0} /\ SideHistCap % 2 = 0
  /\ MaxQuestions \in Nat

VARIABLES
  asked,     \* per question, the events emitted when it was asked
  queue,     \* the questions in the channel
  question,  \* the question being answered; 0 while the runner waits for one
  about,     \* the state that the answer will tell of
  history    \* what earlier exchanges the model is reminded of

sideVars == <<asked, queue, question, about, history>>

-----------------------------------------------------------------------------
SideEvent(q, at) == [kind |-> "side", question |-> q, about |-> at]
ErrorEvent == [kind |-> "error"]

\* The newest messages, as many as the cap allows.
Cut(h) == IF Len(h) > SideHistCap
            THEN SubSeq(h, Len(h) - SideHistCap + 1, Len(h)) ELSE h

-----------------------------------------------------------------------------
SideInit ==
  asked = <<>> /\ queue = <<>> /\ question = 0 /\ about = 0 /\ history = <<>>

\* Session::ask_side: a full queue is reported and nothing is queued.
Ask ==
  /\ Len(asked) < MaxQuestions
  /\ asked' = Append(asked, Now)
  /\ \/ /\ Len(queue) < SideQueueCap
        /\ queue' = Append(queue, Len(asked) + 1)
        /\ UNCHANGED events
     \/ /\ Len(queue) >= SideQueueCap
        /\ Emit(<<ErrorEvent>>)
        /\ UNCHANGED queue
  /\ UNCHANGED <<question, about, history>>

\* Faulty variant: the state is read before the runner waits for the question.
BeginAnswerFromOldState ==
  /\ question = 0 /\ queue # <<>>
  /\ question' = Head(queue) /\ queue' = Tail(queue)
  /\ UNCHANGED <<asked, about, history, events>>

\* runner takes a question and answer reads the state, once and before the
\* model is called; nothing is awaited in between.
BeginAnswer ==
  /\ question = 0 /\ queue # <<>>
  /\ question' = Head(queue) /\ queue' = Tail(queue)
  /\ about' = Now
  /\ UNCHANGED <<asked, history, events>>

\* The answer is published; nothing is awaited since it was found.
Publish ==
  /\ question # 0
  /\ Emit(<<SideEvent(question, about)>>)
  /\ question' = 0 /\ about' = 0
  /\ UNCHANGED <<asked, queue>>

\* The exchange is remembered, even when the reply has no text and the
\* heuristic words the answer.
ModelAnswers ==
  /\ Publish
  /\ history' = Cut(history \o <<[role |-> "user", of |-> question],
                                 [role |-> "assistant", of |-> question]>>)

\* Faulty variant: the question is remembered before the model is called.
HeuristicAnswersKeepingQuestion ==
  Publish /\ history' = Cut(Append(history, [role |-> "user", of |-> question]))

\* Faulty variant: nothing is published when the model is not available.
HeuristicAnswersNothing ==
  /\ question # 0 /\ question' = 0 /\ about' = 0
  /\ UNCHANGED <<events, asked, queue, history>>

\* The provider of the demo has no model to ask, or the call fails: the
\* heuristic answers and nothing is remembered.
HeuristicAnswers == Publish /\ UNCHANGED history

Answering == BeginAnswer \/ ModelAnswers \/ HeuristicAnswers
=============================================================================
