------------------------------ MODULE SideChat ------------------------------
(***************************************************************************)
(* A user at the terminal who asks the side agent while the main agent     *)
(* works: Terminal and SideAgent over the events of one session.  The main *)
(* agent is an environment that streams text and calls tools; it may stop  *)
(* at any point and never go on, like a command that hangs.                *)
(***************************************************************************)
EXTENDS Terminal, SideAgent

CONSTANT MaxMain  \* bound: events of the main agent

vars == <<events, termVars, sideVars>>

MainKinds == {"delta", "usage", "call", "result", "plan_call", "plan", "plan_result"}
MainEvents == SelectSeq(events, LAMBDA e : e.kind \in MainKinds)

\* What the main agent may emit next: text in fragments with the usage behind
\* it, and calls of tools, where a plan is set before its tool ends unless that
\* fails.
NextKinds ==
  LET last == IF MainEvents = <<>> THEN "none" ELSE MainEvents[Len(MainEvents)].kind
  IN  CASE last = "delta"     -> {"delta", "usage", "call", "plan_call"}
        [] last = "usage"     -> {"call", "plan_call"}
        [] last = "call"      -> {"result"}
        [] last = "plan_call" -> {"plan", "plan_result"}
        [] last = "plan"      -> {"plan_result"}
        [] OTHER              -> {"delta", "call", "plan_call"}

Init == events = <<>> /\ TermInit /\ SideInit

\* The main agent, which owes nobody its next event.
MainEmits ==
  /\ Len(MainEvents) < MaxMain
  /\ \E kind \in NextKinds : Emit(<<[kind |-> kind]>>)
  /\ UNCHANGED <<termVars, sideVars>>

\* "/ask ..." goes to the side agent; any other line changes nothing here.
SubmitQuestion == Ask /\ UNCHANGED termVars

Client == Pump \/ \E w \in Widths : Draw(w)

Next ==
  \/ MainEmits
  \/ SubmitQuestion
  \/ Client /\ UNCHANGED <<events, sideVars>>
  \/ Answering /\ UNCHANGED termVars

Spec == Init /\ [][Next]_vars

(***************************************************************************)
(* The side agent's task and the client's loop go on; a model call ends,   *)
(* at the latest by its timeout.  Nothing is assumed of the main agent.    *)
(***************************************************************************)
FairSpec ==
  /\ Spec
  /\ WF_vars(Answering /\ UNCHANGED termVars)
  /\ WF_pumped(Pumping)

-----------------------------------------------------------------------------
\* Events that push no item to the main pane.
Unseen == {"delta", "usage", "side", "plan_call", "plan_result"}

\* Every question is answered at most once and in the order of asking, from a
\* state no older than what had been shown when it was asked (side.rs,
\* answer): an answer never tells of a tool that had ended before.
AnswersAreFresh ==
  \A i \in DOMAIN events : events[i].kind = "side" =>
    /\ events[i].about >= asked[events[i].question]
    /\ \A j \in 1..(i - 1) :
         events[j].kind = "side" => events[j].question < events[i].question

\* What the model is reminded of is whole exchanges, the newest ones in their
\* order, although the history is cut message by message (side.rs, answer).
HistoryIsExchanges ==
  \A i \in DOMAIN history :
    /\ history[i].role = IF i % 2 = 1 THEN "user" ELSE "assistant"
    /\ i > 1 => IF i % 2 = 0 THEN history[i - 1].of = history[i].of
                ELSE history[i - 1].of < history[i].of

\* However events, cuts at the caps, joined fragments and changes of the width
\* follow each other, the lines of a pane are the last lines of its items as
\* wrapped for the present width, at least as many as the cap allows, and the
\* lines that the next fragment will replace are those of the last item
\* (Pane).
PaneShowsItsItems ==
  \A p \in DOMAIN panes :
    LET pane == panes[p]
        all  == WrapAll(pane.items, pane.wrap_width)
    IN  pane.wrap_width > 0 =>
          /\ pane.wrapped = LastN(all, Len(pane.wrapped))
          /\ Len(pane.wrapped) >= IF Len(all) < MaxLines THEN Len(all) ELSE MaxLines
          /\ pane.items # <<>> =>
               pane.last_len = Len(Wrap(pane.items[Len(pane.items)], pane.wrap_width))

\* The text that is streamed in fragments stands in the main pane once, in
\* order and whole, but for what the cap has taken from the front; fragments
\* are joined if and only if the pane shows nothing between them: neither side
\* questions nor the unseen call of a plan tear a text apart, and what is said
\* behind a tool or a plan begins anew (pump_events, append).
StreamedTextIsWhole ==
  LET items    == panes["main"].items
      streamed == {i \in DOMAIN items : items[i].streaming}
  IN  /\ \A i \in streamed : \A j \in DOMAIN items[i].body :
           /\ events[items[i].body[j]].kind = "delta"
           /\ j > 1 =>
                /\ items[i].body[j - 1] < items[i].body[j]
                /\ \A n \in items[i].body[j - 1]..items[i].body[j] : events[n].kind \in Unseen
      /\ \A i, k \in DOMAIN items : i < k /\ {i, k} \cap streamed # {} =>
           \A a \in DOMAIN items[i].body, b \in DOMAIN items[k].body :
             items[i].body[a] < items[k].body[b]
      /\ \A i \in streamed : i + 1 \notin streamed
      /\ \A n \in 1..pumped :
           /\ events[n].kind = "delta"
           /\ Len(items) = MaxLines => n >= items[1].body[1]
           => \E i \in streamed : \E j \in DOMAIN items[i].body : items[i].body[j] = n

\* Every question that was asked comes to be shown with its answer, or with
\* the error that says it was not taken, even if the main agent never goes on:
\* the side agent does not wait for it, and loses no question (side.rs, runner).
QuestionsShown ==
  []<>(/\ pumped = Now
       /\ Len(SelectSeq(events, LAMBDA e : e.kind \in {"side", "error"})) = Len(asked))
=============================================================================
