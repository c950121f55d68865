------------------------------ MODULE Terminal ------------------------------
(***************************************************************************)
(* The full-screen client (tui.rs): two panes of wrapped lines, and what a *)
(* submitted line does.                                                    *)
(*                                                                         *)
(* The events arrive in order and once (Delivery).  A body is a sequence   *)
(* of words, known by the number of their event; a line holds as many      *)
(* words as the pane is wide, and an item takes at least one line.  How a  *)
(* line of input is edited, which part of a pane the page keys bring to    *)
(* the screen, the help text and leaving are left out.                     *)
(***************************************************************************)
EXTENDS SessionEvents

Seqs == INSTANCE SequencesExt

CONSTANTS
  MaxLines,   \* MAX_LINES, the cap of the items and lines of a pane (8000)
  Widths      \* the widths the terminal may have

ASSUME TerminalAssumption ==
  /\ MaxLines \in Nat \ {0}
  /\ Widths \subseteq Nat \ {0} /\ Widths # {}

VARIABLES
  panes,   \* "main" and "side"
  pumped   \* the events shown so far

termVars == <<panes, pumped>>

-----------------------------------------------------------------------------
(* Pane.                                                                    *)

LastN(s, n) == IF Len(s) > n THEN SubSeq(s, Len(s) - n + 1, Len(s)) ELSE s
DropLast(s, n) == SubSeq(s, 1, IF Len(s) > n THEN Len(s) - n ELSE 0)

EmptyPane == [items |-> <<>>, wrapped |-> <<>>, wrap_width |-> 0, last_len |-> 0]

Item(prefix, body) == [prefix |-> prefix, body |-> body, streaming |-> FALSE]

\* wrap_item.
Wrap(item, w) ==
  LET words == Len(item.body)
      lines == IF words = 0 THEN 1 ELSE (words + w - 1) \div w
  IN  [l \in 1..lines |->
         SubSeq(item.body, (l - 1) * w + 1, IF l * w < words THEN l * w ELSE words)]

WrapAll(items, w) == Seqs!FlattenSeq([i \in DOMAIN items |-> Wrap(items[i], w)])

\* The lines of a pane behind its unchanged part.
Relined(pane, kept, lines) ==
  IF pane.wrap_width = 0 THEN pane
  ELSE [pane EXCEPT !.wrapped = LastN(kept \o lines, MaxLines), !.last_len = Len(lines)]

PanePush(pane, item) ==
  [Relined(pane, pane.wrapped, Wrap(item, pane.wrap_width)) EXCEPT
     !.items = LastN(Append(@, item), MaxLines)]

\* Faulty variant: the lines of the last item are not counted anew.
SetWidthKeepsLast(pane, w) ==
  IF pane.wrap_width = w THEN pane
  ELSE [pane EXCEPT !.wrap_width = w, !.wrapped = WrapAll(pane.items, w)]

SetWidth(pane, w) ==
  IF pane.wrap_width = w THEN pane
  ELSE [pane EXCEPT
          !.wrap_width = w,
          !.wrapped  = WrapAll(pane.items, w),
          !.last_len = IF pane.items = <<>> THEN 0
                       ELSE Len(Wrap(pane.items[Len(pane.items)], w))]

\* Faulty variant: the fragment joins the last item of streamed text, wherever it is.
PaneAppendAnywhere(pane, prefix, body) ==
  LET at    == {i \in DOMAIN pane.items : pane.items[i].streaming}
      items == [i \in DOMAIN pane.items |->
                  IF i \in at /\ (\A j \in at : j <= i)
                    THEN [pane.items[i] EXCEPT !.body = @ \o body] ELSE pane.items[i]]
  IN  IF at # {}
        THEN SetWidth([pane EXCEPT !.items = items, !.wrap_width = 0], pane.wrap_width)
        ELSE PanePush(pane, [Item(prefix, body) EXCEPT !.streaming = TRUE])

\* A fragment of streamed text joins the item it continues: its lines are
\* taken away and wrapped anew.
PaneAppend(pane, prefix, body) ==
  LET n    == Len(pane.items)
      last == pane.items[n]
      new  == [last EXCEPT !.body = @ \o body]
  IN  IF n > 0 /\ last.streaming /\ last.prefix = prefix
        THEN [Relined(pane, DropLast(pane.wrapped, pane.last_len),
                      Wrap(new, pane.wrap_width)) EXCEPT !.items[n] = new]
        ELSE PanePush(pane, [Item(prefix, body) EXCEPT !.streaming = TRUE])

\* render and the loop over it in pump_events.  A plan is shown by the event
\* that sets it, here with one task; of its call and its result nothing is.
Render(e, n) ==
  CASE e.kind = "delta" ->
         [panes EXCEPT !["main"] = PaneAppend(@, "morse", <<n>>)]
    [] e.kind = "side" ->
         [panes EXCEPT !["side"] = PanePush(PanePush(@, Item("you", <<e.question>>)),
                                            Item("side", <<n, n>>))]
    [] e.kind \in {"usage", "plan_call", "plan_result"} -> panes
    [] e.kind = "plan" ->
         [panes EXCEPT !["main"] = PanePush(PanePush(@, Item("plan", <<n>>)),
                                            Item("task", <<n>>))]
    [] OTHER -> [panes EXCEPT !["main"] = PanePush(@, Item(e.kind, <<n>>))]

-----------------------------------------------------------------------------
TermInit ==
  /\ panes = [p \in {"main", "side"} |-> EmptyPane]
  /\ pumped = 0

\* The next event is taken: whenever there is one it is also shown.
Pumping == pumped < Now /\ pumped' = pumped + 1

\* pump_events, one event.
Pump ==
  /\ Pumping
  /\ panes' = Render(events[pumped + 1], pumped + 1)

\* draw, on a terminal of any width.
Draw(w) ==
  /\ panes' = [p \in {"main", "side"} |-> SetWidth(panes[p], w)]
  /\ UNCHANGED pumped
=============================================================================
