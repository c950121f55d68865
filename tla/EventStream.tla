---------------------------- MODULE EventStream ----------------------------
(***************************************************************************)
(* What the event pipeline of a Morse session promises its watchers: one   *)
(* append-only stream of messages, in which the i-th message carries       *)
(* sequence number i for ever, and connections that each show a contiguous *)
(* stretch of that stream.  A crash of the server may not take anything    *)
(* back.  EventLog is the code; EventLogStream shows it implements this.   *)
(***************************************************************************)
EXTENDS Naturals, SequencesExt

CONSTANTS Clients,   \* the WebSocket connections
          Msg        \* the messages a session can emit

VARIABLES stream,    \* every message published so far
          got        \* got[c]: the envelopes connection c was sent

vars == <<stream, got>>

Init == /\ stream = <<>>
        /\ got = [c \in Clients |-> <<>>]

\* The session publishes one or more messages behind those already there.
Publish == /\ IsStrictPrefix(stream, stream')
           /\ stream' \in Seq(Msg)
           /\ UNCHANGED got

\* A new connection has been sent nothing yet.
Connect(c) == /\ got' = [got EXCEPT ![c] = <<>>]
              /\ UNCHANGED stream

\* Connection c is sent the message behind the last one it was sent.
Send(c) ==
  /\ \E i \in DOMAIN stream :
       /\ got[c] = <<>> \/ i = Last(got[c]).seq + 1
       /\ got' = [got EXCEPT ![c] = Append(@, [seq |-> i, msg |-> stream[i]])]
  /\ UNCHANGED stream

Next == \/ Publish
        \/ \E c \in Clients : Connect(c) \/ Send(c)

Spec == Init /\ [][Next]_vars
=============================================================================
