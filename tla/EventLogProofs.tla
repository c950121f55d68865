--------------------------- MODULE EventLogProofs ---------------------------
(***************************************************************************)
(* Theorems about EventLog, for every number of threads, connections and   *)
(* messages and every value of the caps.  The second half, from the last   *)
(* of a list on, is about a disk that works: nothing a watcher has seen is *)
(* lost, a restart reads back what memory held, no connection shows a gap, *)
(* and all of it implements EventStream.                                   *)
(***************************************************************************)
EXTENDS EventLogStream, SequenceTheorems, TLAPS

USE CapAssumption, NoOneAssumption, MsgAssumption, BoundAssumption

-----------------------------------------------------------------------------
(* Lemmas about the operators.                                              *)

\* Draining a log keeps its type and brings it under the cap.
LEMMA NewestType ==
  ASSUME NEW S, NEW s \in Seq(S)
  PROVE  Newest(s) \in Seq(S) /\ Len(Newest(s)) <= LogCap
<1>1. CASE Len(s) <= LogCap
  BY <1>1 DEF Newest
<1>2. CASE ~(Len(s) <= LogCap)
  <2>1. Len(s) \in Nat /\ LogCap \in Nat /\ Len(s) - LogCap + 1 \in 1..Len(s)
    BY <1>2
  <2>2. Newest(s) = SubSeq(s, Len(s) - LogCap + 1, Len(s))
    BY <1>2 DEF Newest
  <2> QED BY <2>1, <2>2, SubSeqProperties
<1> QED BY <1>1, <1>2

\* The number of the last event of a log is a number.
LEMMA LastSeqType ==
  ASSUME NEW s \in Seq(Envelope)
  PROVE  LastSeq(s) \in Nat
<1>1. CASE s = <<>> BY <1>1 DEF LastSeq
<1>2. CASE s # <<>>
  <2>1. s[Len(s)] \in Envelope BY <1>2
  <2> QED BY <1>2, <2>1 DEF LastSeq, Envelope
<1> QED BY <1>1, <1>2

\* A restored log is a log.
LEMMA RestoredType ==
  ASSUME NEW es \in Seq(Envelope), NEW n \in Nat, NEW m \in [1..n -> Msg]
  PROVE  Restored(es, n, m) \in Seq(Envelope) /\ Len(Restored(es, n, m)) <= LogCap
<1> DEFINE added == [i \in 1..n |-> [seq |-> LastSeq(es) + i, msg |-> m[i]]]
<1>1. LastSeq(es) \in Nat BY LastSeqType
<1>2. \A i \in 1..n : [seq |-> LastSeq(es) + i, msg |-> m[i]] \in Envelope
  BY <1>1 DEF Envelope
<1>3. added \in Seq(Envelope) BY <1>2
<1>4. es \o added \in Seq(Envelope) BY <1>3, ConcatProperties
<1> HIDE DEF added
<1>5. Newest(es \o added) \in Seq(Envelope) /\ Len(Newest(es \o added)) <= LogCap
  BY <1>4, NewestType
<1> QED BY <1>5 DEF Restored, added

LEMMA NoEventType == NoEvent \in Envelope
BY DEF NoEvent, Envelope

-----------------------------------------------------------------------------
(* Type correctness.                                                        *)

LEMMA TypeInit == Init => TypeOK
<1> SUFFICES ASSUME Init PROVE TypeOK
  OBVIOUS
<1>1. <<>> \in Seq(Envelope) /\ Len(<<>>) = 0
  OBVIOUS
<1>2. NoEvent \in Envelope
  BY NoEventType
<1> QED BY <1>1, <1>2 DEF Init, TypeOK, Steps

\* The outcomes of rewrite_events keep the file a sequence of envelopes.
LEMMA RewriteType ==
  ASSUME TypeOK, RewriteEvents
  PROVE  file' \in Seq(Envelope) /\ writer' \in {"none", "file", "orphan"}
BY DEF TypeOK, RewriteEvents

LEMMA TypeStep ==
  ASSUME TypeOK, [Next]_vars
  PROVE  TypeOK'
<1> USE DEF TypeOK
<1>1. CASE Load
  <2>1. PICK n \in 0..RestoreEvents : \E m \in [1..n -> Msg] :
          log' = Restored(Newest(file), n, m)
    BY <1>1 DEF Load
  <2>2. Newest(file) \in Seq(Envelope)
    BY NewestType
  <2>3. log' \in Seq(Envelope) /\ Len(log') <= LogCap
    BY <2>1, <2>2, RestoredType
  <2>4. LastSeq(log') \in Nat
    BY <2>3, LastSeqType
  <2> QED BY <1>1, <2>3, <2>4 DEF Load, emitVars, diskVars, connVars
<1>2. CASE OpenFile
  BY <1>2 DEF OpenFile, emitVars, connVars
<1>3. CASE RewriteAtBoot
  BY <1>3, RewriteType DEF RewriteAtBoot, emitVars, connVars
<1>4. CASE Crash
  <2>1. NoEvent \in Envelope /\ <<>> \in Seq(Envelope)
    BY NoEventType
  <2> QED BY <1>4, <2>1 DEF Crash, Steps
<1>5. ASSUME NEW e \in Emitters, EmitLock(e)
      PROVE  TypeOK'
  <2>1. PICK m \in Msg : env' = [env EXCEPT ![e] = [seq |-> seq + 1, msg |-> m]]
    BY <1>5 DEF EmitLock
  <2>2. [seq |-> seq + 1, msg |-> m] \in Envelope
    BY DEF Envelope
  <2>3. env' \in [Emitters -> Envelope]
    BY <2>1, <2>2
  <2> QED BY <1>5, <2>3 DEF EmitLock, Steps, diskVars, connVars
<1>6. ASSUME NEW e \in Emitters, EmitApply(e)
      PROVE  TypeOK'
  BY <1>6 DEF EmitApply, Steps, Envelope, diskVars, connVars
<1>7. ASSUME NEW e \in Emitters, EmitPush(e)
      PROVE  TypeOK'
  <2>1. Append(log, env[e]) \in Seq(Envelope)
    BY AppendProperties
  <2>2. log' \in Seq(Envelope) /\ Len(log') <= LogCap
    BY <1>7, <2>1, NewestType DEF EmitPush
  <2> QED BY <1>7, <2>2 DEF EmitPush, Steps, diskVars, connVars
<1>8. ASSUME NEW e \in Emitters, EmitAppend(e)
      PROVE  TypeOK'
  <2>1. Append(file, env[e]) \in Seq(Envelope)
    BY AppendProperties
  <2>2. file' \in Seq(Envelope) /\ writer' \in {"none", "file", "orphan"}
    BY <1>8, <2>1 DEF EmitAppend, diskVars
  <2> QED BY <1>8, <2>2 DEF EmitAppend, Steps, connVars
<1>9. ASSUME NEW e \in Emitters, EmitRotate(e)
      PROVE  TypeOK'
  BY <1>9, RewriteType DEF EmitRotate, Steps, connVars
<1>10. ASSUME NEW e \in Emitters, EmitSend(e)
       PROVE  TypeOK'
  <2>1. ASSUME NEW c \in Clients
        PROVE  live'[c] \in Seq(Envelope) /\ Len(live'[c]) <= BufCap
    <3>1. CASE ~conn[c]
      BY <1>10, <3>1 DEF EmitSend
    <3>2. CASE conn[c] /\ Len(live[c]) < BufCap
      BY <1>10, <3>2, AppendProperties DEF EmitSend
    <3>3. CASE conn[c] /\ ~(Len(live[c]) < BufCap)
      <4>1. live[c] # <<>>
        BY <3>3
      <4>2. /\ Tail(live[c]) \in Seq(Envelope)
            /\ Len(Tail(live[c])) = Len(live[c]) - 1
        BY <4>1, HeadTailProperties
      <4>3. live'[c] = Append(Tail(live[c]), env[e])
        BY <1>10, <3>3 DEF EmitSend
      <4> QED BY <4>2, <4>3, AppendProperties
    <3> QED BY <3>1, <3>2, <3>3
  <2>2. live' \in [Clients -> Seq(Envelope)] /\ lagged' \in [Clients -> BOOLEAN]
    BY <1>10, <2>1 DEF EmitSend
  <2>3. env' \in [Emitters -> Envelope]
    BY <1>10, NoEventType DEF EmitSend
  <2> QED BY <1>10, <2>1, <2>2, <2>3 DEF EmitSend, Steps, diskVars
<1>11. ASSUME NEW c \in Clients, Subscribe(c)
       PROVE  TypeOK'
  <2>1. <<>> \in Seq(Envelope) /\ Len(<<>>) = 0
    OBVIOUS
  <2> QED BY <1>11, <2>1 DEF Subscribe, emitVars, diskVars
<1>12. ASSUME NEW c \in Clients, SendReplay(c)
       PROVE  TypeOK'
  <2>1. Head(replay[c]) \in Envelope /\ Tail(replay[c]) \in Seq(Envelope)
    BY <1>12, HeadTailProperties DEF SendReplay
  <2>2. Append(got[c], Head(replay[c])) \in Seq(Envelope)
    BY <2>1, AppendProperties
  <2> QED BY <1>12, <2>1, <2>2 DEF SendReplay, emitVars, diskVars
<1>13. ASSUME NEW c \in Clients, SendLive(c)
       PROVE  TypeOK'
  <2>1. /\ Head(live[c]) \in Envelope /\ Tail(live[c]) \in Seq(Envelope)
        /\ Len(Tail(live[c])) <= BufCap
    BY <1>13, HeadTailProperties DEF SendLive
  <2>2. Append(got[c], Head(live[c])) \in Seq(Envelope)
    BY <2>1, AppendProperties
  <2> QED BY <1>13, <2>1, <2>2 DEF SendLive, emitVars, diskVars
<1>14. ASSUME NEW c \in Clients, Hangup(c)
       PROVE  TypeOK'
  <2>1. <<>> \in Seq(Envelope) /\ Len(<<>>) = 0
    OBVIOUS
  <2> QED BY <1>14, <2>1 DEF Hangup, emitVars, diskVars
<1>15. CASE UNCHANGED vars
  BY <1>15 DEF vars, emitVars, diskVars, connVars
<1> QED
  BY <1>1, <1>2, <1>3, <1>4, <1>5, <1>6, <1>7, <1>8, <1>9, <1>10, <1>11, <1>12,
     <1>13, <1>14, <1>15
  DEF Next, Boot, Emit, Serve, CloseLagged, Disconnect

\* Every variable keeps its type; in particular the in-memory log never
\* exceeds LOG_CAP and no receiver holds more than the ring's capacity.
THEOREM TypeCorrect == Spec => []TypeOK
<1>1. Init => TypeOK BY TypeInit
<1>2. TypeOK /\ [Next]_vars => TypeOK' BY TypeStep
<1> QED BY <1>1, <1>2, PTL DEF Spec

-----------------------------------------------------------------------------
(* Ascending sequence numbers.                                              *)

Below(s, n) == \A i \in DOMAIN s : s[i].seq <= n
Under(s, n) == \A i \in DOMAIN s : s[i].seq < n
Before(s, t) == \A i \in DOMAIN s : \A j \in DOMAIN t : s[i].seq < t[j].seq

\* The events of a log are numbered.
LEMMA Numbered ==
  ASSUME NEW s \in Seq(Envelope)
  PROVE  \A i \in DOMAIN s : s[i].seq \in Nat
<1> SUFFICES ASSUME NEW i \in DOMAIN s PROVE s[i].seq \in Nat
  OBVIOUS
<1>1. s[i] \in Envelope
  BY ElementOfSeq
<1> QED BY <1>1 DEF Envelope

LEMMA EmptyAscending == /\ Ascending(<<>>)
                        /\ \A n : Below(<<>>, n) /\ Under(<<>>, n)
                        /\ \A t : Before(<<>>, t) /\ Before(t, <<>>)
BY DEF Ascending, Below, Under, Before

\* A larger number may be appended.
LEMMA AppendAscending ==
  ASSUME NEW s \in Seq(Envelope), NEW x \in Envelope,
         Ascending(s), Under(s, x.seq)
  PROVE  Ascending(Append(s, x)) /\ Below(Append(s, x), x.seq)
<1>1. /\ Len(Append(s, x)) = Len(s) + 1
      /\ \A i \in 1..Len(s) : Append(s, x)[i] = s[i]
      /\ Append(s, x)[Len(s) + 1] = x
      /\ DOMAIN Append(s, x) = 1..(Len(s) + 1)
      /\ DOMAIN s = 1..Len(s)
  BY AppendProperties
<1>2. \A i \in 1..Len(s) : s[i].seq \in Nat
  BY <1>1, Numbered
<1>3. x.seq \in Nat
  BY DEF Envelope
<1> QED BY <1>1, <1>2, <1>3 DEF Ascending, Under, Below

\* Appending to the later of two sequences keeps them apart.
LEMMA AppendBefore ==
  ASSUME NEW r \in Seq(Envelope), NEW s \in Seq(Envelope), NEW x \in Envelope,
         Before(r, s), Under(r, x.seq)
  PROVE  Before(r, Append(s, x))
<1>1. /\ Len(Append(s, x)) = Len(s) + 1
      /\ \A i \in 1..Len(s) : Append(s, x)[i] = s[i]
      /\ Append(s, x)[Len(s) + 1] = x
      /\ DOMAIN Append(s, x) = 1..(Len(s) + 1)
      /\ DOMAIN s = 1..Len(s)
  BY AppendProperties
<1> QED BY <1>1 DEF Before, Under

\* Taking the head off and putting it behind an earlier sequence.
LEMMA MoveHead ==
  ASSUME NEW g \in Seq(Envelope), NEW s \in Seq(Envelope), s # <<>>,
         Ascending(g), Ascending(s), Before(g, s)
  PROVE  /\ Ascending(Append(g, Head(s))) /\ Ascending(Tail(s))
         /\ Before(Append(g, Head(s)), Tail(s))
         /\ \A n : Under(s, n) => Under(Tail(s), n)
         /\ \A n : Below(s, n) => Below(Tail(s), n)
         /\ \A n : Under(g, n) /\ Under(s, n) => Under(Append(g, Head(s)), n)
         /\ \A n : Below(g, n) /\ Below(s, n) => Below(Append(g, Head(s)), n)
         /\ \A t : Before(g, t) /\ Before(s, t) =>
              Before(Append(g, Head(s)), t) /\ Before(Tail(s), t)
<1> DEFINE h == Head(s)
           r == Tail(s)
           a == Append(g, h)
<1>1. /\ h = s[1] /\ h \in Envelope /\ r \in Seq(Envelope)
      /\ Len(r) = Len(s) - 1
      /\ \A i \in 1..Len(r) : r[i] = s[i + 1]
      /\ DOMAIN r = 1..Len(r) /\ DOMAIN s = 1..Len(s) /\ Len(s) \in Nat /\ Len(s) >= 1
  BY HeadTailProperties
<1>2. /\ Len(a) = Len(g) + 1
      /\ \A i \in 1..Len(g) : a[i] = g[i]
      /\ a[Len(g) + 1] = h
      /\ DOMAIN a = 1..(Len(g) + 1) /\ DOMAIN g = 1..Len(g) /\ Len(g) \in Nat
  BY <1>1, AppendProperties
<1>3. /\ \A i \in DOMAIN s : s[i].seq \in Nat
      /\ \A i \in DOMAIN g : g[i].seq \in Nat
  BY Numbered
<1>4. \A i \in DOMAIN r : i + 1 \in DOMAIN s /\ r[i].seq = s[i + 1].seq
  BY <1>1
<1>5. \A i \in DOMAIN a : \/ i \in DOMAIN g /\ a[i].seq = g[i].seq
                          \/ i = Len(g) + 1 /\ 1 \in DOMAIN s /\ a[i].seq = s[1].seq
  BY <1>1, <1>2
<1> HIDE DEF h, r, a
<1>6. Ascending(a)
  BY <1>2, <1>3, <1>5 DEF Ascending, Before
<1>7. Ascending(r)
  <2> SUFFICES ASSUME NEW i \in DOMAIN r, NEW j \in DOMAIN r, i < j
               PROVE  r[i].seq < r[j].seq
    BY DEF Ascending
  <2>1. i + 1 \in DOMAIN s /\ j + 1 \in DOMAIN s /\ i + 1 < j + 1
    BY <1>1
  <2>2. s[i + 1].seq < s[j + 1].seq
    BY <2>1 DEF Ascending
  <2> QED BY <2>2, <1>4
<1>8. Before(a, r)
  BY <1>1, <1>3, <1>4, <1>5, SMTT(20) DEF Ascending, Before
<1>9. /\ \A n : Under(s, n) => Under(r, n)
      /\ \A n : Below(s, n) => Below(r, n)
  BY <1>4 DEF Under, Below
<1>10. /\ \A n : Under(g, n) /\ Under(s, n) => Under(a, n)
       /\ \A n : Below(g, n) /\ Below(s, n) => Below(a, n)
  BY <1>5 DEF Under, Below
<1>11. \A t : Before(g, t) /\ Before(s, t) => Before(a, t) /\ Before(r, t)
  BY <1>4, <1>5 DEF Before
<1> QED BY <1>6, <1>7, <1>8, <1>9, <1>10, <1>11 DEF h, r, a

\* Draining a log keeps it ascending and within its bounds.
LEMMA NewestAscending ==
  ASSUME NEW s \in Seq(Envelope), Ascending(s)
  PROVE  /\ Ascending(Newest(s))
         /\ \A n : Below(s, n) => Below(Newest(s), n)
         /\ LastSeq(Newest(s)) = LastSeq(s)
<1>1. CASE Len(s) <= LogCap
  BY <1>1 DEF Newest
<1>2. CASE ~(Len(s) <= LogCap)
  <2> DEFINE k == Len(s) - LogCap
             t == SubSeq(s, k + 1, Len(s))
  <2>1. k \in Nat /\ Len(s) \in Nat /\ k + 1 \in 1..Len(s)
    BY <1>2
  <2>2. /\ t \in Seq(Envelope) /\ Len(t) = LogCap
        /\ \A i \in 1..LogCap : t[i] = s[k + i]
        /\ DOMAIN t = 1..LogCap /\ DOMAIN s = 1..Len(s)
    BY <2>1, SubSeqProperties
  <2>3. \A i \in 1..LogCap : k + i \in 1..Len(s)
    BY <2>1
  <2>4. Newest(s) = t
    BY <1>2 DEF Newest
  <2>5. s # <<>> /\ t # <<>> /\ t[Len(t)] = s[Len(s)]
    <3>1. LogCap \in 1..LogCap /\ k + LogCap = Len(s)
      BY <2>1
    <3>2. t[LogCap] = s[k + LogCap]
      BY <2>2, <3>1
    <3> HIDE DEF t, k
    <3>3. s # <<>> /\ t # <<>>
      BY <2>1, <2>2, EmptySeq
    <3> QED BY <2>2, <3>1, <3>2, <3>3
  <2> HIDE DEF t, k
  <2>6. Ascending(t)
    <3> SUFFICES ASSUME NEW i \in DOMAIN t, NEW j \in DOMAIN t, i < j
                 PROVE  t[i].seq < t[j].seq
      BY DEF Ascending
    <3>1. i \in 1..LogCap /\ j \in 1..LogCap
      BY <2>2
    <3>2. k + i \in DOMAIN s /\ k + j \in DOMAIN s
      BY <2>2, <2>3, <3>1
    <3>3. k + i < k + j
      BY <2>1, <3>1
    <3>4. s[k + i].seq < s[k + j].seq
      BY <3>2, <3>3 DEF Ascending
    <3> QED BY <2>2, <3>1, <3>4
  <2>7. \A n : Below(s, n) => Below(t, n)
    BY <2>2, <2>3 DEF Below
  <2>8. LastSeq(t) = LastSeq(s)
    BY <2>5 DEF LastSeq
  <2> QED BY <2>4, <2>6, <2>7, <2>8
<1> QED BY <1>1, <1>2

\* The last number of an ascending log bounds the others.
LEMMA LastSeqBound ==
  ASSUME NEW s \in Seq(Envelope), Ascending(s)
  PROVE  Below(s, LastSeq(s))
<1>1. CASE s = <<>> BY <1>1 DEF Below
<1>2. CASE s # <<>>
  <2>1. Len(s) \in DOMAIN s /\ DOMAIN s = 1..Len(s) /\ Len(s) \in Nat
    BY <1>2
  <2>2. \A i \in DOMAIN s : s[i].seq \in Nat
    BY Numbered
  <2> QED BY <1>2, <2>1, <2>2 DEF Below, LastSeq, Ascending
<1> QED BY <1>1, <1>2

\* Bounds may be weakened.
LEMMA RaiseBound ==
  ASSUME NEW s \in Seq(Envelope), NEW n \in Nat
  PROVE  /\ Below(s, n) => Under(s, n + 1) /\ Below(s, n + 1)
         /\ Under(s, n) => Below(s, n)
BY Numbered DEF Below, Under

\* Where the elements of a concatenation come from.
LEMMA ConcatParts ==
  ASSUME NEW r \in Seq(Envelope), NEW s \in Seq(Envelope)
  PROVE  /\ r \o s \in Seq(Envelope)
         /\ Len(r \o s) = Len(r) + Len(s)
         /\ \A i \in 1..Len(r) : (r \o s)[i] = r[i]
         /\ \A i \in (Len(r) + 1)..(Len(r) + Len(s)) : (r \o s)[i] = s[i - Len(r)]
         /\ Len(r) \in Nat /\ Len(s) \in Nat
BY ConcatProperties

\* The events restore adds are numbered behind those of the file.
LEMMA RestoredAscending ==
  ASSUME NEW es \in Seq(Envelope), NEW n \in Nat, NEW m \in [1..n -> Msg],
         Ascending(es)
  PROVE  /\ Ascending(Restored(es, n, m))
         /\ Below(es, LastSeq(Restored(es, n, m)))
         /\ LastSeq(Restored(es, n, m)) = LastSeq(es) + n
<1> DEFINE added == [i \in 1..n |-> [seq |-> LastSeq(es) + i, msg |-> m[i]]]
           all == es \o added
<1>1. LastSeq(es) \in Nat
  BY LastSeqType
<1>2. \A i \in 1..n : [seq |-> LastSeq(es) + i, msg |-> m[i]] \in Envelope
  BY <1>1 DEF Envelope
<1>3. /\ added \in Seq(Envelope) /\ Len(added) = n
      /\ \A i \in 1..n : added[i].seq = LastSeq(es) + i
  BY <1>2
<1> HIDE DEF added
<1>4. /\ all \in Seq(Envelope)
      /\ Len(all) = Len(es) + n
      /\ \A i \in 1..Len(es) : all[i] = es[i]
      /\ \A i \in (Len(es) + 1)..(Len(es) + n) : all[i] = added[i - Len(es)]
      /\ Len(es) \in Nat
  <2>1. added \in Seq(Envelope) /\ Len(added) = n
    BY <1>3
  <2> QED BY <2>1, ConcatParts
<1>5. DOMAIN all = 1..(Len(es) + n) /\ DOMAIN es = 1..Len(es)
  BY <1>4
<1> HIDE DEF all
<1>6. Below(es, LastSeq(es))
  BY LastSeqBound
<1>7. \A i \in 1..Len(es) : all[i].seq = es[i].seq /\ es[i].seq <= LastSeq(es)
  BY <1>4, <1>5, <1>6 DEF Below
<1>8. \A i \in (Len(es) + 1)..(Len(es) + n) : all[i].seq = LastSeq(es) + (i - Len(es))
  <2> TAKE i \in (Len(es) + 1)..(Len(es) + n)
  <2>1. i - Len(es) \in 1..n
    BY <1>4
  <2> QED BY <1>3, <1>4, <2>1
<1>9. Ascending(all)
  <2> SUFFICES ASSUME NEW i \in 1..(Len(es) + n), NEW j \in 1..(Len(es) + n), i < j
               PROVE  all[i].seq < all[j].seq
    BY <1>5 DEF Ascending
  <2>1. CASE j <= Len(es)
    <3>1. i \in DOMAIN es /\ j \in DOMAIN es
      BY <1>4, <1>5, <2>1
    <3> QED BY <1>5, <1>7, <3>1 DEF Ascending
  <2>2. CASE i <= Len(es) /\ j > Len(es)
    <3>1. i \in 1..Len(es) /\ j \in (Len(es) + 1)..(Len(es) + n)
      BY <1>4, <2>2
    <3>2. es[i].seq \in Nat
      BY <1>5, <3>1, Numbered
    <3> QED BY <1>1, <1>4, <1>7, <1>8, <3>1, <3>2
  <2>3. CASE i > Len(es)
    <3>1. /\ i \in (Len(es) + 1)..(Len(es) + n)
          /\ j \in (Len(es) + 1)..(Len(es) + n)
      BY <1>4, <2>3
    <3> QED BY <1>1, <1>4, <1>8, <3>1
  <2> QED BY <1>4, <2>1, <2>2, <2>3
<1>10. LastSeq(all) = LastSeq(es) + n
  <2>1. CASE n = 0
    <3>1. added = <<>>
      BY <1>3, <2>1, EmptySeq
    <3>2. all = es
      BY <3>1, ConcatEmptySeq DEF all
    <3> QED BY <1>1, <2>1, <3>2
  <2>2. CASE n # 0
    <3>1. /\ Len(es) + n \in (Len(es) + 1)..(Len(es) + n)
          /\ (Len(es) + n) - Len(es) = n
      BY <1>4, <2>2
    <3>2. all # <<>>
      BY <1>4, <2>2
    <3>3. all[Len(all)].seq = LastSeq(es) + n
      BY <1>4, <1>8, <3>1
    <3> QED BY <3>2, <3>3 DEF LastSeq
  <2> QED BY <2>1, <2>2
<1>11. Restored(es, n, m) = Newest(all)
  BY DEF Restored, all, added
<1>12. Ascending(Newest(all)) /\ LastSeq(Newest(all)) = LastSeq(es) + n
  BY <1>4, <1>9, <1>10, NewestAscending
<1>13. Below(es, LastSeq(es) + n)
  <2> SUFFICES ASSUME NEW i \in DOMAIN es PROVE es[i].seq <= LastSeq(es) + n
    BY DEF Below
  <2>1. es[i].seq \in Nat /\ es[i].seq <= LastSeq(es)
    BY <1>6, Numbered DEF Below
  <2> QED BY <1>1, <2>1
<1> QED BY <1>11, <1>12, <1>13

\* Ascending pieces in ascending order make an ascending whole.
LEMMA ConcatAscending ==
  ASSUME NEW r \in Seq(Envelope), NEW s \in Seq(Envelope),
         Ascending(r), Ascending(s), Before(r, s)
  PROVE  /\ r \o s \in Seq(Envelope) /\ Ascending(r \o s)
         /\ \A t : Before(r, t) /\ Before(s, t) => Before(r \o s, t)
<1> DEFINE all == r \o s
<1>1. /\ all \in Seq(Envelope)
      /\ Len(all) = Len(r) + Len(s)
      /\ \A i \in 1..Len(r) : all[i] = r[i]
      /\ \A i \in (Len(r) + 1)..(Len(r) + Len(s)) : all[i] = s[i - Len(r)]
      /\ Len(r) \in Nat /\ Len(s) \in Nat
  BY ConcatParts
<1>2. /\ DOMAIN all = 1..(Len(r) + Len(s))
      /\ DOMAIN r = 1..Len(r) /\ DOMAIN s = 1..Len(s)
  BY <1>1
<1> HIDE DEF all
<1>3. \A i \in DOMAIN all :
         \/ i \in DOMAIN r /\ all[i] = r[i]
         \/ i > Len(r) /\ i - Len(r) \in DOMAIN s /\ all[i] = s[i - Len(r)]
  <2> TAKE i \in DOMAIN all
  <2>1. CASE i <= Len(r)
    BY <1>1, <1>2, <2>1
  <2>2. CASE i > Len(r)
    <3>1. /\ i \in (Len(r) + 1)..(Len(r) + Len(s))
          /\ i - Len(r) \in 1..Len(s)
      BY <1>1, <1>2, <2>2
    <3> QED BY <1>1, <1>2, <2>2, <3>1
  <2> QED BY <1>1, <1>2, <2>1, <2>2
<1>4. Ascending(all)
  <2> SUFFICES ASSUME NEW i \in DOMAIN all, NEW j \in DOMAIN all, i < j
               PROVE  all[i].seq < all[j].seq
    BY DEF Ascending
  <2>1. CASE j \in DOMAIN r /\ all[j] = r[j]
    <3>1. i \in DOMAIN r /\ all[i] = r[i]
      BY <1>1, <1>2, <2>1
    <3> QED BY <2>1, <3>1 DEF Ascending
  <2>2. CASE j > Len(r) /\ j - Len(r) \in DOMAIN s /\ all[j] = s[j - Len(r)]
    <3>1. CASE i \in DOMAIN r /\ all[i] = r[i]
      BY <2>2, <3>1 DEF Before
    <3>2. CASE i > Len(r) /\ i - Len(r) \in DOMAIN s /\ all[i] = s[i - Len(r)]
      <4>1. i - Len(r) < j - Len(r)
        BY <1>1, <1>2
      <4> QED BY <2>2, <3>2, <4>1 DEF Ascending
    <3> QED BY <1>3, <3>1, <3>2
  <2> QED BY <1>3, <2>1, <2>2
<1>5. \A t : Before(r, t) /\ Before(s, t) => Before(all, t)
  BY <1>3 DEF Before
<1> QED BY <1>1, <1>4, <1>5 DEF all

-----------------------------------------------------------------------------
(* The inductive invariant behind Ordered.                                  *)

\* Who is inside emit holds the lock and carries the newest number.
Locking == \A e \in Emitters :
             pc[e] # "idle" => emitLock = e /\ phase = "up" /\ env[e].seq = seq

\* How far the event being emitted has come: it is above everything in the
\* log until it is pushed, and above everything in the file until appended.
LogOrder ==
  /\ Ascending(log) /\ Ascending(file)
  /\ phase # "down" => Below(log, seq) /\ Below(file, seq)
  /\ \A e \in Emitters : pc[e] \in {"apply", "push"} => Under(log, seq)
  /\ \A e \in Emitters : pc[e] \in {"apply", "push", "append"} => Under(file, seq)

\* The three parts of a connection's pipeline follow one another.
PipeOrder == \A c \in Clients :
  /\ Ascending(got[c]) /\ Ascending(replay[c]) /\ Ascending(live[c])
  /\ Before(got[c], replay[c]) /\ Before(got[c], live[c])
  /\ Before(replay[c], live[c])

Bounded(c, n) == Below(got[c], n) /\ Below(replay[c], n) /\ Below(live[c], n)
Pending(c, n) == Under(got[c], n) /\ Under(replay[c], n) /\ Under(live[c], n)

\* An open pipeline stays below the counter, and strictly below the event
\* that is being emitted.
PipeBound == \A c \in Clients :
  /\ ~conn[c] => replay[c] = <<>> /\ live[c] = <<>>
  /\ conn[c] => phase = "up" /\ Bounded(c, seq)
  /\ \A e \in Emitters : conn[c] /\ pc[e] # "idle" => Pending(c, seq)

OrderInv == TypeOK /\ Locking /\ LogOrder /\ PipeOrder /\ PipeBound

LEMMA OrderInit == Init => OrderInv
<1> SUFFICES ASSUME Init PROVE OrderInv
  OBVIOUS
<1>1. TypeOK
  BY TypeInit
<1>2. Locking
  BY DEF Init, Locking
<1>3. LogOrder
  BY EmptyAscending DEF Init, LogOrder
<1>4. PipeOrder /\ PipeBound
  BY EmptyAscending DEF Init, PipeOrder, PipeBound
<1> QED BY <1>1, <1>2, <1>3, <1>4 DEF OrderInv

\* Every step keeps the connections' share of the invariant if it leaves the
\* connections, the counter and the phase alone and nobody enters emit.
LEMMA PipeUnchanged ==
  ASSUME OrderInv, UNCHANGED <<phase, seq, connVars>>,
         \A e \in Emitters : pc'[e] # "idle" => pc[e] # "idle"
  PROVE  PipeOrder' /\ PipeBound'
BY DEF OrderInv, PipeOrder, PipeBound, Bounded, Pending, connVars

\* rewrite_events replaces the file by the log or leaves it.
LEMMA RewriteOrder ==
  ASSUME LogOrder, RewriteEvents, phase # "down"
  PROVE  Ascending(file') /\ Below(file', seq)
BY DEF LogOrder, RewriteEvents

\* The emission lock admits one emitter.
LEMMA OneEmitter ==
  ASSUME Locking, NEW e \in Emitters, NEW f \in Emitters,
         pc[e] # "idle", pc[f] # "idle"
  PROVE  e = f
BY DEF Locking

LEMMA OrderStep ==
  ASSUME OrderInv, [Next]_vars
  PROVE  OrderInv'
<1> USE DEF OrderInv
<1>0. TypeOK'
  BY TypeStep
<1>1. CASE Load
  <2>1. Locking' /\ PipeOrder' /\ PipeBound'
    BY <1>1 DEF Load, Locking, PipeOrder, PipeBound, Bounded, Pending, emitVars,
       connVars
  <2>2. PICK n \in 0..RestoreEvents : \E m \in [1..n -> Msg] :
          log' = Restored(Newest(file), n, m)
    BY <1>1 DEF Load
  <2>3. PICK m \in [1..n -> Msg] : log' = Restored(Newest(file), n, m)
    BY <2>2
  <2>4. /\ file \in Seq(Envelope) /\ Ascending(file) /\ file' = file
        /\ Newest(file) \in Seq(Envelope) /\ n \in Nat
    BY <1>1, NewestType DEF TypeOK, LogOrder, Load, diskVars
  <2>5. Ascending(Newest(file)) /\ LastSeq(Newest(file)) = LastSeq(file)
    BY <2>4, NewestAscending
  <2>6. Ascending(log') /\ Below(Newest(file), LastSeq(log'))
    BY <2>3, <2>4, <2>5, RestoredAscending
  <2>7. seq' = LastSeq(log') /\ log' \in Seq(Envelope) /\ seq' \in Nat
    BY <1>0, <1>1 DEF Load, TypeOK
  <2>8. Below(log', seq')
    BY <2>6, <2>7, LastSeqBound
  <2>9. Below(file, seq')
    <3>1. LastSeq(file) \in Nat /\ LastSeq(file) <= seq'
      <4>1. CASE file = <<>>
        BY <2>7, <4>1 DEF LastSeq
      <4>2. CASE file # <<>>
        <5>1. Newest(file) # <<>>
          <6>1. CASE Len(file) <= LogCap
            BY <4>2, <6>1 DEF Newest
          <6>2. CASE ~(Len(file) <= LogCap)
            <7>1. /\ Len(file) \in Nat /\ Len(file) - LogCap + 1 \in 1..Len(file)
                  /\ Len(file) \in Nat
              BY <2>4, <6>2
            <7>2. Len(SubSeq(file, Len(file) - LogCap + 1, Len(file))) = LogCap
              BY <2>4, <7>1, SubSeqProperties
            <7>3. Len(Newest(file)) = LogCap
              BY <6>2, <7>2 DEF Newest
            <7> QED BY <7>3, EmptySeq
          <6> QED BY <6>1, <6>2
        <5>2. /\ Len(Newest(file)) \in DOMAIN Newest(file)
          BY <2>4, <5>1, EmptySeq, LenProperties
        <5>3. LastSeq(Newest(file)) <= seq'
          BY <2>6, <2>7, <5>1, <5>2 DEF Below, LastSeq
        <5> QED BY <2>4, <2>5, <5>3, LastSeqType
      <4> QED BY <4>1, <4>2
    <3>2. Below(file, LastSeq(file))
      BY <2>4, LastSeqBound
    <3>3. \A i \in DOMAIN file : file[i].seq \in Nat
      BY <2>4, Numbered
    <3> QED BY <2>7, <3>1, <3>2, <3>3 DEF Below
  <2>10. \A e \in Emitters : pc'[e] = "idle"
    BY <1>1 DEF Load, Locking, emitVars
  <2>11. LogOrder'
    BY <2>4, <2>6, <2>8, <2>9, <2>10 DEF LogOrder
  <2> QED BY <1>0, <2>1, <2>11
<1>2. CASE OpenFile
  BY <1>0, <1>2 DEF OpenFile, Locking, LogOrder, PipeOrder, PipeBound, Bounded,
     Pending, emitVars, connVars
<1>3. CASE RewriteAtBoot
  <2>1. Locking' /\ PipeOrder' /\ PipeBound'
    BY <1>3 DEF RewriteAtBoot, Locking, PipeOrder, PipeBound, Bounded, Pending,
       emitVars, connVars
  <2>2. \A e \in Emitters : pc'[e] = "idle"
    BY <1>3 DEF RewriteAtBoot, Locking, emitVars
  <2>3. Ascending(file') /\ Below(file', seq)
    BY <1>3, RewriteOrder DEF RewriteAtBoot
  <2> QED BY <1>0, <1>3, <2>1, <2>2, <2>3 DEF RewriteAtBoot, LogOrder
<1>4. CASE Crash
  <2>1. Locking'
    BY <1>4 DEF Crash, Locking
  <2>2. LogOrder'
    BY <1>4, EmptyAscending DEF Crash, LogOrder
  <2>3. PipeOrder' /\ PipeBound'
    BY <1>4, EmptyAscending DEF Crash, PipeOrder, PipeBound
  <2> QED BY <1>0, <2>1, <2>2, <2>3
<1>5. ASSUME NEW e \in Emitters, EmitLock(e)
      PROVE  OrderInv'
  <2>1. \A f \in Emitters : f # e => pc'[f] = "idle"
    BY <1>5 DEF EmitLock, Locking, TypeOK
  <2>2. /\ emitLock' = e /\ phase = "up" /\ phase' = "up" /\ seq' = seq + 1
        /\ env'[e].seq = seq + 1 /\ seq \in Nat
    BY <1>5 DEF EmitLock, TypeOK
  <2>3. Locking'
    BY <2>1, <2>2 DEF Locking
  <2>4. LogOrder'
    <3>1. /\ Under(log, seq + 1) /\ Under(file, seq + 1)
          /\ Below(log, seq + 1) /\ Below(file, seq + 1)
      BY <2>2, RaiseBound DEF LogOrder, TypeOK
    <3> QED BY <1>5, <2>2, <3>1 DEF LogOrder, EmitLock, diskVars
  <2>5. PipeOrder'
    BY <1>5 DEF EmitLock, PipeOrder, connVars
  <2>6. PipeBound'
    <3>1. ASSUME NEW c \in Clients, conn[c]
          PROVE  Bounded(c, seq + 1) /\ Pending(c, seq + 1)
      <4>1. /\ got[c] \in Seq(Envelope) /\ replay[c] \in Seq(Envelope)
            /\ live[c] \in Seq(Envelope)
        BY DEF TypeOK
      <4>2. Bounded(c, seq)
        BY <3>1 DEF PipeBound
      <4> QED BY <2>2, <4>1, <4>2, RaiseBound DEF Bounded, Pending
    <3> QED BY <1>5, <2>2, <3>1 DEF EmitLock, PipeBound, Bounded, Pending, connVars
  <2> QED BY <1>0, <2>3, <2>4, <2>5, <2>6
<1>6. ASSUME NEW e \in Emitters, EmitApply(e)
      PROVE  OrderInv'
  <2>1. PipeOrder' /\ PipeBound'
    BY <1>6, PipeUnchanged DEF EmitApply, TypeOK, connVars
  <2> QED BY <1>0, <1>6, <2>1 DEF EmitApply, Locking, LogOrder, TypeOK, diskVars
<1>7. ASSUME NEW e \in Emitters, EmitPush(e)
      PROVE  OrderInv'
  <2>1. PipeOrder' /\ PipeBound'
    BY <1>7, PipeUnchanged DEF EmitPush, TypeOK, connVars
  <2>2. Locking'
    BY <1>7 DEF EmitPush, Locking, TypeOK
  <2>3. /\ log \in Seq(Envelope) /\ env[e] \in Envelope /\ env[e].seq = seq
        /\ Ascending(log) /\ Under(log, seq) /\ phase = "up"
    BY <1>7 DEF EmitPush, Locking, LogOrder, TypeOK
  <2>4. /\ Append(log, env[e]) \in Seq(Envelope)
        /\ Ascending(Append(log, env[e])) /\ Below(Append(log, env[e]), seq)
    BY <2>3, AppendAscending, AppendProperties
  <2>5. Ascending(log') /\ Below(log', seq)
    BY <1>7, <2>4, NewestAscending DEF EmitPush
  <2>6. \A f \in Emitters : f # e => pc'[f] = "idle"
    BY <1>7, OneEmitter DEF EmitPush, TypeOK
  <2> QED BY <1>0, <1>7, <2>1, <2>2, <2>5, <2>6 DEF EmitPush, LogOrder, TypeOK, diskVars
<1>8. ASSUME NEW e \in Emitters, EmitAppend(e)
      PROVE  OrderInv'
  <2>1. /\ phase' = phase /\ seq' = seq /\ log' = log /\ emitLock' = emitLock
        /\ env' = env /\ UNCHANGED connVars
        /\ \A f \in Emitters : f # e => pc'[f] = pc[f]
        /\ pc[e] = "append" /\ pc'[e] \in {"send", "rotate"}
    BY <1>8 DEF EmitAppend, TypeOK
  <2>2. PipeOrder' /\ PipeBound'
    BY <2>1, PipeUnchanged
  <2>3. Locking'
    BY <2>1 DEF Locking
  <2>4. /\ file \in Seq(Envelope) /\ env[e] \in Envelope /\ env[e].seq = seq
        /\ Ascending(file) /\ Under(file, seq) /\ phase = "up" /\ Below(file, seq)
    BY <2>1 DEF Locking, LogOrder, TypeOK
  <2>5. Ascending(Append(file, env[e])) /\ Below(Append(file, env[e]), seq)
    BY <2>4, AppendAscending
  <2>6. file' = file \/ file' = Append(file, env[e])
    BY <1>8 DEF EmitAppend, diskVars
  <2>7. Ascending(file') /\ Below(file', seq)
    BY <2>4, <2>5, <2>6
  <2>8. \A f \in Emitters : pc'[f] \in {"idle", "send", "rotate"}
    BY <2>1, OneEmitter
  <2> QED BY <1>0, <2>1, <2>2, <2>3, <2>7, <2>8 DEF LogOrder
<1>9. ASSUME NEW e \in Emitters, EmitRotate(e)
      PROVE  OrderInv'
  <2>1. /\ phase' = phase /\ seq' = seq /\ log' = log /\ emitLock' = emitLock
        /\ env' = env /\ UNCHANGED connVars
        /\ \A f \in Emitters : f # e => pc'[f] = pc[f]
        /\ pc[e] = "rotate" /\ pc'[e] = "send" /\ RewriteEvents
    BY <1>9 DEF EmitRotate, TypeOK
  <2>2. PipeOrder' /\ PipeBound'
    BY <2>1, PipeUnchanged
  <2>3. Locking' /\ phase = "up"
    BY <2>1 DEF Locking
  <2>4. Ascending(file') /\ Below(file', seq)
    BY <2>1, <2>3, RewriteOrder
  <2>5. \A f \in Emitters : pc'[f] \in {"idle", "send"}
    BY <2>1, OneEmitter
  <2> QED BY <1>0, <2>1, <2>2, <2>3, <2>4, <2>5 DEF LogOrder
<1>10. ASSUME NEW e \in Emitters, EmitSend(e)
       PROVE  OrderInv'
  <2>1. \A f \in Emitters : pc'[f] = "idle"
    BY <1>10, OneEmitter DEF EmitSend, TypeOK
  <2>2. Locking' /\ LogOrder'
    BY <1>10, <2>1 DEF EmitSend, Locking, LogOrder, diskVars
  <2>3. /\ env[e] \in Envelope /\ env[e].seq = seq /\ seq \in Nat /\ phase = "up"
        /\ pc[e] # "idle"
    BY <1>10 DEF EmitSend, Locking, TypeOK
  <2>4. ASSUME NEW c \in Clients, conn[c]
        PROVE  /\ Ascending(live'[c]) /\ Below(live'[c], seq)
               /\ Before(got[c], live'[c]) /\ Before(replay[c], live'[c])
    <3>1. /\ got[c] \in Seq(Envelope) /\ replay[c] \in Seq(Envelope)
          /\ live[c] \in Seq(Envelope)
      BY DEF TypeOK
    <3>2. /\ Under(got[c], seq) /\ Under(replay[c], seq) /\ Under(live[c], seq)
          /\ Ascending(live[c]) /\ Before(got[c], live[c]) /\ Before(replay[c], live[c])
      BY <2>3, <2>4 DEF PipeBound, PipeOrder, Pending
    <3>3. CASE Len(live[c]) < BufCap
      <4>1. live'[c] = Append(live[c], env[e])
        BY <1>10, <2>4, <3>3 DEF EmitSend
      <4> QED BY <2>3, <3>1, <3>2, <4>1, AppendAscending, AppendBefore
    <3>4. CASE ~(Len(live[c]) < BufCap)
      <4>1. live'[c] = Append(Tail(live[c]), env[e]) /\ live[c] # <<>>
        BY <1>10, <2>4, <3>4 DEF EmitSend, TypeOK
      <4>2. Tail(live[c]) \in Seq(Envelope)
        BY <3>1, <4>1, HeadTailProperties
      <4>3. /\ Ascending(Tail(live[c])) /\ Under(Tail(live[c]), seq)
            /\ Before(got[c], Tail(live[c])) /\ Before(replay[c], Tail(live[c]))
        <5>1. /\ \A i \in DOMAIN Tail(live[c]) :
                   i + 1 \in DOMAIN live[c] /\ Tail(live[c])[i] = live[c][i + 1]
              /\ DOMAIN Tail(live[c]) = 1..Len(Tail(live[c]))
          BY <3>1, <4>1, HeadTailProperties
        <5>2. /\ <<>> \in Seq(Envelope)
              /\ Ascending(<<>>) /\ Before(<<>>, live[c])
          BY EmptyAscending
        <5>3. /\ Ascending(Tail(live[c]))
              /\ Under(live[c], seq) => Under(Tail(live[c]), seq)
          BY <3>1, <3>2, <4>1, <5>2, MoveHead
        <5> QED BY <3>2, <5>1, <5>3 DEF Before
      <4> QED BY <2>3, <3>1, <3>2, <4>1, <4>2, <4>3, AppendAscending, AppendBefore
    <3> QED BY <3>3, <3>4
  <2>5. \A c \in Clients : ~conn[c] => live'[c] = live[c]
    BY <1>10 DEF EmitSend
  <2>6. UNCHANGED <<phase, seq, conn, replay, got>>
    BY <1>10 DEF EmitSend
  <2>7. PipeOrder'
    BY <2>4, <2>5, <2>6 DEF PipeOrder
  <2>8. PipeBound'
    BY <2>1, <2>3, <2>4, <2>5, <2>6 DEF PipeBound, Bounded
  <2> QED BY <1>0, <2>2, <2>7, <2>8
<1>11. ASSUME NEW c \in Clients, Subscribe(c)
       PROVE  OrderInv'
  <2>1. Locking' /\ LogOrder'
    BY <1>11 DEF Subscribe, Locking, LogOrder, emitVars, diskVars
  <2>2. \A e \in Emitters : pc[e] = "idle" /\ pc'[e] = "idle"
    BY <1>11 DEF Subscribe, Locking, emitVars
  <2>3. /\ Ascending(log) /\ Below(log, seq)
    BY <1>11 DEF Subscribe, LogOrder
  <2>4. /\ conn'[c] /\ replay'[c] = log /\ live'[c] = <<>> /\ got'[c] = <<>>
        /\ \A d \in Clients : d # c => /\ conn'[d] = conn[d] /\ replay'[d] = replay[d]
                                      /\ live'[d] = live[d] /\ got'[d] = got[d]
        /\ phase = "up" /\ phase' = "up" /\ seq' = seq
    BY <1>11 DEF Subscribe, TypeOK
  <2>5. PipeOrder'
    BY <2>3, <2>4, EmptyAscending DEF PipeOrder
  <2>6. PipeBound'
    BY <2>2, <2>3, <2>4, EmptyAscending DEF PipeBound, Bounded
  <2> QED BY <1>0, <2>1, <2>5, <2>6
<1>12. ASSUME NEW c \in Clients, SendReplay(c)
       PROVE  OrderInv'
  <2>1. Locking' /\ LogOrder'
    BY <1>12 DEF SendReplay, Locking, LogOrder, emitVars, diskVars
  <2>2. /\ got'[c] = Append(got[c], Head(replay[c])) /\ replay'[c] = Tail(replay[c])
        /\ \A d \in Clients : d # c => replay'[d] = replay[d] /\ got'[d] = got[d]
        /\ UNCHANGED <<phase, seq, pc, conn, live>>
        /\ conn[c] /\ replay[c] # <<>>
    BY <1>12 DEF SendReplay, TypeOK, emitVars
  <2>3. /\ got[c] \in Seq(Envelope) /\ replay[c] \in Seq(Envelope)
        /\ Ascending(got[c]) /\ Ascending(replay[c]) /\ Before(got[c], replay[c])
        /\ Before(got[c], live[c]) /\ Before(replay[c], live[c])
        /\ Below(got[c], seq) /\ Below(replay[c], seq)
    BY <2>2 DEF TypeOK, PipeOrder, PipeBound, Bounded
  <2>4. /\ Ascending(got'[c]) /\ Ascending(replay'[c]) /\ Before(got'[c], replay'[c])
        /\ Before(got'[c], live[c]) /\ Before(replay'[c], live[c])
        /\ Below(got'[c], seq) /\ Below(replay'[c], seq)
        /\ Under(got[c], seq) /\ Under(replay[c], seq) =>
             Under(got'[c], seq) /\ Under(replay'[c], seq)
    BY <2>2, <2>3, MoveHead
  <2>5. PipeOrder'
    BY <2>2, <2>4 DEF PipeOrder
  <2>6. PipeBound'
    BY <2>2, <2>4 DEF PipeBound, Bounded, Pending
  <2> QED BY <1>0, <2>1, <2>5, <2>6
<1>13. ASSUME NEW c \in Clients, SendLive(c)
       PROVE  OrderInv'
  <2>1. Locking' /\ LogOrder'
    BY <1>13 DEF SendLive, Locking, LogOrder, emitVars, diskVars
  <2>2. /\ got'[c] = Append(got[c], Head(live[c])) /\ live'[c] = Tail(live[c])
        /\ \A d \in Clients : d # c => live'[d] = live[d] /\ got'[d] = got[d]
        /\ UNCHANGED <<phase, seq, pc, conn, replay>>
        /\ conn[c] /\ live[c] # <<>> /\ replay[c] = <<>>
    BY <1>13 DEF SendLive, TypeOK, emitVars
  <2>3. /\ got[c] \in Seq(Envelope) /\ live[c] \in Seq(Envelope)
        /\ Ascending(got[c]) /\ Ascending(live[c]) /\ Before(got[c], live[c])
        /\ Below(got[c], seq) /\ Below(live[c], seq)
    BY <2>2 DEF TypeOK, PipeOrder, PipeBound, Bounded
  <2>4. /\ Ascending(got'[c]) /\ Ascending(live'[c]) /\ Before(got'[c], live'[c])
        /\ Below(got'[c], seq) /\ Below(live'[c], seq)
        /\ Under(got[c], seq) /\ Under(live[c], seq) =>
             Under(got'[c], seq) /\ Under(live'[c], seq)
    BY <2>2, <2>3, MoveHead
  <2>5. Before(got'[c], replay[c]) /\ Before(replay[c], live'[c])
    BY <2>2, EmptyAscending
  <2>6. PipeOrder'
    BY <2>2, <2>4, <2>5 DEF PipeOrder
  <2>7. PipeBound'
    BY <2>2, <2>4 DEF PipeBound, Bounded, Pending
  <2> QED BY <1>0, <2>1, <2>6, <2>7
<1>14. ASSUME NEW c \in Clients, Hangup(c)
       PROVE  OrderInv'
  <2>1. Locking' /\ LogOrder'
    BY <1>14 DEF Hangup, Locking, LogOrder, emitVars, diskVars
  <2>2. /\ ~conn'[c] /\ replay'[c] = <<>> /\ live'[c] = <<>>
        /\ \A d \in Clients : d # c => /\ conn'[d] = conn[d] /\ replay'[d] = replay[d]
                                      /\ live'[d] = live[d]
        /\ UNCHANGED <<phase, seq, pc, got>>
    BY <1>14 DEF Hangup, TypeOK, emitVars
  <2>3. PipeOrder'
    BY <2>2, EmptyAscending DEF PipeOrder
  <2>4. PipeBound'
    BY <2>2 DEF PipeBound, Bounded, Pending
  <2> QED BY <1>0, <2>1, <2>3, <2>4
<1>15. CASE UNCHANGED vars
  <2>1. Locking' /\ LogOrder'
    BY <1>15 DEF vars, Locking, LogOrder, emitVars, diskVars
  <2>2. PipeOrder' /\ PipeBound'
    BY <1>15, PipeUnchanged DEF vars, emitVars, diskVars, connVars
  <2> QED BY <1>0, <2>1, <2>2
<1> QED
  BY <1>1, <1>2, <1>3, <1>4, <1>5, <1>6, <1>7, <1>8, <1>9, <1>10, <1>11, <1>12,
     <1>13, <1>14, <1>15
  DEF Next, Boot, Emit, Serve, CloseLagged, Disconnect

LEMMA OrderInvImplies == OrderInv => Ordered
<1> SUFFICES ASSUME OrderInv PROVE Ordered
  OBVIOUS
<1>1. ASSUME NEW c \in Clients
      PROVE  Ascending(Pipeline(c))
  <2>1. /\ got[c] \in Seq(Envelope) /\ replay[c] \in Seq(Envelope)
        /\ live[c] \in Seq(Envelope)
    BY DEF OrderInv, TypeOK
  <2>2. /\ Ascending(got[c]) /\ Ascending(replay[c]) /\ Ascending(live[c])
        /\ Before(got[c], replay[c]) /\ Before(got[c], live[c])
        /\ Before(replay[c], live[c])
    BY DEF OrderInv, PipeOrder
  <2>3. /\ got[c] \o replay[c] \in Seq(Envelope) /\ Ascending(got[c] \o replay[c])
        /\ Before(got[c] \o replay[c], live[c])
    BY <2>1, <2>2, ConcatAscending
  <2> QED BY <2>1, <2>2, <2>3, ConcatAscending DEF Pipeline
<1> QED BY <1>1 DEF Ordered, OrderInv, LogOrder

\* Sequence numbers only grow along the log, the file and every connection,
\* on a disk that may fail and over any number of crashes.
THEOREM EventsOrdered == Spec => []Ordered
<1>1. Init => OrderInv BY OrderInit
<1>2. OrderInv /\ [Next]_vars => OrderInv' BY OrderStep
<1>3. OrderInv => Ordered BY OrderInvImplies
<1> QED BY <1>1, <1>2, <1>3, PTL DEF Spec

-----------------------------------------------------------------------------
(* Lemmas about the operators.                                              *)

\* The last number of a log is that of the event appended last.
LEMMA LastOfAppend ==
  ASSUME NEW s \in Seq(Envelope), NEW x \in Envelope
  PROVE  LastSeq(Append(s, x)) = x.seq
<1>1. /\ Append(s, x) \in Seq(Envelope) /\ Append(s, x) # <<>>
      /\ Len(Append(s, x)) = Len(s) + 1 /\ Append(s, x)[Len(s) + 1] = x
  BY AppendProperties
<1> QED BY <1>1 DEF LastSeq

\* What is bounded by a number has its last number at most there.
LEMMA LastBelow ==
  ASSUME NEW s \in Seq(Envelope), NEW n \in Nat, Below(s, n)
  PROVE  LastSeq(s) <= n
<1>1. CASE s = <<>>
  BY <1>1 DEF LastSeq
<1>2. CASE s # <<>>
  <2>1. Len(s) \in DOMAIN s
    BY <1>2
  <2> QED BY <1>2, <2>1 DEF LastSeq, Below
<1> QED BY <1>1, <1>2

\* A bound may be raised.
LEMMA BelowMore ==
  ASSUME NEW s \in Seq(Envelope), NEW n \in Nat, NEW k \in Nat, n <= k, Below(s, n)
  PROVE  Below(s, k)
BY Numbered DEF Below

\* A log within its cap is drained of nothing; what is not empty stays so.
LEMMA NewestOfShort ==
  ASSUME NEW s \in Seq(Envelope)
  PROVE  /\ Len(s) <= LogCap => Newest(s) = s
         /\ Newest(s) = <<>> => s = <<>>
<1>1. CASE Len(s) <= LogCap
  BY <1>1 DEF Newest
<1>2. CASE ~(Len(s) <= LogCap)
  <2>1. Len(s) \in Nat /\ Len(s) - LogCap + 1 \in 1..Len(s)
    BY <1>2
  <2>2. Len(SubSeq(s, Len(s) - LogCap + 1, Len(s))) = LogCap
    BY <2>1, SubSeqProperties
  <2>3. Len(Newest(s)) = LogCap
    BY <1>2, <2>2 DEF Newest
  <2> QED BY <1>2, <2>3, EmptySeq
<1> QED BY <1>1, <1>2

\* The elements of a drained log, counted from its end.
LEMMA NewestElements ==
  ASSUME NEW s \in Seq(Envelope)
  PROVE  /\ Newest(s) \in Seq(Envelope)
         /\ Len(s) \in Nat
         /\ Len(Newest(s)) = IF Len(s) <= LogCap THEN Len(s) ELSE LogCap
         /\ \A i \in 1..Len(Newest(s)) :
              /\ Len(s) - Len(Newest(s)) + i \in 1..Len(s)
              /\ Newest(s)[i] = s[Len(s) - Len(Newest(s)) + i]
<1>0. Len(s) \in Nat /\ Newest(s) \in Seq(Envelope)
  BY NewestType
<1>1. CASE Len(s) <= LogCap
  <2>1. Newest(s) = s
    BY <1>1 DEF Newest
  <2>2. \A i \in 1..Len(s) : Len(s) - Len(s) + i = i
    BY <1>0
  <2> QED BY <1>0, <1>1, <2>1, <2>2
<1>2. CASE ~(Len(s) <= LogCap)
  <2> DEFINE k == Len(s) - LogCap
             t == SubSeq(s, k + 1, Len(s))
  <2>1. k \in Nat /\ k + 1 \in 1..Len(s) /\ Len(s) - LogCap = k
    BY <1>0, <1>2
  <2>2. Len(t) = LogCap /\ \A i \in 1..LogCap : t[i] = s[k + i]
    BY <2>1, SubSeqProperties
  <2>3. Newest(s) = t
    BY <1>2 DEF Newest
  <2>4. \A i \in 1..LogCap : k + i \in 1..Len(s)
    BY <1>0, <1>2
  <2> HIDE DEF k, t
  <2> QED BY <1>0, <1>2, <2>1, <2>2, <2>3, <2>4
<1> QED BY <1>1, <1>2

\* Draining may be done before or behind an append.
LEMMA NewestOfAppend ==
  ASSUME NEW s \in Seq(Envelope), NEW x \in Envelope
  PROVE  Newest(Append(Newest(s), x)) = Newest(Append(s, x))
<1> DEFINE a == Append(s, x)
           t == Newest(s)
           b == Append(t, x)
<1>1. /\ t \in Seq(Envelope) /\ Len(s) \in Nat
      /\ Len(t) = IF Len(s) <= LogCap THEN Len(s) ELSE LogCap
      /\ \A i \in 1..Len(t) : /\ Len(s) - Len(t) + i \in 1..Len(s)
                              /\ t[i] = s[Len(s) - Len(t) + i]
  BY NewestElements
<1> HIDE DEF t
<1>2. /\ a \in Seq(Envelope) /\ Len(a) = Len(s) + 1 /\ a[Len(s) + 1] = x
      /\ \A i \in 1..Len(s) : a[i] = s[i]
  BY AppendProperties
<1>3. /\ b \in Seq(Envelope) /\ Len(b) = Len(t) + 1 /\ b[Len(t) + 1] = x
      /\ \A i \in 1..Len(t) : b[i] = t[i]
  BY <1>1, AppendProperties
<1> HIDE DEF a, b
<1>4. \A i \in 1..Len(b) : Len(a) - Len(b) + i \in 1..Len(a)
                           /\ b[i] = a[Len(a) - Len(b) + i]
  <2> SUFFICES ASSUME NEW i \in 1..Len(b)
               PROVE  Len(a) - Len(b) + i \in 1..Len(a) /\ b[i] = a[Len(a) - Len(b) + i]
    OBVIOUS
  <2>0. Len(s) \in Nat /\ Len(t) \in Nat /\ Len(t) <= Len(s)
    BY <1>1
  <2>1. Len(a) - Len(b) + i = Len(s) - Len(t) + i
    BY <1>2, <1>3, <2>0
  <2>2. CASE i \in 1..Len(t)
    <3>1. Len(s) - Len(t) + i \in 1..Len(s) /\ t[i] = s[Len(s) - Len(t) + i]
      BY <1>1, <2>2
    <3>2. b[i] = t[i]
      BY <1>3, <2>2
    <3>3. a[Len(s) - Len(t) + i] = s[Len(s) - Len(t) + i]
      BY <1>2, <3>1
    <3>4. Len(s) - Len(t) + i \in 1..Len(a)
      BY <1>2, <2>0, <3>1
    <3> QED BY <2>1, <3>1, <3>2, <3>3, <3>4
  <2>3. CASE i = Len(t) + 1
    <3>1. Len(s) - Len(t) + i = Len(s) + 1
      BY <2>0, <2>3
    <3>2. Len(s) + 1 \in 1..Len(a)
      BY <1>2, <2>0
    <3>3. Len(a) - Len(b) + i = Len(s) + 1
      BY <2>1, <3>1
    <3> QED BY <1>2, <1>3, <2>3, <3>2, <3>3
  <2> QED BY <1>3, <2>0, <2>2, <2>3
<1> DEFINE m == Newest(a)
           n == Newest(b)
<1>5. /\ m \in Seq(Envelope)
      /\ Len(m) = IF Len(a) <= LogCap THEN Len(a) ELSE LogCap
      /\ \A i \in 1..Len(m) : /\ Len(a) - Len(m) + i \in 1..Len(a)
                              /\ m[i] = a[Len(a) - Len(m) + i]
  BY <1>2, NewestElements
<1>6. /\ n \in Seq(Envelope)
      /\ Len(n) = IF Len(b) <= LogCap THEN Len(b) ELSE LogCap
      /\ \A i \in 1..Len(n) : /\ Len(b) - Len(n) + i \in 1..Len(b)
                              /\ n[i] = b[Len(b) - Len(n) + i]
  BY <1>3, NewestElements
<1> HIDE DEF m, n
<1>7. Len(m) = Len(n) /\ Len(a) \in Nat /\ Len(b) \in Nat /\ Len(n) \in Nat
  BY <1>1, <1>2, <1>3, <1>5, <1>6
<1>8. ASSUME NEW i \in 1..Len(n)
      PROVE  m[i] = n[i]
  <2>1. n[i] = b[Len(b) - Len(n) + i] /\ Len(b) - Len(n) + i \in 1..Len(b)
    BY <1>6
  <2>2. b[Len(b) - Len(n) + i] = a[Len(a) - Len(b) + (Len(b) - Len(n) + i)]
    BY <1>4, <2>1
  <2>3. Len(a) - Len(b) + (Len(b) - Len(n) + i) = Len(a) - Len(m) + i
    BY <1>7
  <2> QED BY <1>5, <1>7, <2>1, <2>2, <2>3
<1>9. m = n
  BY <1>5, <1>6, <1>7, <1>8, SeqEqual
<1> QED BY <1>9 DEF m, n, a, b, t

\* Only an empty file restores an empty log.
LEMMA RestoredEmpty ==
  ASSUME NEW es \in Seq(Envelope), NEW n \in Nat, NEW m \in [1..n -> Msg],
         Restored(es, n, m) = <<>>
  PROVE  es = <<>>
<1> DEFINE added == [i \in 1..n |-> [seq |-> LastSeq(es) + i, msg |-> m[i]]]
<1>1. LastSeq(es) \in Nat
  BY LastSeqType
<1>2. \A i \in 1..n : [seq |-> LastSeq(es) + i, msg |-> m[i]] \in Envelope
  BY <1>1 DEF Envelope
<1>3. added \in Seq(Envelope)
  BY <1>2
<1>4. Newest(es \o added) = <<>>
  BY DEF Restored
<1> HIDE DEF added
<1>5. es \o added \in Seq(Envelope)
  BY <1>3, ConcatProperties
<1>6. es \o added = <<>>
  BY <1>4, <1>5, NewestOfShort
<1> QED BY <1>3, <1>6, ConcatEqualIffEmpty

-----------------------------------------------------------------------------
(* The inductive invariant.                                                 *)

Resting == \A e \in Emitters : pc[e] = "idle"

\* How far the newest event has come: the counter, the state, the log and the
\* file are at one number between two emits, and behind one another in one.
Progress ==
  /\ phase # "down" /\ Resting => applied = seq /\ LastSeq(log) = seq
  /\ phase = "up" /\ Resting => LastSeq(file) = seq
  /\ phase # "down" => LastSeq(file) <= seq
  /\ \A e \in Emitters :
       /\ pc[e] = "apply" => applied + 1 = seq
       /\ pc[e] \in {"push", "append", "rotate", "send"} => applied = seq
       /\ pc[e] \in {"apply", "push"} => LastSeq(log) + 1 = seq
       /\ pc[e] \in {"append", "rotate", "send"} => LastSeq(log) = seq
       /\ pc[e] \in {"apply", "push", "append"} => LastSeq(file) + 1 = seq
       /\ pc[e] \in {"rotate", "send"} => LastSeq(file) = seq

\* The handle is on the file, except while the rotation replaces it.
Handle == phase = "up" /\ (\A e \in Emitters : pc[e] # "rotate") => writer = "file"

\* The file holds the log, except for the event that is pushed and not yet
\* appended, and while it is replaced.
OnDisk ==
  /\ phase = "loaded" /\ log = <<>> => file = <<>>
  /\ phase = "up" /\ (\A e \in Emitters : pc[e] \notin {"append", "rotate"}) =>
       Newest(file) = log
  /\ \A e \in Emitters : pc[e] = "append" => log = Newest(Append(file, env[e]))

\* What a connection was sent or waits to be sent has been folded into the
\* state, pushed and appended; what it was sent stays on disk.
Shown == \A c \in Clients :
  /\ Bounded(c, LastSeq(file))
  /\ phase # "down" => Bounded(c, applied) /\ Bounded(c, LastSeq(log))

WorkInv == OrderInv /\ Progress /\ Handle /\ OnDisk

\* The emitter inside emit is alone there.
LEMMA Alone ==
  ASSUME OrderInv, NEW e \in Emitters, pc[e] # "idle"
  PROVE  /\ \A f \in Emitters : f # e => pc[f] = "idle"
         /\ phase = "up" /\ env[e].seq = seq /\ env[e] \in Envelope /\ ~Resting
         /\ emitLock = e /\ seq \in Nat
BY DEF OrderInv, Locking, TypeOK, Resting

\* Behind a boot and in it nobody is inside emit.
LEMMA BootRests ==
  ASSUME OrderInv, phase # "up"
  PROVE  Resting
BY DEF OrderInv, Locking, Resting

\* Steps that leave the pipeline alone, those of connections above all.
LEMMA WorkUntouched ==
  ASSUME WorkInv, UNCHANGED <<phase, seq, applied, log, emitVars, diskVars>>
  PROVE  Progress' /\ Handle' /\ OnDisk'
BY DEF WorkInv, Progress, Handle, OnDisk, Resting, emitVars, diskVars

LEMMA WorkStep ==
  ASSUME ~DiskMayFail, WorkInv, [Next]_vars
  PROVE  WorkInv'
<1>0. OrderInv /\ OrderInv' /\ TypeOK
  BY OrderStep DEF WorkInv, OrderInv
<1> USE DEF WorkInv
<1>1. CASE Load
  <2>1. PICK n \in 0..RestoreEvents : \E m \in [1..n -> Msg] :
          log' = Restored(Newest(file), n, m)
    BY <1>1 DEF Load
  <2>2. PICK m \in [1..n -> Msg] : log' = Restored(Newest(file), n, m)
    BY <2>1
  <2>3. /\ file \in Seq(Envelope) /\ Newest(file) \in Seq(Envelope) /\ n \in Nat
        /\ Ascending(file)
    BY <1>0, NewestType DEF TypeOK, OrderInv, LogOrder
  <2>4. Ascending(Newest(file)) /\ LastSeq(Newest(file)) = LastSeq(file)
    BY <2>3, NewestAscending
  <2>5. LastSeq(log') = LastSeq(file) + n /\ LastSeq(file) \in Nat
    BY <2>2, <2>3, <2>4, RestoredAscending, LastSeqType
  <2>6. /\ seq' = LastSeq(log') /\ applied' = LastSeq(log') /\ phase' = "loaded"
        /\ UNCHANGED <<pc, env, file, writer>> /\ Resting
    BY <1>0, <1>1, BootRests DEF Load, emitVars, diskVars
  <2>7. Progress'
    BY <2>3, <2>5, <2>6 DEF Progress, Resting
  <2>8. ASSUME log' = <<>> PROVE file = <<>>
    <3>1. Newest(file) = <<>>
      BY <2>2, <2>3, <2>8, RestoredEmpty
    <3> QED BY <2>3, <3>1, NewestOfShort
  <2> QED BY <1>0, <2>6, <2>7, <2>8 DEF Handle, OnDisk, Resting
<1>2. CASE OpenFile
  <2>1. /\ phase = "loaded" /\ writer' = "file"
        /\ phase' = IF log = <<>> THEN "up" ELSE "opened"
        /\ UNCHANGED <<seq, applied, log, file, pc, env>> /\ Resting
    BY <1>0, <1>2, BootRests DEF OpenFile, emitVars
  <2>2. log = <<>> => file = <<>> /\ LastSeq(file) = LastSeq(log) /\ Newest(file) = log
    BY <2>1 DEF OnDisk, Newest, LastSeq
  <2>3. Progress'
    BY <2>1, <2>2 DEF Progress, Resting
  <2>4. Handle' /\ OnDisk'
    BY <2>1, <2>2 DEF Handle, OnDisk, Resting
  <2> QED BY <1>0, <2>3, <2>4
<1>3. CASE RewriteAtBoot
  <2>1. /\ phase = "opened" /\ phase' = "up" /\ file' = log /\ writer' = "file"
        /\ UNCHANGED <<seq, applied, log, pc, env>> /\ Resting
    BY <1>0, <1>3, BootRests DEF RewriteAtBoot, RewriteEvents, emitVars
  <2>2. Newest(log) = log /\ seq \in Nat
    BY <1>0, NewestOfShort DEF TypeOK
  <2>3. Progress'
    BY <2>1, <2>2 DEF Progress, Resting
  <2>4. Handle' /\ OnDisk'
    BY <2>1, <2>2 DEF Handle, OnDisk, Resting
  <2> QED BY <1>0, <2>3, <2>4
<1>4. CASE Crash
  BY <1>0, <1>4 DEF Crash, Progress, Handle, OnDisk
<1>5. ASSUME NEW e \in Emitters, EmitLock(e)
      PROVE  WorkInv'
  <2>1. /\ phase = "up" /\ phase' = "up" /\ seq' = seq + 1 /\ seq \in Nat
        /\ pc' = [pc EXCEPT ![e] = "apply"] /\ pc \in [Emitters -> Steps]
        /\ UNCHANGED <<applied, log, file, writer>> /\ Resting
    BY <1>0, <1>5 DEF EmitLock, TypeOK, OrderInv, Locking, Resting, diskVars
  <2>2. pc'[e] = "apply" /\ \A f \in Emitters : f # e => pc'[f] = "idle"
    BY <2>1 DEF Resting
  <2>3. Progress'
    BY <2>1, <2>2 DEF Progress, Resting
  <2>4. Handle' /\ OnDisk'
    BY <2>1, <2>2 DEF Handle, OnDisk, Resting
  <2> QED BY <1>0, <2>3, <2>4
<1>6. ASSUME NEW e \in Emitters, EmitApply(e)
      PROVE  WorkInv'
  <2>1. /\ phase = "up" /\ env[e].seq = seq /\ pc[e] = "apply" /\ pc \in [Emitters -> Steps]
        /\ pc' = [pc EXCEPT ![e] = "push"] /\ applied' = seq
        /\ UNCHANGED <<phase, seq, log, file, writer, env>>
        /\ \A f \in Emitters : f # e => pc[f] = "idle"
    BY <1>0, <1>6, Alone DEF EmitApply, TypeOK, diskVars
  <2>2. pc'[e] = "push" /\ \A f \in Emitters : f # e => pc'[f] = "idle"
    BY <2>1
  <2>3. Progress'
    BY <2>1, <2>2 DEF Progress, Resting
  <2>4. Handle' /\ OnDisk'
    BY <2>1, <2>2 DEF Handle, OnDisk
  <2> QED BY <1>0, <2>3, <2>4
<1>7. ASSUME NEW e \in Emitters, EmitPush(e)
      PROVE  WorkInv'
  <2>1. /\ phase = "up" /\ env[e].seq = seq /\ env[e] \in Envelope /\ pc[e] = "push"
        /\ pc' = [pc EXCEPT ![e] = "append"] /\ log' = Newest(Append(log, env[e]))
        /\ pc \in [Emitters -> Steps] /\ log \in Seq(Envelope) /\ file \in Seq(Envelope)
        /\ UNCHANGED <<phase, seq, applied, file, writer, env>>
        /\ \A f \in Emitters : f # e => pc[f] = "idle"
    BY <1>0, <1>7, Alone DEF EmitPush, TypeOK, diskVars
  <2>2. pc'[e] = "append" /\ \A f \in Emitters : f # e => pc'[f] = "idle"
    BY <2>1
  <2>3. LastSeq(log') = seq
    <3>1. Ascending(log) /\ Under(log, seq)
      BY <1>0, <2>1 DEF OrderInv, LogOrder
    <3>2. Append(log, env[e]) \in Seq(Envelope) /\ Ascending(Append(log, env[e]))
      BY <2>1, <3>1, AppendAscending, AppendProperties
    <3> QED BY <2>1, <3>2, NewestAscending, LastOfAppend
  <2>4. Progress'
    BY <2>1, <2>2, <2>3 DEF Progress, Resting
  <2>5. log' = Newest(Append(file, env[e]))
    <3>1. \A f \in Emitters : pc[f] \notin {"append", "rotate"}
      BY <2>1
    <3>2. Newest(file) = log
      BY <2>1, <3>1 DEF OnDisk
    <3> QED BY <2>1, <3>2, NewestOfAppend
  <2>6. OnDisk'
    BY <2>1, <2>2, <2>5 DEF OnDisk
  <2>7. Handle'
    BY <2>1, <2>2 DEF Handle
  <2> QED BY <1>0, <2>4, <2>6, <2>7
<1>8. ASSUME NEW e \in Emitters, EmitAppend(e)
      PROVE  WorkInv'
  <2>1. /\ phase = "up" /\ env[e].seq = seq /\ env[e] \in Envelope /\ pc[e] = "append"
        /\ pc \in [Emitters -> Steps] /\ file \in Seq(Envelope)
        /\ UNCHANGED <<phase, seq, applied, log, env>>
        /\ \A f \in Emitters : f # e => pc[f] = "idle"
    BY <1>0, <1>8, Alone DEF EmitAppend, TypeOK
  <2>2. writer = "file"
    BY <2>1 DEF Handle
  <2>3. /\ file' = Append(file, env[e])
        /\ \/ pc' = [pc EXCEPT ![e] = "send"] /\ writer' = "file"
           \/ pc' = [pc EXCEPT ![e] = "rotate"]
    BY <1>8, <2>2 DEF EmitAppend
  <2>4. pc'[e] \in {"send", "rotate"} /\ \A f \in Emitters : f # e => pc'[f] = "idle"
    BY <2>1, <2>3
  <2>5. LastSeq(file') = seq /\ seq \in Nat
    BY <1>0, <2>1, <2>3, LastOfAppend DEF TypeOK
  <2>6. Progress'
    BY <2>1, <2>4, <2>5 DEF Progress, Resting
  <2>7. Handle'
    BY <2>1, <2>3, <2>4 DEF Handle
  <2>8. OnDisk'
    BY <2>1, <2>3, <2>4 DEF OnDisk
  <2> QED BY <1>0, <2>6, <2>7, <2>8
<1>9. ASSUME NEW e \in Emitters, EmitRotate(e)
      PROVE  WorkInv'
  <2>1. /\ phase = "up" /\ pc[e] = "rotate" /\ pc \in [Emitters -> Steps]
        /\ file' = log /\ writer' = "file" /\ pc' = [pc EXCEPT ![e] = "send"]
        /\ UNCHANGED <<phase, seq, applied, log, env>>
        /\ \A f \in Emitters : f # e => pc[f] = "idle"
    BY <1>0, <1>9, Alone DEF EmitRotate, RewriteEvents, TypeOK
  <2>2. pc'[e] = "send" /\ \A f \in Emitters : f # e => pc'[f] = "idle"
    BY <2>1
  <2>3. Newest(log) = log /\ seq \in Nat
    BY <1>0, NewestOfShort DEF TypeOK
  <2>4. Progress'
    BY <2>1, <2>2, <2>3 DEF Progress, Resting
  <2>5. Handle' /\ OnDisk'
    BY <2>1, <2>2, <2>3 DEF Handle, OnDisk
  <2> QED BY <1>0, <2>4, <2>5
<1>10. ASSUME NEW e \in Emitters, EmitSend(e)
       PROVE  WorkInv'
  <2>1. /\ phase = "up" /\ pc[e] = "send" /\ pc \in [Emitters -> Steps]
        /\ pc' = [pc EXCEPT ![e] = "idle"]
        /\ UNCHANGED <<phase, seq, applied, log, file, writer>>
        /\ \A f \in Emitters : f # e => pc[f] = "idle"
    BY <1>0, <1>10, Alone DEF EmitSend, TypeOK, diskVars
  <2>2. \A f \in Emitters : pc'[f] = "idle"
    BY <2>1
  <2>3. Progress'
    BY <2>1, <2>2 DEF Progress, Resting
  <2>4. Handle' /\ OnDisk'
    BY <2>1, <2>2 DEF Handle, OnDisk
  <2> QED BY <1>0, <2>3, <2>4
<1>11. ASSUME NEW c \in Clients, Subscribe(c) \/ Serve(c) \/ Disconnect(c)
       PROVE  WorkInv'
  BY <1>0, <1>11, WorkUntouched
     DEF Subscribe, Serve, SendReplay, SendLive, CloseLagged, Disconnect, Hangup
<1>12. CASE UNCHANGED vars
  BY <1>0, <1>12, WorkUntouched DEF vars
<1> QED
  BY <1>1, <1>2, <1>3, <1>4, <1>5, <1>6, <1>7, <1>8, <1>9, <1>10, <1>11, <1>12
  DEF Next, Boot, Emit

LEMMA WorkInit == Init => WorkInv
<1> SUFFICES ASSUME Init PROVE WorkInv
  OBVIOUS
<1>1. OrderInv
  BY OrderInit
<1>2. Progress /\ Handle /\ OnDisk
  BY DEF Init, Progress, Handle, OnDisk
<1> QED BY <1>1, <1>2 DEF WorkInv

\* The invariant of a session whose disk works.
LEMMA WorkInvariant == Spec => [](~DiskMayFail => WorkInv)
<1>1. Init => (~DiskMayFail => WorkInv)
  BY WorkInit
<1>2. (~DiskMayFail => WorkInv) /\ [Next]_vars => (~DiskMayFail => WorkInv)'
  BY WorkStep
<1> QED BY <1>1, <1>2, PTL DEF Spec

\* While the disk works, reading the file back gives the log the running session
\* has in memory: rotation, the cap of the log and the cap of the loader agree,
\* for every value of the caps (append_event, rewrite_events, load_session_files).
THEOREM RestartKeepsLog == Spec => []RestartRestoresLog
<1>1. ASSUME WorkInv PROVE RestartRestoresLog
  <2> SUFFICES ASSUME phase = "up", emitLock = NoOne PROVE Newest(file) = log
    BY DEF RestartRestoresLog
  <2>1. \A e \in Emitters : pc[e] = "idle"
    BY <1>1 DEF WorkInv, OrderInv, Locking
  <2> QED BY <1>1, <2>1 DEF WorkInv, OnDisk
<1>2. (~DiskMayFail => WorkInv) => RestartRestoresLog
  BY <1>1 DEF RestartRestoresLog
<1> QED BY <1>2, WorkInvariant, PTL

-----------------------------------------------------------------------------
(* Nothing that was seen is lost.                                           *)

LEMMA BoundedMore ==
  ASSUME TypeOK, NEW c \in Clients, NEW n \in Nat, NEW k \in Nat, n <= k, Bounded(c, n)
  PROVE  Bounded(c, k)
BY BelowMore DEF TypeOK, Bounded

\* The file never falls back, nor do state and log while the session is up;
\* a boot starts them no lower than the file.
LEMMA LevelsRise ==
  ASSUME ~DiskMayFail, WorkInv, [Next]_vars
  PROVE  /\ LastSeq(file) \in Nat /\ LastSeq(file') \in Nat /\ LastSeq(file) <= LastSeq(file')
         /\ phase # "down" => applied \in Nat /\ LastSeq(log) \in Nat
         /\ phase' # "down" =>
              /\ applied' \in Nat /\ LastSeq(log') \in Nat
              /\ phase = "down" => LastSeq(file) <= applied' /\ LastSeq(file) <= LastSeq(log')
              /\ phase # "down" => applied <= applied' /\ LastSeq(log) <= LastSeq(log')
<1>0. WorkInv' /\ TypeOK /\ TypeOK'
  BY WorkStep DEF WorkInv, OrderInv
<1>1. /\ LastSeq(file) \in Nat /\ LastSeq(log) \in Nat /\ applied \in Nat /\ seq \in Nat
      /\ LastSeq(file') \in Nat /\ LastSeq(log') \in Nat /\ applied' \in Nat /\ seq' \in Nat
  BY <1>0, LastSeqType DEF TypeOK
<1> USE DEF WorkInv
<1>2. CASE Load
  <2>1. Resting /\ Resting' /\ phase' = "loaded" /\ phase = "down" /\ file' = file
    BY <1>0, <1>2, BootRests DEF Load, diskVars, emitVars, Resting
  <2> QED BY <1>0, <1>1, <2>1 DEF Progress
<1>3. CASE OpenFile \/ RewriteAtBoot
  <2>1. /\ UNCHANGED <<log, applied, seq>> /\ phase # "down" /\ Resting
        /\ file' = file \/ file' = log
    BY <1>0, <1>3, BootRests DEF OpenFile, RewriteAtBoot, RewriteEvents
  <2> QED BY <1>1, <2>1 DEF Progress
<1>4. CASE Crash
  BY <1>1, <1>4 DEF Crash
<1>5. ASSUME NEW e \in Emitters, EmitLock(e)
      PROVE  UNCHANGED <<phase, applied, log, file>>
  BY <1>5 DEF EmitLock, diskVars
<1>6. ASSUME NEW e \in Emitters, Emit(e)
      PROVE  /\ LastSeq(file) <= LastSeq(file') /\ applied <= applied'
             /\ LastSeq(log) <= LastSeq(log') /\ phase' = phase /\ phase = "up"
  <2>1. CASE EmitApply(e)
    <3>1. UNCHANGED <<phase, file, log>> /\ pc[e] = "apply" /\ env[e].seq = seq
          /\ applied' = seq /\ phase = "up"
      BY <1>0, <2>1, Alone DEF EmitApply, diskVars
    <3> QED BY <1>1, <3>1 DEF Progress
  <2>2. CASE EmitPush(e)
    <3>1. UNCHANGED <<phase, seq, file, applied>> /\ pc[e] = "push" /\ pc'[e] = "append"
          /\ phase = "up"
      BY <1>0, <2>2, Alone DEF EmitPush, diskVars, TypeOK
    <3> QED BY <1>0, <1>1, <3>1 DEF Progress
  <2>3. CASE EmitAppend(e)
    <3>1. UNCHANGED <<phase, seq, log, applied>> /\ pc[e] = "append"
          /\ pc'[e] \in {"rotate", "send"} /\ phase = "up"
      BY <1>0, <2>3, Alone DEF EmitAppend, TypeOK
    <3> QED BY <1>0, <1>1, <3>1 DEF Progress
  <2>4. CASE EmitRotate(e)
    <3>1. UNCHANGED <<phase, seq, log, applied>> /\ pc[e] = "rotate" /\ pc'[e] = "send"
          /\ phase = "up"
      BY <1>0, <2>4, Alone DEF EmitRotate, TypeOK
    <3> QED BY <1>0, <1>1, <3>1 DEF Progress
  <2>5. CASE EmitSend(e)
    <3>1. UNCHANGED <<phase, file, log, applied>> /\ phase = "up"
      BY <1>0, <2>5, Alone DEF EmitSend, diskVars
    <3> QED BY <1>1, <3>1
  <2> QED BY <1>6, <2>1, <2>2, <2>3, <2>4, <2>5 DEF Emit
<1>7. ASSUME NEW c \in Clients, Subscribe(c) \/ Serve(c) \/ Disconnect(c)
      PROVE  UNCHANGED <<phase, applied, log, file>>
  BY <1>7 DEF Subscribe, Serve, SendReplay, SendLive, CloseLagged, Disconnect, Hangup,
     diskVars
<1>8. CASE UNCHANGED vars
  BY <1>1, <1>8 DEF vars, diskVars
<1> QED
  BY <1>1, <1>2, <1>3, <1>4, <1>5, <1>6, <1>7, <1>8 DEF Next, Boot

\* The bounds of what a connection was sent rise with the levels.
LEMMA ShownKept ==
  ASSUME ~DiskMayFail, WorkInv, Shown, [Next]_vars, NEW c \in Clients,
         UNCHANGED <<got[c], replay[c], live[c]>>
  PROVE  /\ Bounded(c, LastSeq(file))'
         /\ phase' # "down" => Bounded(c, applied)' /\ Bounded(c, LastSeq(log))'
<1>1. \A n : Bounded(c, n) => /\ Below(got'[c], n) /\ Below(replay'[c], n)
                              /\ Below(live'[c], n)
  BY DEF Bounded
<1>2. TypeOK
  BY DEF WorkInv, OrderInv
<1>3. Bounded(c, LastSeq(file')) /\ (phase' # "down" => Bounded(c, applied') /\ Bounded(c, LastSeq(log')))
  <2>1. CASE phase' = "down"
    BY <1>2, <2>1, LevelsRise, BoundedMore DEF Shown
  <2>2. CASE phase = "down" /\ phase' # "down"
    BY <1>2, <2>2, LevelsRise, BoundedMore DEF Shown
  <2>3. CASE phase # "down" /\ phase' # "down"
    BY <1>2, <2>3, LevelsRise, BoundedMore DEF Shown
  <2> QED BY <2>1, <2>2, <2>3
<1> QED BY <1>1, <1>3 DEF Bounded

\* Moving events between the parts of a pipeline keeps its bounds.
LEMMA BoundedMoves ==
  ASSUME TypeOK, NEW c \in Clients, NEW n \in Nat, Bounded(c, n)
  PROVE  /\ SendReplay(c) => Bounded(c, n)'
         /\ SendLive(c) => Bounded(c, n)'
         /\ Hangup(c) => Bounded(c, n)'
<1>1. /\ got[c] \in Seq(Envelope) /\ replay[c] \in Seq(Envelope) /\ live[c] \in Seq(Envelope)
      /\ Below(got[c], n) /\ Below(replay[c], n) /\ Below(live[c], n)
  BY DEF TypeOK, Bounded
<1>2. ASSUME NEW s \in Seq(Envelope), s # <<>>, Below(s, n)
      PROVE  Below(Append(got[c], Head(s)), n) /\ Below(Tail(s), n)
  <2>1. /\ Head(s) = s[1] /\ Head(s) \in Envelope /\ 1 \in DOMAIN s
        /\ Tail(s) \in Seq(Envelope) /\ DOMAIN Tail(s) = 1..Len(Tail(s))
        /\ \A i \in 1..Len(Tail(s)) : Tail(s)[i] = s[i + 1] /\ i + 1 \in DOMAIN s
    BY <1>2, HeadTailProperties
  <2>2. Below(Tail(s), n)
    BY <1>2, <2>1 DEF Below
  <2>3. /\ DOMAIN Append(got[c], Head(s)) = 1..(Len(got[c]) + 1)
        /\ \A i \in 1..Len(got[c]) : Append(got[c], Head(s))[i] = got[c][i] /\ i \in DOMAIN got[c]
        /\ Append(got[c], Head(s))[Len(got[c]) + 1] = s[1]
        /\ Len(got[c]) \in Nat
    BY <1>1, <2>1, AppendProperties
  <2>4. Below(Append(got[c], Head(s)), n)
    BY <1>1, <1>2, <2>1, <2>3 DEF Below
  <2> QED BY <2>2, <2>4
<1>3. CASE SendReplay(c)
  BY <1>1, <1>2, <1>3 DEF SendReplay, Bounded, TypeOK, Hangup, SendLive
<1>4. CASE SendLive(c)
  BY <1>1, <1>2, <1>4 DEF SendReplay, Bounded, TypeOK, Hangup, SendLive
<1>5. CASE Hangup(c)
  BY <1>1, <1>5, EmptyAscending DEF SendReplay, Bounded, TypeOK, Hangup, SendLive
<1> QED BY <1>3, <1>4, <1>5

LEMMA ShownInit == Init => Shown
BY EmptyAscending DEF Init, Shown, Bounded

LEMMA ShownStep ==
  ASSUME ~DiskMayFail, WorkInv, Shown, [Next]_vars
  PROVE  Shown'
<1>0. TypeOK /\ OrderInv
  BY DEF WorkInv, OrderInv
<1> DEFINE Fine(c) == /\ Bounded(c, LastSeq(file))
                      /\ phase # "down" => Bounded(c, applied) /\ Bounded(c, LastSeq(log))
<1>1. ASSUME NEW c \in Clients, UNCHANGED <<got[c], replay[c], live[c]>>
      PROVE  Fine(c)'
  BY <1>1, ShownKept
<1>2. CASE \/ Boot \/ UNCHANGED vars
           \/ \E e \in Emitters : \/ EmitLock(e) \/ EmitApply(e) \/ EmitPush(e)
                                  \/ EmitAppend(e) \/ EmitRotate(e)
  <2>1. UNCHANGED connVars
    BY <1>2 DEF Boot, Load, OpenFile, RewriteAtBoot, vars, EmitLock, EmitApply, EmitPush,
       EmitAppend, EmitRotate
  <2> QED BY <1>1, <2>1 DEF Shown, connVars
<1>3. CASE Crash
  <2>1. ASSUME NEW c \in Clients PROVE Bounded(c, LastSeq(file))'
    BY <1>3, EmptyAscending DEF Crash, Shown, Bounded
  <2> QED BY <1>3, <2>1 DEF Crash, Shown
<1>4. ASSUME NEW e \in Emitters, EmitSend(e)
      PROVE  Shown'
  <2>1. /\ UNCHANGED <<phase, applied, log, file, got, replay>> /\ phase = "up"
        /\ env[e] \in Envelope /\ env[e].seq = seq /\ seq \in Nat
        /\ applied = seq /\ LastSeq(log) = seq /\ LastSeq(file) = seq
    BY <1>0, <1>4, Alone DEF EmitSend, WorkInv, Progress, diskVars
  <2>2. ASSUME NEW c \in Clients PROVE Bounded(c, seq)'
    <3>1. /\ Below(got[c], seq) /\ Below(replay[c], seq) /\ Below(live[c], seq)
          /\ live[c] \in Seq(Envelope)
      BY <1>0, <2>1 DEF Shown, Bounded, TypeOK
    <3>2. Below(live'[c], seq)
      <4>1. ASSUME NEW s \in Seq(Envelope), Below(s, seq)
            PROVE  Below(Append(s, env[e]), seq)
        <5>1. /\ DOMAIN Append(s, env[e]) = 1..(Len(s) + 1) /\ Len(s) \in Nat
              /\ \A i \in 1..Len(s) : Append(s, env[e])[i] = s[i] /\ i \in DOMAIN s
              /\ Append(s, env[e])[Len(s) + 1] = env[e]
          BY <2>1, AppendProperties
        <5> QED BY <2>1, <4>1, <5>1 DEF Below
      <4>2. CASE ~conn[c]
        BY <1>4, <3>1, <4>2 DEF EmitSend
      <4>3. CASE conn[c] /\ Len(live[c]) < BufCap
        BY <1>4, <3>1, <4>1, <4>3 DEF EmitSend
      <4>4. CASE conn[c] /\ ~(Len(live[c]) < BufCap)
        <5>1. live'[c] = Append(Tail(live[c]), env[e]) /\ live[c] # <<>>
          BY <1>4, <3>1, <4>4 DEF EmitSend
        <5>2. /\ Tail(live[c]) \in Seq(Envelope) /\ DOMAIN Tail(live[c]) = 1..Len(Tail(live[c]))
              /\ \A i \in 1..Len(Tail(live[c])) :
                   Tail(live[c])[i] = live[c][i + 1] /\ i + 1 \in DOMAIN live[c]
          BY <3>1, <5>1, HeadTailProperties
        <5>3. Below(Tail(live[c]), seq)
          BY <3>1, <5>2 DEF Below
        <5> QED BY <4>1, <5>1, <5>2, <5>3
      <4> QED BY <4>2, <4>3, <4>4
    <3>3. seq' = seq
      BY <1>4 DEF EmitSend
    <3> QED BY <2>1, <3>1, <3>2, <3>3 DEF Bounded
  <2>3. seq' = seq
    BY <1>4 DEF EmitSend
  <2> QED BY <2>1, <2>2, <2>3 DEF Shown
<1>5. ASSUME NEW c \in Clients, Subscribe(c)
      PROVE  Shown'
  <2>1. /\ UNCHANGED <<phase, applied, log, file, seq>> /\ phase = "up"
        /\ got'[c] = <<>> /\ live'[c] = <<>> /\ replay'[c] = log
        /\ \A d \in Clients : d # c => UNCHANGED <<got[d], replay[d], live[d]>>
    BY <1>0, <1>5 DEF Subscribe, TypeOK, diskVars
  <2>2. Resting
    BY <1>0, <1>5 DEF Subscribe, OrderInv, Locking, Resting
  <2>3. applied = seq /\ LastSeq(log) = seq /\ LastSeq(file) = seq /\ Below(log, seq)
    BY <1>0, <2>1, <2>2 DEF WorkInv, Progress, OrderInv, LogOrder
  <2>4. Fine(c)'
    BY <2>1, <2>3, EmptyAscending DEF Bounded
  <2> QED BY <1>1, <2>1, <2>4 DEF Shown
<1>6. ASSUME NEW c \in Clients, SendReplay(c) \/ SendLive(c) \/ Hangup(c)
      PROVE  Shown'
  <2>1. /\ UNCHANGED <<phase, applied, log, file>>
        /\ \A d \in Clients : d # c => UNCHANGED <<got[d], replay[d], live[d]>>
    BY <1>0, <1>6 DEF SendReplay, SendLive, Hangup, TypeOK, diskVars
  <2>2. LastSeq(file) \in Nat /\ applied \in Nat /\ LastSeq(log) \in Nat
    BY <1>0, LastSeqType DEF TypeOK
  <2>3. \A n \in Nat : Bounded(c, n) => Below(got'[c], n) /\ Below(replay'[c], n) /\ Below(live'[c], n)
    BY <1>0, <1>6, BoundedMoves DEF Bounded
  <2>4. Fine(c)'
    BY <2>1, <2>2, <2>3 DEF Shown, Bounded
  <2> QED BY <1>1, <2>1, <2>4 DEF Shown
<1> QED
  BY <1>2, <1>3, <1>4, <1>5, <1>6 DEF Next, Emit, Serve, CloseLagged, Disconnect

LEMMA ShownInvariant == Spec => [](~DiskMayFail => WorkInv /\ Shown)
<1>1. Init => (~DiskMayFail => WorkInv /\ Shown)
  BY WorkInit, ShownInit
<1>2. (~DiskMayFail => WorkInv /\ Shown) /\ [Next]_vars => (~DiskMayFail => WorkInv /\ Shown)'
  BY WorkStep, ShownStep
<1> QED BY <1>1, <1>2, PTL DEF Spec

\* While the disk works, an event a connection was sent is on disk, and while
\* the session is up in the log and in the state, over any number of crashes:
\* emit pushes and appends before it broadcasts, and a snapshot is taken only
\* between two emits (emit, subscribe).
THEOREM NothingIsLost == Spec => []NothingSeenIsLost
<1>1. ASSUME WorkInv, Shown
      PROVE  NothingSeenIsLost
  <2> SUFFICES ASSUME NEW c \in Clients
               PROVE  /\ LastSeq(got[c]) <= LastSeq(file)
                      /\ phase = "up" => /\ LastSeq(got[c]) <= applied
                                         /\ LastSeq(got[c]) <= LastSeq(log)
    BY DEF NothingSeenIsLost
  <2>1. /\ got[c] \in Seq(Envelope) /\ LastSeq(file) \in Nat /\ applied \in Nat
        /\ LastSeq(log) \in Nat
    BY <1>1, LastSeqType DEF WorkInv, OrderInv, TypeOK
  <2>2. /\ Below(got[c], LastSeq(file))
        /\ phase = "up" => Below(got[c], applied) /\ Below(got[c], LastSeq(log))
    BY <1>1 DEF Shown, Bounded
  <2> QED BY <2>1, <2>2, LastBelow
<1>2. (~DiskMayFail => WorkInv /\ Shown) => NothingSeenIsLost
  BY <1>1 DEF NothingSeenIsLost
<1> QED BY <1>2, ShownInvariant, PTL

-----------------------------------------------------------------------------
(* No number is missing.  Lemmas about the operators first.                 *)

\* Two numbers at the same distance from their positions.
LEMMA SameDistance ==
  ASSUME NEW p \in Nat, NEW q \in Nat, NEW i \in Nat, NEW j \in Nat, NEW n \in Nat,
         NEW m \in Nat, p + n = m + i, q + n = m + j
  PROVE  q + i = p + j
OBVIOUS

\* The elements of what has been appended to.
LEMMA AppendParts ==
  ASSUME NEW s \in Seq(Envelope), NEW x \in Envelope
  PROVE  /\ Append(s, x) \in Seq(Envelope) /\ Append(s, x) # <<>>
         /\ Len(Append(s, x)) = Len(s) + 1 /\ Len(s) \in Nat
         /\ DOMAIN Append(s, x) = 1..(Len(s) + 1)
         /\ \A i \in 1..Len(s) : Append(s, x)[i] = s[i]
         /\ Append(s, x)[Len(s) + 1] = x
BY AppendProperties

\* In a log without gaps the last number gives all others.
LEMMA GapFreeFromLast ==
  ASSUME NEW s \in Seq(Envelope), Contiguous(s)
  PROVE  \A i \in 1..Len(s) : s[i].seq + Len(s) = LastSeq(s) + i
<1> SUFFICES ASSUME NEW i \in 1..Len(s) PROVE s[i].seq + Len(s) = LastSeq(s) + i
  OBVIOUS
<1>1. s # <<>> /\ Len(s) \in DOMAIN s /\ i \in DOMAIN s
  OBVIOUS
<1>2. s[Len(s)].seq + i = s[i].seq + Len(s)
  BY <1>1 DEF Contiguous
<1> QED BY <1>1, <1>2 DEF LastSeq

LEMMA EmptyContiguous == Contiguous(<<>>)
BY DEF Contiguous

\* The next number may be appended.
LEMMA AppendContiguous ==
  ASSUME NEW s \in Seq(Envelope), NEW x \in Envelope,
         Contiguous(s), LastSeq(s) + 1 = x.seq
  PROVE  Contiguous(Append(s, x))
<1> DEFINE a == Append(s, x)
<1>1. /\ Len(s) \in Nat /\ DOMAIN a = 1..(Len(s) + 1)
      /\ \A i \in 1..Len(s) : a[i] = s[i]
      /\ a[Len(s) + 1] = x
  BY AppendParts
<1> HIDE DEF a
<1>2. \A i \in 1..Len(s) : s[i].seq \in Nat /\ s[i].seq + Len(s) = LastSeq(s) + i
  BY Numbered, GapFreeFromLast
<1>3. LastSeq(s) \in Nat /\ x.seq \in Nat
  BY LastSeqType DEF Envelope
<1>4. \A i \in 1..(Len(s) + 1) : a[i].seq \in Nat /\ a[i].seq + Len(s) = LastSeq(s) + i
  <2> TAKE i \in 1..(Len(s) + 1)
  <2>1. CASE i \in 1..Len(s)
    BY <1>1, <1>2, <2>1
  <2>2. CASE i = Len(s) + 1
    <3>1. a[i] = x /\ x.seq + Len(s) = LastSeq(s) + (Len(s) + 1)
      BY <1>1, <1>3, <2>2, SMTT(20)
    <3> QED BY <1>3, <2>2, <3>1
  <2> QED BY <1>1, <2>1, <2>2
<1>5. Contiguous(a)
  <2> SUFFICES ASSUME NEW i \in 1..(Len(s) + 1), NEW j \in 1..(Len(s) + 1)
               PROVE  a[j].seq + i = a[i].seq + j
    BY <1>1 DEF Contiguous
  <2> DEFINE p == a[i].seq
             q == a[j].seq
  <2>1. /\ p \in Nat /\ p + Len(s) = LastSeq(s) + i
        /\ q \in Nat /\ q + Len(s) = LastSeq(s) + j
    BY <1>4
  <2>2. i \in Nat /\ j \in Nat
    BY <1>1
  <2> DEFINE l == Len(s)
             m0 == LastSeq(s)
  <2>3. l \in Nat /\ m0 \in Nat /\ p + l = m0 + i /\ q + l = m0 + j
    BY <1>1, <1>3, <2>1
  <2> HIDE DEF p, q, l, m0
  <2>4. q + i = p + j
    BY <2>1, <2>2, <2>3, SameDistance
  <2> QED BY <2>4 DEF p, q
<1> QED BY <1>5 DEF a

\* Draining a log opens no gap.
LEMMA NewestContiguous ==
  ASSUME NEW s \in Seq(Envelope), Contiguous(s)
  PROVE  Contiguous(Newest(s))
<1> DEFINE t == Newest(s)
<1>1. /\ t \in Seq(Envelope) /\ Len(s) \in Nat
      /\ \A i \in 1..Len(t) : /\ Len(s) - Len(t) + i \in 1..Len(s)
                              /\ t[i] = s[Len(s) - Len(t) + i]
  BY NewestElements
<1> HIDE DEF t
<1>2. \A i \in DOMAIN s : s[i].seq \in Nat
  BY Numbered
<1> SUFFICES ASSUME NEW i \in DOMAIN t, NEW j \in DOMAIN t
             PROVE  t[j].seq + i = t[i].seq + j
  BY DEF Contiguous, t
<1> DEFINE k == Len(s) - Len(t)
<1>3. /\ k \in Int /\ i \in Int /\ j \in Int
      /\ DOMAIN t = 1..Len(t) /\ DOMAIN s = 1..Len(s)
  BY <1>1
<1>4. k + i \in DOMAIN s /\ k + j \in DOMAIN s /\ t[i] = s[k + i] /\ t[j] = s[k + j]
  BY <1>1, <1>3
<1> HIDE DEF k
<1> DEFINE p == s[k + i].seq
           q == s[k + j].seq
<1>5. q + (k + i) = p + (k + j)
  BY <1>4 DEF Contiguous
<1>6. p \in Nat /\ q \in Nat
  BY <1>2, <1>4
<1> HIDE DEF p, q
<1>7. q + i = p + j
  <2>1. \A u, v \in Nat, a, b, c \in Int : v + (a + b) = u + (a + c) => v + b = u + c
    OBVIOUS
  <2> QED BY <1>3, <1>5, <1>6, <2>1, SMTT(20)
<1> QED BY <1>4, <1>7 DEF p, q

\* What restore adds follows the file without a gap.
LEMMA RestoredContiguous ==
  ASSUME NEW es \in Seq(Envelope), NEW n \in Nat, NEW m \in [1..n -> Msg],
         Contiguous(es)
  PROVE  Contiguous(Restored(es, n, m))
<1> DEFINE added == [i \in 1..n |-> [seq |-> LastSeq(es) + i, msg |-> m[i]]]
           all == es \o added
<1>1. LastSeq(es) \in Nat
  BY LastSeqType
<1>2. \A i \in 1..n : [seq |-> LastSeq(es) + i, msg |-> m[i]] \in Envelope
  BY <1>1 DEF Envelope
<1>3. /\ added \in Seq(Envelope) /\ Len(added) = n
      /\ \A i \in 1..n : added[i].seq = LastSeq(es) + i
  BY <1>2
<1> HIDE DEF added
<1>4. /\ all \in Seq(Envelope)
      /\ Len(all) = Len(es) + n
      /\ \A i \in 1..Len(es) : all[i] = es[i]
      /\ \A i \in (Len(es) + 1)..(Len(es) + n) : all[i] = added[i - Len(es)]
      /\ Len(es) \in Nat
  <2>1. added \in Seq(Envelope) /\ Len(added) = n
    BY <1>3
  <2> QED BY <2>1, ConcatParts
<1> HIDE DEF all
<1>5. \A i \in 1..Len(es) : es[i].seq \in Nat /\ es[i].seq + Len(es) = LastSeq(es) + i
  BY Numbered, GapFreeFromLast
<1>6. \A i \in 1..(Len(es) + n) :
        all[i].seq \in Nat /\ all[i].seq + Len(es) = LastSeq(es) + i
  <2> TAKE i \in 1..(Len(es) + n)
  <2>1. CASE i <= Len(es)
    BY <1>4, <1>5, <2>1
  <2>2. CASE i > Len(es)
    <3>1. i \in (Len(es) + 1)..(Len(es) + n) /\ i - Len(es) \in 1..n
      BY <1>4, <2>2
    <3>2. all[i].seq = LastSeq(es) + (i - Len(es))
      BY <1>3, <1>4, <3>1
    <3> QED BY <1>1, <1>4, <2>2, <3>2
  <2> QED BY <1>4, <2>1, <2>2
<1>7. Contiguous(all)
  <2> SUFFICES ASSUME NEW i \in 1..(Len(es) + n), NEW j \in 1..(Len(es) + n)
               PROVE  all[j].seq + i = all[i].seq + j
    BY <1>4 DEF Contiguous
  <2> DEFINE p == all[i].seq
             q == all[j].seq
  <2>1. /\ p \in Nat /\ p + Len(es) = LastSeq(es) + i
        /\ q \in Nat /\ q + Len(es) = LastSeq(es) + j
    BY <1>6
  <2>2. i \in Nat /\ j \in Nat
    BY <1>4
  <2> DEFINE l == Len(es)
             m0 == LastSeq(es)
  <2>3. l \in Nat /\ m0 \in Nat /\ p + l = m0 + i /\ q + l = m0 + j
    BY <1>1, <1>4, <2>1
  <2> HIDE DEF p, q, l, m0
  <2>4. q + i = p + j
    BY <2>1, <2>2, <2>3, SameDistance
  <2> QED BY <2>4 DEF p, q
<1>8. Contiguous(Newest(all))
  BY <1>4, <1>7, NewestContiguous
<1> QED BY <1>8 DEF Restored, all, added

\* The front of what has no gap has none.
LEMMA FrontContiguous ==
  ASSUME NEW r \in Seq(Envelope), NEW s \in Seq(Envelope), Contiguous(r \o s)
  PROVE  Contiguous(r)
<1>1. /\ r \o s \in Seq(Envelope) /\ Len(r \o s) = Len(r) + Len(s)
      /\ \A i \in 1..Len(r) : (r \o s)[i] = r[i]
      /\ Len(r) \in Nat /\ Len(s) \in Nat
  BY ConcatParts
<1>2. \A i \in DOMAIN r : i \in DOMAIN (r \o s) /\ (r \o s)[i] = r[i]
  BY <1>1
<1> QED BY <1>2 DEF Contiguous

\* Appending to the end of a concatenation is appending to its last part.
LEMMA AppendBehind ==
  ASSUME NEW r \in Seq(Envelope), NEW s \in Seq(Envelope), NEW x \in Envelope
  PROVE  r \o Append(s, x) = Append(r \o s, x)
<1> DEFINE a == Append(s, x)
           c == r \o s
           d == r \o a
           b == Append(c, x)
<1>1. /\ a \in Seq(Envelope) /\ Len(a) = Len(s) + 1 /\ Len(s) \in Nat
      /\ \A i \in 1..Len(s) : a[i] = s[i]
      /\ a[Len(s) + 1] = x
  BY AppendParts
<1> HIDE DEF a
<1>2. /\ c \in Seq(Envelope) /\ Len(c) = Len(r) + Len(s) /\ Len(r) \in Nat
      /\ \A i \in 1..Len(r) : c[i] = r[i]
      /\ \A i \in (Len(r) + 1)..(Len(r) + Len(s)) : c[i] = s[i - Len(r)]
  BY ConcatParts
<1> HIDE DEF c
<1>3. /\ d \in Seq(Envelope) /\ Len(d) = Len(r) + Len(a)
      /\ \A i \in 1..Len(r) : d[i] = r[i]
      /\ \A i \in (Len(r) + 1)..(Len(r) + Len(a)) : d[i] = a[i - Len(r)]
  BY <1>1, ConcatParts
<1>4. /\ b \in Seq(Envelope) /\ Len(b) = Len(c) + 1
      /\ \A i \in 1..Len(c) : b[i] = c[i]
      /\ b[Len(c) + 1] = x
  BY <1>2, AppendParts
<1> HIDE DEF b, d
<1>5. Len(d) = Len(b) /\ Len(d) = Len(r) + Len(s) + 1
  BY <1>1, <1>2, <1>3, <1>4
<1>6. ASSUME NEW i \in 1..Len(d)
      PROVE  d[i] = b[i]
  <2>1. CASE i <= Len(r)
    BY <1>1, <1>2, <1>3, <1>4, <2>1
  <2>2. CASE i > Len(r) /\ i <= Len(r) + Len(s)
    <3>1. /\ i \in (Len(r) + 1)..(Len(r) + Len(s)) /\ i - Len(r) \in 1..Len(s)
          /\ i \in (Len(r) + 1)..(Len(r) + Len(a)) /\ i \in 1..Len(c)
      BY <1>1, <1>2, <2>2
    <3> QED BY <1>1, <1>2, <1>3, <1>4, <3>1
  <2>3. CASE i = Len(r) + Len(s) + 1
    <3>1. /\ i \in (Len(r) + 1)..(Len(r) + Len(a)) /\ i - Len(r) = Len(s) + 1
          /\ i = Len(c) + 1
      BY <1>1, <1>2, <2>3
    <3> QED BY <1>1, <1>3, <1>4, <3>1
  <2>4. i \in 1..(Len(r) + Len(s) + 1)
    BY <1>5
  <2> QED BY <1>1, <1>2, <2>1, <2>2, <2>3, <2>4
<1>7. d = b
  BY <1>3, <1>4, <1>5, <1>6, SeqEqual
<1> QED BY <1>7 DEF a, b, c, d

\* Handing the head of one sequence to the end of another keeps the whole.
LEMMA HandOver ==
  ASSUME NEW g \in Seq(Envelope), NEW s \in Seq(Envelope), s # <<>>
  PROVE  Append(g, Head(s)) \o Tail(s) = g \o s
<1> DEFINE h == Head(s)
           t == Tail(s)
           a == Append(g, h)
           b == a \o t
           c == g \o s
<1>1. /\ h \in Envelope /\ h = s[1] /\ t \in Seq(Envelope)
      /\ Len(s) \in Nat /\ Len(s) >= 1 /\ Len(t) = Len(s) - 1
      /\ \A i \in 1..Len(t) : t[i] = s[i + 1]
  BY HeadTailProperties
<1> HIDE DEF h, t
<1>2. /\ a \in Seq(Envelope) /\ Len(a) = Len(g) + 1 /\ Len(g) \in Nat
      /\ \A i \in 1..Len(g) : a[i] = g[i]
      /\ a[Len(g) + 1] = h
  BY <1>1, AppendParts
<1> HIDE DEF a
<1>3. /\ b \in Seq(Envelope) /\ Len(b) = Len(a) + Len(t)
      /\ \A i \in 1..Len(a) : b[i] = a[i]
      /\ \A i \in (Len(a) + 1)..(Len(a) + Len(t)) : b[i] = t[i - Len(a)]
  BY <1>1, <1>2, ConcatParts
<1>4. /\ c \in Seq(Envelope) /\ Len(c) = Len(g) + Len(s)
      /\ \A i \in 1..Len(g) : c[i] = g[i]
      /\ \A i \in (Len(g) + 1)..(Len(g) + Len(s)) : c[i] = s[i - Len(g)]
  BY ConcatParts
<1> HIDE DEF b, c
<1>5. Len(b) = Len(c)
  BY <1>1, <1>2, <1>3, <1>4
<1>6. ASSUME NEW i \in 1..Len(b)
      PROVE  b[i] = c[i]
  <2>1. CASE i <= Len(g)
    BY <1>1, <1>2, <1>3, <1>4, <2>1
  <2>2. CASE i = Len(g) + 1
    <3>1. /\ i \in 1..Len(a) /\ i \in (Len(g) + 1)..(Len(g) + Len(s)) /\ i - Len(g) = 1
      BY <1>1, <1>2, <2>2
    <3> QED BY <1>1, <1>2, <1>3, <1>4, <2>2, <3>1
  <2>3. CASE i > Len(g) + 1
    <3>1. /\ i \in (Len(a) + 1)..(Len(a) + Len(t)) /\ i - Len(a) \in 1..Len(t)
          /\ i \in (Len(g) + 1)..(Len(g) + Len(s)) /\ (i - Len(a)) + 1 = i - Len(g)
      BY <1>1, <1>2, <1>3, <2>3
    <3> QED BY <1>1, <1>3, <1>4, <3>1
  <2> QED BY <1>2, <2>1, <2>2, <2>3
<1>7. b = c
  BY <1>3, <1>4, <1>5, <1>6, SeqEqual
<1> QED BY <1>7 DEF a, b, c, h, t

-----------------------------------------------------------------------------
(* The inductive invariant behind GapFree.                                  *)

\* What a connection was sent, with the snapshot behind it, has no gap, and
\* until the ring overflows neither has what waits in the ring.  An open
\* pipeline ends at the newest event that has been broadcast.
Gapless(c) ==
  /\ Contiguous(got[c] \o replay[c])
  /\ ~lagged[c] => Contiguous(Pipeline(c))
  /\ conn[c] /\ Resting => LastSeq(Pipeline(c)) = seq
  /\ conn[c] /\ ~Resting => LastSeq(Pipeline(c)) + 1 = seq

GapInv == /\ Contiguous(log) /\ Contiguous(file)
          /\ \A c \in Clients : Gapless(c)

LEMMA PipeTypes ==
  ASSUME TypeOK, NEW c \in Clients
  PROVE  /\ got[c] \in Seq(Envelope) /\ replay[c] \in Seq(Envelope)
         /\ live[c] \in Seq(Envelope) /\ got[c] \o replay[c] \in Seq(Envelope)
         /\ Pipeline(c) \in Seq(Envelope)
<1>1. got[c] \in Seq(Envelope) /\ replay[c] \in Seq(Envelope) /\ live[c] \in Seq(Envelope)
  BY DEF TypeOK
<1>2. got[c] \o replay[c] \in Seq(Envelope)
  BY <1>1, ConcatProperties
<1> QED BY <1>1, <1>2, ConcatProperties DEF Pipeline

\* A pipeline whose connection is gone is what it was sent.
LEMMA OnlyGot ==
  ASSUME NEW g \in Seq(Envelope)
  PROVE  g \o <<>> = g /\ g \o <<>> \o <<>> = g
BY ConcatEmptySeq

\* Log and file stay without gaps.
LEMMA LogsStep ==
  ASSUME ~DiskMayFail, WorkInv, GapInv, [Next]_vars
  PROVE  Contiguous(log') /\ Contiguous(file')
<1>0. /\ OrderInv /\ TypeOK /\ Progress
      /\ Contiguous(log) /\ Contiguous(file)
      /\ log \in Seq(Envelope) /\ file \in Seq(Envelope)
  BY DEF WorkInv, OrderInv, TypeOK, GapInv
<1>1. CASE Load
  <2>1. PICK n \in 0..RestoreEvents : \E m \in [1..n -> Msg] :
          log' = Restored(Newest(file), n, m)
    BY <1>1 DEF Load
  <2>2. PICK m \in [1..n -> Msg] : log' = Restored(Newest(file), n, m)
    BY <2>1
  <2>3. n \in Nat /\ Newest(file) \in Seq(Envelope) /\ Contiguous(Newest(file))
    BY <1>0, NewestType, NewestContiguous
  <2>4. Contiguous(log')
    BY <2>2, <2>3, RestoredContiguous
  <2> QED BY <1>0, <1>1, <2>4 DEF Load, diskVars
<1>2. CASE OpenFile \/ RewriteAtBoot \/ \E e \in Emitters : EmitRotate(e)
  <2>1. log' = log /\ (file' = file \/ file' = log)
    BY <1>2 DEF OpenFile, RewriteAtBoot, EmitRotate, RewriteEvents
  <2> QED BY <1>0, <2>1
<1>3. CASE Crash
  BY <1>0, <1>3, EmptyContiguous DEF Crash
<1>4. ASSUME NEW e \in Emitters, EmitPush(e)
      PROVE  Contiguous(log') /\ Contiguous(file')
  <2>1. pc[e] = "push" /\ log' = Newest(Append(log, env[e])) /\ file' = file
        /\ env[e] \in Envelope /\ env[e].seq = seq
    BY <1>0, <1>4, Alone DEF EmitPush, diskVars
  <2>2. LastSeq(log) + 1 = env[e].seq
    BY <1>0, <2>1 DEF Progress
  <2>3. Contiguous(Append(log, env[e])) /\ Append(log, env[e]) \in Seq(Envelope)
    BY <1>0, <2>1, <2>2, AppendContiguous, AppendParts
  <2> QED BY <1>0, <2>1, <2>3, NewestContiguous
<1>5. ASSUME NEW e \in Emitters, EmitAppend(e)
      PROVE  Contiguous(log') /\ Contiguous(file')
  <2>1. pc[e] = "append" /\ log' = log /\ (file' = file \/ file' = Append(file, env[e]))
        /\ env[e] \in Envelope /\ env[e].seq = seq
    BY <1>0, <1>5, Alone DEF EmitAppend, diskVars
  <2>2. LastSeq(file) + 1 = env[e].seq
    BY <1>0, <2>1 DEF Progress
  <2>3. Contiguous(Append(file, env[e]))
    BY <1>0, <2>1, <2>2, AppendContiguous
  <2> QED BY <1>0, <2>1, <2>3
<1>6. CASE \/ \E e \in Emitters : EmitLock(e) \/ EmitApply(e) \/ EmitSend(e)
           \/ \E c \in Clients : Subscribe(c) \/ Serve(c) \/ Disconnect(c)
           \/ UNCHANGED vars
  <2>1. log' = log /\ file' = file
    BY <1>6 DEF EmitLock, EmitApply, EmitSend, Subscribe, Serve, SendReplay, SendLive,
       CloseLagged, Disconnect, Hangup, vars, diskVars
  <2> QED BY <1>0, <2>1
<1> QED
  BY <1>1, <1>2, <1>3, <1>4, <1>5, <1>6 DEF Next, Boot, Emit

\* Steps that leave the connections alone: the counter moves only with the
\* first step of emit, and with a boot, when nobody is connected.
LEMMA GapUntouched ==
  ASSUME NEW c \in Clients, Gapless(c), UNCHANGED <<got[c], replay[c], live[c], lagged[c], conn[c]>>,
         \/ ~conn[c]
         \/ seq' = seq /\ Resting' = Resting
         \/ seq' = seq + 1 /\ Resting /\ ~Resting'
  PROVE  Gapless(c)'
<1>1. Pipeline(c)' = Pipeline(c)
  BY DEF Pipeline
<1> QED BY <1>1 DEF Gapless

\* A broadcast.
LEMMA GapSend ==
  ASSUME WorkInv, NEW e \in Emitters, EmitSend(e), NEW c \in Clients, Gapless(c)
  PROVE  Gapless(c)'
<1>0. TypeOK /\ OrderInv /\ pc[e] = "send"
  BY DEF WorkInv, OrderInv, EmitSend
<1>1. /\ env[e] \in Envelope /\ env[e].seq = seq /\ ~Resting
      /\ \A f \in Emitters : f # e => pc[f] = "idle"
  BY <1>0, Alone
<1>2. /\ UNCHANGED <<seq, conn, replay, got>> /\ Resting'
      /\ lagged'[c] = (lagged[c] \/ (conn[c] /\ Len(live[c]) >= BufCap))
  BY <1>0, <1>1 DEF EmitSend, TypeOK, Resting
<1> DEFINE r == got[c] \o replay[c]
           x == env[e]
<1>3. /\ r \in Seq(Envelope) /\ live[c] \in Seq(Envelope) /\ x \in Envelope
      /\ Pipeline(c) \in Seq(Envelope) /\ Pipeline(c) = r \o live[c]
      /\ Pipeline(c)' = r \o live'[c]
  BY <1>0, <1>1, <1>2, PipeTypes DEF Pipeline
<1>4. Contiguous(r)
  BY DEF Gapless
<1> HIDE DEF r
<1>5. CASE ~conn[c]
  <2>1. live'[c] = live[c] /\ lagged'[c] = lagged[c]
    BY <1>0, <1>2, <1>5 DEF EmitSend, TypeOK
  <2>2. UNCHANGED <<got[c], replay[c], live[c], lagged[c], conn[c]>>
    BY <1>2, <2>1
  <2> QED BY <1>5, <2>2, GapUntouched
<1>6. CASE conn[c] /\ Len(live[c]) < BufCap
  <2>1. live'[c] = Append(live[c], x) /\ lagged'[c] = lagged[c]
    BY <1>0, <1>2, <1>3, <1>6 DEF EmitSend, TypeOK
  <2>2. Pipeline(c)' = Append(Pipeline(c), x)
    BY <1>3, <2>1, AppendBehind, SMTT(20)
  <2>3. LastSeq(Pipeline(c)') = seq
    BY <1>1, <1>3, <2>2, LastOfAppend
  <2>4. ~lagged[c] => Contiguous(Pipeline(c)')
    BY <1>1, <1>3, <1>6, <2>2, AppendContiguous DEF Gapless
  <2>5. got'[c] \o replay'[c] = r
    BY <1>2 DEF r
  <2> QED BY <1>2, <1>4, <2>1, <2>3, <2>4, <2>5 DEF Gapless
<1>7. CASE conn[c] /\ ~(Len(live[c]) < BufCap)
  <2>1. live'[c] = Append(Tail(live[c]), x) /\ live[c] # <<>> /\ lagged'[c]
    BY <1>0, <1>2, <1>3, <1>7 DEF EmitSend, TypeOK
  <2>2. Tail(live[c]) \in Seq(Envelope)
    BY <1>3, <2>1, HeadTailProperties
  <2> DEFINE t == r \o Tail(live[c])
  <2>3. Pipeline(c)' = Append(t, x) /\ t \in Seq(Envelope)
    BY <1>3, <2>1, <2>2, AppendBehind, ConcatProperties
  <2> HIDE DEF t
  <2>4. LastSeq(Pipeline(c)') = seq
    <3>1. LastSeq(Append(t, x)) = x.seq
      BY <1>3, <2>3, LastOfAppend
    <3> QED BY <1>1, <2>3, <3>1
  <2>5. got'[c] \o replay'[c] = r
    BY <1>2 DEF r
  <2> QED BY <1>2, <1>4, <2>1, <2>4, <2>5 DEF Gapless
<1> QED BY <1>5, <1>6, <1>7

\* A connection that ends.
LEMMA GapHangup ==
  ASSUME TypeOK, NEW c \in Clients, Gapless(c),
         ~conn'[c], replay'[c] = <<>>, live'[c] = <<>>, got'[c] = got[c]
  PROVE  Gapless(c)'
<1>1. got[c] \in Seq(Envelope) /\ replay[c] \in Seq(Envelope)
  BY PipeTypes
<1>2. Contiguous(got[c])
  BY <1>1, FrontContiguous DEF Gapless
<1>3. got'[c] \o replay'[c] = got[c] /\ Pipeline(c)' = got[c]
  BY <1>1, OnlyGot DEF Pipeline
<1> QED BY <1>2, <1>3 DEF Gapless

\* A subscription: the snapshot ends at the newest event.
LEMMA GapSubscribe ==
  ASSUME WorkInv, Contiguous(log), NEW c \in Clients, Subscribe(c)
  PROVE  Gapless(c)'
<1>0. TypeOK /\ OrderInv /\ Progress /\ log \in Seq(Envelope)
  BY DEF WorkInv, OrderInv, TypeOK
<1>1. /\ got'[c] = <<>> /\ live'[c] = <<>> /\ replay'[c] = log
      /\ seq' = seq /\ phase = "up" /\ pc' = pc
  BY <1>0 DEF Subscribe, TypeOK, emitVars
<1>2. Resting /\ Resting'
  BY <1>0, <1>1 DEF Subscribe, OrderInv, Locking, Resting
<1>3. <<>> \o log = log /\ log \o <<>> = log
  BY <1>0, ConcatEmptySeq
<1>4. got'[c] \o replay'[c] = log /\ Pipeline(c)' = log
  BY <1>1, <1>3 DEF Pipeline
<1>5. LastSeq(log) = seq
  BY <1>0, <1>1, <1>2 DEF Progress
<1> QED BY <1>1, <1>2, <1>4, <1>5 DEF Gapless

\* The socket task moves an event along its pipeline.
LEMMA GapServe ==
  ASSUME TypeOK, NEW c \in Clients, Gapless(c), SendReplay(c) \/ SendLive(c)
  PROVE  Gapless(c)'
<1>0. /\ got[c] \in Seq(Envelope) /\ replay[c] \in Seq(Envelope) /\ live[c] \in Seq(Envelope)
  BY PipeTypes
<1>1. UNCHANGED <<seq, pc, conn, lagged>> /\ Resting' = Resting
  BY DEF SendReplay, SendLive, emitVars, Resting
<1>2. CASE SendReplay(c)
  <2>1. /\ got'[c] = Append(got[c], Head(replay[c])) /\ replay'[c] = Tail(replay[c])
        /\ replay[c] # <<>> /\ live' = live
    BY <1>2 DEF SendReplay, TypeOK
  <2>2. got'[c] \o replay'[c] = got[c] \o replay[c]
    BY <1>0, <2>1, HandOver
  <2>3. Pipeline(c)' = Pipeline(c)
    BY <2>1, <2>2 DEF Pipeline
  <2> QED BY <1>1, <2>2, <2>3 DEF Gapless
<1>3. CASE SendLive(c)
  <2>1. /\ got'[c] = Append(got[c], Head(live[c])) /\ live'[c] = Tail(live[c])
        /\ live[c] # <<>> /\ replay[c] = <<>> /\ replay' = replay /\ ~lagged[c]
    BY <1>3 DEF SendLive, TypeOK
  <2>2. Head(live[c]) \in Envelope /\ Tail(live[c]) \in Seq(Envelope)
        /\ Append(got[c], Head(live[c])) \in Seq(Envelope)
    BY <1>0, <2>1, HeadTailProperties, AppendProperties
  <2>3. /\ got[c] \o replay[c] = got[c]
        /\ got'[c] \o replay'[c] = Append(got[c], Head(live[c]))
    BY <1>0, <2>1, <2>2, ConcatEmptySeq
  <2>4. Append(got[c], Head(live[c])) \o Tail(live[c]) = got[c] \o live[c]
    BY <1>0, <2>1, HandOver
  <2>5. Pipeline(c)' = Pipeline(c) /\ Pipeline(c) = got[c] \o live[c]
    BY <2>1, <2>3, <2>4 DEF Pipeline
  <2>6. Contiguous(got[c] \o live[c])
    BY <2>1, <2>5 DEF Gapless
  <2>7. Contiguous(Append(got[c], Head(live[c])))
    BY <2>2, <2>4, <2>6, FrontContiguous
  <2> QED BY <1>1, <2>3, <2>5, <2>6, <2>7 DEF Gapless
<1> QED BY <1>2, <1>3

LEMMA GapStep ==
  ASSUME ~DiskMayFail, WorkInv, GapInv, [Next]_vars
  PROVE  GapInv'
<1>0. /\ TypeOK /\ OrderInv /\ Contiguous(log') /\ Contiguous(file')
      /\ \A c \in Clients : Gapless(c)
  BY LogsStep DEF WorkInv, OrderInv, GapInv
<1>1. CASE Boot
  <2>1. phase # "up" /\ UNCHANGED connVars
    BY <1>1 DEF Boot, Load, OpenFile, RewriteAtBoot
  <2>2. \A c \in Clients : ~conn[c]
    BY <1>0, <2>1 DEF OrderInv, PipeBound
  <2> QED BY <1>0, <2>1, <2>2, GapUntouched DEF GapInv, connVars
<1>2. CASE Crash
  BY <1>0, <1>2, GapHangup DEF Crash, GapInv
<1>3. ASSUME NEW e \in Emitters, EmitLock(e)
      PROVE  GapInv'
  <2>1. UNCHANGED connVars /\ seq' = seq + 1 /\ Resting /\ ~Resting'
    BY <1>0, <1>3 DEF EmitLock, OrderInv, Locking, TypeOK, Resting
  <2> QED BY <1>0, <2>1, GapUntouched DEF GapInv, connVars
<1>4. ASSUME NEW e \in Emitters,
             EmitApply(e) \/ EmitPush(e) \/ EmitAppend(e) \/ EmitRotate(e)
      PROVE  GapInv'
  <2>1. UNCHANGED connVars /\ seq' = seq /\ pc[e] # "idle" /\ pc'[e] # "idle"
    BY <1>0, <1>4 DEF EmitApply, EmitPush, EmitAppend, EmitRotate, TypeOK
  <2>2. ~Resting /\ ~Resting'
    BY <2>1 DEF Resting
  <2>3. ASSUME NEW c \in Clients PROVE Gapless(c)'
    <3>1. /\ UNCHANGED <<got[c], replay[c], live[c], lagged[c], conn[c]>>
          /\ seq' = seq /\ Resting' = Resting
      BY <2>1, <2>2 DEF connVars, Resting
    <3> QED BY <1>0, <3>1, GapUntouched
  <2> QED BY <1>0, <2>3 DEF GapInv
<1>5. ASSUME NEW e \in Emitters, EmitSend(e)
      PROVE  GapInv'
  BY <1>0, <1>5, GapSend DEF GapInv
<1>6. ASSUME NEW c \in Clients,
             Subscribe(c) \/ SendReplay(c) \/ SendLive(c) \/ Hangup(c)
      PROVE  GapInv'
  <2>1. /\ seq' = seq /\ pc' = pc /\ Resting' = Resting
        /\ \A d \in Clients : d # c =>
             UNCHANGED <<got[d], replay[d], live[d], lagged[d], conn[d]>>
    BY <1>0, <1>6 DEF Subscribe, SendReplay, SendLive, Hangup, TypeOK, emitVars, Resting
  <2>2. \A d \in Clients : d # c => Gapless(d)'
    BY <1>0, <2>1, GapUntouched
  <2>3. Gapless(c)'
    <3>1. CASE Subscribe(c)
      BY <3>1, GapSubscribe DEF GapInv
    <3>2. CASE SendReplay(c) \/ SendLive(c)
      BY <1>0, <3>2, GapServe
    <3>3. CASE Hangup(c)
      <4>1. ~conn'[c] /\ replay'[c] = <<>> /\ live'[c] = <<>> /\ got'[c] = got[c]
        BY <1>0, <3>3 DEF Hangup, TypeOK
      <4> QED BY <1>0, <4>1, GapHangup
    <3> QED BY <1>6, <3>1, <3>2, <3>3
  <2> QED BY <1>0, <2>2, <2>3 DEF GapInv
<1>7. CASE UNCHANGED vars
  <2>1. UNCHANGED connVars /\ seq' = seq /\ Resting' = Resting
    BY <1>7 DEF vars, emitVars, Resting
  <2> QED BY <1>0, <2>1, GapUntouched DEF GapInv, connVars
<1> QED
  BY <1>1, <1>2, <1>3, <1>4, <1>5, <1>6, <1>7 DEF Next, Emit, Serve, CloseLagged, Disconnect

LEMMA GapInit == Init => GapInv
<1> SUFFICES ASSUME Init PROVE GapInv
  OBVIOUS
<1>1. <<>> \o <<>> = <<>> /\ <<>> \o <<>> \o <<>> = <<>>
  BY OnlyGot
<1>2. ASSUME NEW c \in Clients PROVE Gapless(c)
  BY <1>1, EmptyContiguous DEF Init, Gapless, Pipeline
<1> QED BY <1>2, EmptyContiguous DEF Init, GapInv

LEMMA GapImplies ==
  ASSUME WorkInv, GapInv
  PROVE  GapFree
<1>0. TypeOK /\ OrderInv
  BY DEF WorkInv, OrderInv
<1>1. ASSUME NEW c \in Clients PROVE Contiguous(got[c])
  <2>1. got[c] \in Seq(Envelope) /\ replay[c] \in Seq(Envelope)
    BY <1>0, PipeTypes
  <2> QED BY <2>1, FrontContiguous DEF GapInv, Gapless
<1>2. emitLock = NoOne => Resting
  BY <1>0 DEF OrderInv, Locking, Resting
<1> QED BY <1>1, <1>2 DEF GapFree, GapInv, Gapless

\* While the disk works no number is missing from the log, the file or what a
\* connection is sent, and a connection that lags is closed before it shows a
\* gap, for every capacity of the ring and every cap of the log (emit, subscribe,
\* append_event, Session::restore, handle_socket).
THEOREM NoGaps == Spec => []GapFree
<1>1. Init => (~DiskMayFail => WorkInv /\ GapInv)
  BY WorkInit, GapInit
<1>2. (~DiskMayFail => WorkInv /\ GapInv) /\ [Next]_vars => (~DiskMayFail => WorkInv /\ GapInv)'
  BY WorkStep, GapStep
<1>3. (~DiskMayFail => WorkInv /\ GapInv) => GapFree
  BY GapImplies DEF GapFree
<1> QED BY <1>1, <1>2, <1>3, PTL DEF Spec

-----------------------------------------------------------------------------
(* The pipeline is an EventStream.                                          *)

\* An envelope holds the message that was published under its number.
Public(x, p) == x.seq \in DOMAIN p /\ x.msg = p[x.seq]
AllPublic(s, p) == \A i \in DOMAIN s : Public(s[i], p)

\* So it does if its number has been published.
Known(s, p) == \A i \in DOMAIN s : /\ s[i].seq # 0
                                   /\ s[i].seq <= Len(p) => Public(s[i], p)

\* All that is shown, or on its way to be shown, is public.
ShownPublic(c, p) == /\ AllPublic(got[c], p) /\ AllPublic(replay[c], p)
                     /\ AllPublic(live[c], p)

\* What is published is what the file has held; a boot adds its
\* events behind what is published.
StreamInv ==
  /\ published \in Seq(Msg) /\ Len(published) = LastSeq(file)
  /\ AllPublic(file, published)
  /\ \A c \in Clients : ShownPublic(c, published)
  /\ phase \in {"loaded", "opened"} =>
       Known(log, published) /\ seq <= Len(published) + Len(log)
  /\ \A e \in Emitters :
       /\ pc[e] = "rotate" => AllPublic(log, published)
       /\ pc[e] \in {"rotate", "send"} => Public(env[e], published)

\* What is public stays so.
LEMMA PublicStays ==
  ASSUME NEW p \in Seq(Msg), NEW q \in Seq(Msg)
  PROVE  /\ p \o q \in Seq(Msg) /\ Len(p \o q) = Len(p) + Len(q)
         /\ \A i \in 1..Len(p) : (p \o q)[i] = p[i]
         /\ \A x : Public(x, p) => Public(x, p \o q)
         /\ \A s : AllPublic(s, p) => AllPublic(s, p \o q)
<1>1. /\ p \o q \in Seq(Msg) /\ Len(p \o q) = Len(p) + Len(q)
      /\ Len(p) \in Nat /\ Len(q) \in Nat
      /\ DOMAIN p = 1..Len(p) /\ DOMAIN (p \o q) = 1..(Len(p) + Len(q))
      /\ \A i \in 1..(Len(p) + Len(q)) :
           (p \o q)[i] = IF i <= Len(p) THEN p[i] ELSE q[i - Len(p)]
  BY ConcatProperties
<1>2. ASSUME NEW i \in 1..Len(p) PROVE i \in 1..(Len(p) + Len(q)) /\ (p \o q)[i] = p[i]
  BY <1>1
<1>3. ASSUME NEW x, Public(x, p) PROVE Public(x, p \o q)
  BY <1>1, <1>2, <1>3 DEF Public
<1> QED BY <1>1, <1>2, <1>3 DEF AllPublic

\* Appending, draining, taking from the front.
LEMMA PublicParts ==
  ASSUME NEW s \in Seq(Envelope), NEW p, AllPublic(s, p)
  PROVE  /\ \A x \in Envelope : Public(x, p) => AllPublic(Append(s, x), p)
         /\ AllPublic(Newest(s), p)
         /\ s # <<>> => Public(Head(s), p) /\ AllPublic(Tail(s), p)
<1>1. ASSUME NEW x \in Envelope, Public(x, p) PROVE AllPublic(Append(s, x), p)
  <2>1. /\ DOMAIN Append(s, x) = 1..(Len(s) + 1) /\ DOMAIN s = 1..Len(s) /\ Len(s) \in Nat
        /\ \A i \in 1..Len(s) : Append(s, x)[i] = s[i]
        /\ Append(s, x)[Len(s) + 1] = x
    BY AppendParts
  <2>2. ASSUME NEW i \in 1..(Len(s) + 1) PROVE Public(Append(s, x)[i], p)
    <3>1. i = Len(s) + 1 \/ i \in 1..Len(s)
      BY <2>1
    <3> QED BY <1>1, <2>1, <3>1 DEF AllPublic
  <2> QED BY <2>1, <2>2 DEF AllPublic
<1>2. AllPublic(Newest(s), p)
  <2>1. /\ Newest(s) \in Seq(Envelope) /\ DOMAIN s = 1..Len(s)
        /\ \A i \in 1..Len(Newest(s)) :
             /\ Len(s) - Len(Newest(s)) + i \in 1..Len(s)
             /\ Newest(s)[i] = s[Len(s) - Len(Newest(s)) + i]
    BY NewestElements
  <2>2. DOMAIN Newest(s) = 1..Len(Newest(s))
    BY <2>1
  <2>3. ASSUME NEW i \in 1..Len(Newest(s)) PROVE Public(Newest(s)[i], p)
    BY <2>1 DEF AllPublic
  <2> QED BY <2>2, <2>3 DEF AllPublic
<1>3. ASSUME s # <<>> PROVE Public(Head(s), p) /\ AllPublic(Tail(s), p)
  <2>1. Head(s) = s[1] /\ 1 \in DOMAIN s
    BY <1>3
  <2>2. /\ DOMAIN Tail(s) = 1..Len(Tail(s))
        /\ \A i \in 1..Len(Tail(s)) : Tail(s)[i] = s[i + 1] /\ i + 1 \in DOMAIN s
    BY <1>3
  <2> QED BY <2>1, <2>2 DEF AllPublic
<1> QED BY <1>1, <1>2, <1>3

\* What restore makes of the file is known.
LEMMA RestoredKnown ==
  ASSUME NEW es \in Seq(Envelope), NEW n \in 0..RestoreEvents, NEW m \in [1..n -> Msg],
         NEW p \in Seq(Msg), AllPublic(es, p), LastSeq(es) = Len(p), RestoreEvents <= LogCap
  PROVE  Known(Restored(es, n, m), p) /\ n <= Len(Restored(es, n, m))
<1> DEFINE added == [i \in 1..n |-> [seq |-> LastSeq(es) + i, msg |-> m[i]]]
           all == es \o added
           t == Newest(all)
<1>1. LastSeq(es) \in Nat /\ n \in Nat /\ n <= LogCap /\ Len(es) \in Nat /\ LogCap \in Nat
  BY LastSeqType
<1>2. \A i \in 1..n : [seq |-> LastSeq(es) + i, msg |-> m[i]] \in Envelope
  BY <1>1 DEF Envelope
<1>3. /\ added \in Seq(Envelope) /\ Len(added) = n
      /\ \A i \in 1..n : added[i].seq = LastSeq(es) + i
  BY <1>1, <1>2
<1>4. Restored(es, n, m) = t
  BY DEF Restored
<1> HIDE DEF added
<1>5. /\ all \in Seq(Envelope) /\ Len(all) = Len(es) + n
      /\ \A i \in 1..Len(es) : all[i] = es[i]
      /\ \A i \in (Len(es) + 1)..(Len(es) + n) : all[i] = added[i - Len(es)]
  BY <1>3, ConcatParts
<1> HIDE DEF all
<1>6. ASSUME NEW i \in 1..Len(all)
      PROVE  all[i].seq # 0 /\ (all[i].seq <= Len(p) => Public(all[i], p))
  <2>1. CASE i <= Len(es)
    <3>1. i \in DOMAIN es /\ all[i] = es[i]
      BY <1>1, <1>5, <2>1
    <3>2. Public(es[i], p)
      BY <3>1 DEF AllPublic
    <3>3. 0 \notin DOMAIN p
      OBVIOUS
    <3> QED BY <3>1, <3>2, <3>3 DEF Public
  <2>2. CASE ~(i <= Len(es))
    <3>1. i - Len(es) \in 1..n /\ i \in (Len(es) + 1)..(Len(es) + n)
      BY <1>1, <1>5, <2>2
    <3>2. all[i].seq = Len(p) + (i - Len(es))
      BY <1>3, <1>5, <3>1
    <3> DEFINE x == all[i].seq
               d == i - Len(es)
    <3>3. x = Len(p) + d /\ d \in Nat /\ d >= 1 /\ Len(p) \in Nat
      BY <3>1, <3>2
    <3> HIDE DEF x, d
    <3>4. x # 0 /\ ~(x <= Len(p))
      BY <3>3
    <3> QED BY <3>4 DEF x
  <2> QED BY <2>1, <2>2
<1>7. /\ t \in Seq(Envelope)
      /\ Len(t) = IF Len(all) <= LogCap THEN Len(all) ELSE LogCap
      /\ \A i \in 1..Len(t) : /\ Len(all) - Len(t) + i \in 1..Len(all)
                              /\ t[i] = all[Len(all) - Len(t) + i]
  BY <1>5, NewestElements
<1> HIDE DEF t
<1>8. n <= Len(t)
  BY <1>1, <1>5, <1>7
<1>9. ASSUME NEW i \in DOMAIN t
      PROVE  t[i].seq # 0 /\ (t[i].seq <= Len(p) => Public(t[i], p))
  <2>1. i \in 1..Len(t)
    BY <1>7
  <2> QED BY <1>6, <1>7, <2>1
<1> QED BY <1>4, <1>8, <1>9 DEF Known

\* The messages that a boot publishes: those of the log from the first number
\* that is not public yet.
LEMMA BootPublishes ==
  ASSUME NEW p \in Seq(Msg), log \in Seq(Envelope), Contiguous(log), seq \in Nat,
         LastSeq(log) = seq, Len(p) <= seq, seq <= Len(p) + Len(log), Known(log, p)
  PROVE  /\ NewestMessages(seq - Len(p)) \in Seq(Msg)
         /\ Len(NewestMessages(seq - Len(p))) = seq - Len(p)
         /\ AllPublic(log, p \o NewestMessages(seq - Len(p)))
<1> DEFINE k == Len(p)
           l == Len(log)
           n == seq - k
           q == NewestMessages(n)
<1>1. k \in Nat /\ l \in Nat /\ n \in Nat /\ n <= l /\ k + n = seq /\ DOMAIN log = 1..l
  <2>1. k \in Nat /\ l \in Nat /\ DOMAIN log = 1..l
    OBVIOUS
  <2>2. k <= seq /\ seq <= k + l
    OBVIOUS
  <2> HIDE DEF k, l
  <2> QED BY <2>1, <2>2
<1>2. q = [i \in 1..n |-> log[l - n + i].msg]
  BY DEF NewestMessages
<1> HIDE DEF k, l, n, q
<1>3. ASSUME NEW i \in 1..n PROVE l - n + i \in 1..l /\ log[l - n + i].msg \in Msg
  <2>1. l - n + i \in 1..l
    BY <1>1
  <2>2. log[l - n + i] \in Envelope
    BY <1>1, <2>1
  <2> QED BY <2>1, <2>2 DEF Envelope
<1>4. q \in Seq(Msg) /\ Len(q) = n
  <2>1. \A i \in 1..n : log[l - n + i].msg \in Msg
    BY <1>3
  <2>2. q \in [1..n -> Msg]
    BY <1>2, <2>1
  <2> QED BY <1>1, <2>2
<1>5. \A i \in 1..l : log[i].seq + l = seq + i
  BY GapFreeFromLast DEF l
<1>6. /\ DOMAIN (p \o q) = 1..(k + n)
      /\ \A x \in 1..(k + n) : (p \o q)[x] = IF x <= k THEN p[x] ELSE q[x - k]
  <2>1. k = Len(p)
    BY DEF k
  <2>2. p \o q \in Seq(Msg) /\ Len(p \o q) = k + n
    BY <1>4, <2>1, ConcatProperties
  <2>3. \A x \in 1..(k + n) : (p \o q)[x] = IF x <= k THEN p[x] ELSE q[x - k]
    BY <1>4, <2>1, ConcatProperties
  <2> QED BY <2>2, <2>3
<1>7. ASSUME NEW i \in 1..l PROVE Public(log[i], p \o q)
  <2>1. log[i].seq \in Nat /\ log[i].seq # 0
    BY <1>1, Numbered DEF Known
  <2>2. CASE log[i].seq <= k
    <3>1. Public(log[i], p)
      BY <1>1, <2>2 DEF Known, k
    <3> QED BY <1>4, <3>1, PublicStays
  <2>3. CASE ~(log[i].seq <= k)
    <3> DEFINE y == log[i].seq
               j == y - k
    <3>1. y + l = seq + i /\ y \in Nat /\ ~(y <= k)
      BY <1>5, <2>1, <2>3
    <3> HIDE DEF y
    <3>2. j \in 1..n /\ l - n + j = i /\ y = k + j /\ y \in 1..(k + n)
      BY <1>1, <3>1
    <3> HIDE DEF j
    <3>3. q[j] = log[i].msg
      <4>1. q[j] = log[l - n + j].msg
        BY <1>2, <3>2
      <4> QED BY <3>2, <4>1
    <3>4. (p \o q)[y] = q[j]
      BY <1>6, <3>1, <3>2 DEF j
    <3> QED BY <1>6, <3>2, <3>3, <3>4 DEF Public, y
  <2> QED BY <2>2, <2>3
<1> QED BY <1>1, <1>4, <1>7 DEF AllPublic, q, n, k

LEMMA StreamUntouched ==
  ASSUME StreamInv, UNCHANGED <<phase, seq, log, file, pc, env, published>>,
         \A c \in Clients : ShownPublic(c, published)'
  PROVE  StreamInv'
BY DEF StreamInv

\* Only an append and the rewriting boot publish.
LEMMA NotPublished ==
  ASSUME Publication, ~(phase = "opened" /\ phase' = "up"),
         \A e \in Emitters : ~(pc[e] = "append" /\ pc'[e] # "append")
  PROVE  published' = published
BY DEF Publication

\* The steps that move or drop what a connection is shown.
LEMMA ShownMoves ==
  ASSUME TypeOK, NEW c \in Clients, ShownPublic(c, published), published' = published,
         SendReplay(c) \/ SendLive(c) \/ Hangup(c)
  PROVE  ShownPublic(c, published)'
<1>0. /\ got[c] \in Seq(Envelope) /\ replay[c] \in Seq(Envelope) /\ live[c] \in Seq(Envelope)
      /\ AllPublic(got[c], published) /\ AllPublic(replay[c], published)
      /\ AllPublic(live[c], published)
  BY DEF TypeOK, ShownPublic
<1>1. ASSUME NEW s \in Seq(Envelope), s # <<>>, AllPublic(s, published)
      PROVE  /\ AllPublic(Append(got[c], Head(s)), published)
             /\ AllPublic(Tail(s), published)
  <2>1. Head(s) \in Envelope /\ Public(Head(s), published) /\ AllPublic(Tail(s), published)
    BY <1>1, PublicParts, HeadTailProperties
  <2> QED BY <1>0, <2>1, PublicParts
<1>2. CASE SendReplay(c)
  <2>1. /\ got'[c] = Append(got[c], Head(replay[c])) /\ replay'[c] = Tail(replay[c])
        /\ replay[c] # <<>> /\ live'[c] = live[c]
    BY <1>2 DEF SendReplay, TypeOK
  <2> QED BY <1>0, <1>1, <2>1 DEF ShownPublic
<1>3. CASE SendLive(c)
  <2>1. /\ got'[c] = Append(got[c], Head(live[c])) /\ live'[c] = Tail(live[c])
        /\ live[c] # <<>> /\ replay'[c] = replay[c]
    BY <1>3 DEF SendLive, TypeOK
  <2> QED BY <1>0, <1>1, <2>1 DEF ShownPublic
<1>4. CASE Hangup(c)
  <2>1. got'[c] = got[c] /\ replay'[c] = <<>> /\ live'[c] = <<>>
    BY <1>4 DEF Hangup, TypeOK
  <2>2. AllPublic(<<>>, published)
    BY DEF AllPublic
  <2> QED BY <1>0, <2>1, <2>2 DEF ShownPublic
<1> QED BY <1>2, <1>3, <1>4

\* Every step keeps the invariant.
LEMMA StreamStep ==
  ASSUME ~DiskMayFail, WorkInv, GapInv, StreamInv, [HNext]_<<vars, published>>
  PROVE  StreamInv'
<1>0. /\ OrderInv /\ TypeOK /\ Progress /\ Handle /\ OnDisk
      /\ published \in Seq(Msg) /\ Len(published) = LastSeq(file)
      /\ log \in Seq(Envelope) /\ file \in Seq(Envelope) /\ seq \in Nat
      /\ pc \in [Emitters -> Steps] /\ env \in [Emitters -> Envelope]
      /\ AllPublic(file, published)
      /\ \A c \in Clients : ShownPublic(c, published)
  BY DEF WorkInv, OrderInv, TypeOK, StreamInv
<1>1. CASE Load /\ Publication
  <2>0. PICK n \in 0..RestoreEvents : \E m \in [1..n -> Msg] :
          log' = Restored(Newest(file), n, m)
    BY <1>1 DEF Load
  <2>1. PICK m \in [1..n -> Msg] : log' = Restored(Newest(file), n, m)
    BY <2>0
  <2>2. /\ phase = "down" /\ phase' = "loaded" /\ seq' = LastSeq(log') /\ Resting
        /\ UNCHANGED <<file, pc, env, got, replay, live>>
    BY <1>0, <1>1, BootRests DEF Load, emitVars, diskVars, connVars
  <2>3. published' = published
    BY <1>1, <2>2, NotPublished
  <2>4. n \in Nat /\ Newest(file) \in Seq(Envelope) /\ Ascending(file)
    BY <1>0, NewestType DEF OrderInv, LogOrder
  <2>5. /\ Ascending(Newest(file)) /\ LastSeq(Newest(file)) = Len(published)
        /\ AllPublic(Newest(file), published)
    BY <1>0, <2>4, NewestAscending, PublicParts
  <2>6. Known(log', published) /\ n <= Len(log')
    BY <1>0, <2>1, <2>4, <2>5, RestoredKnown, RestoreAssumption
  <2>7. seq' = Len(published) + n
    BY <2>1, <2>2, <2>4, <2>5, RestoredAscending
  <2>8. log' \in Seq(Envelope)
    BY <2>1, <2>4, RestoredType
  <2>9. seq' <= Len(published) + Len(log')
    BY <1>0, <2>4, <2>6, <2>7, <2>8
  <2> QED BY <1>0, <2>2, <2>3, <2>6, <2>9 DEF StreamInv, ShownPublic, Resting
<1>2. CASE OpenFile /\ Publication
  <2>1. /\ phase = "loaded" /\ phase' \in {"up", "opened"} /\ Resting
        /\ UNCHANGED <<seq, log, file, pc, env, got, replay, live>>
    BY <1>0, <1>2, BootRests DEF OpenFile, emitVars, connVars
  <2>2. published' = published
    BY <1>2, <2>1, NotPublished
  <2> QED BY <1>0, <2>1, <2>2 DEF StreamInv, ShownPublic, Resting
<1>3. CASE RewriteAtBoot /\ Publication
  <2>1. /\ phase = "opened" /\ phase' = "up" /\ file' = log /\ Resting
        /\ UNCHANGED <<seq, log, pc, env, got, replay, live>>
    BY <1>0, <1>3, BootRests DEF RewriteAtBoot, RewriteEvents, emitVars, connVars
  <2> DEFINE q == NewestMessages(seq - Len(published))
  <2>2. published' = published \o q
    BY <1>3, <2>1 DEF Publication
  <2>3. LastSeq(log) = seq /\ Len(published) <= seq /\ Contiguous(log)
    BY <1>0, <2>1 DEF Progress, GapInv
  <2>4. Known(log, published) /\ seq <= Len(published) + Len(log)
    BY <2>1 DEF StreamInv
  <2>5. q \in Seq(Msg) /\ Len(q) = seq - Len(published) /\ AllPublic(log, published \o q)
    BY <1>0, <2>3, <2>4, BootPublishes
  <2> HIDE DEF q
  <2>6. /\ published' \in Seq(Msg) /\ Len(published') = seq
        /\ \A s : AllPublic(s, published) => AllPublic(s, published')
    <3>1. Len(published') = Len(published) + Len(q) /\ published' \in Seq(Msg)
      BY <1>0, <2>2, <2>5, PublicStays
    <3>2. Len(published') = seq
      BY <1>0, <2>3, <2>5, <3>1
    <3>3. \A s : AllPublic(s, published) => AllPublic(s, published')
      BY <1>0, <2>2, <2>5, PublicStays
    <3> QED BY <3>1, <3>2, <3>3
  <2>7. \A c \in Clients : ShownPublic(c, published)'
    BY <1>0, <2>1, <2>6 DEF ShownPublic
  <2> QED BY <1>0, <2>1, <2>2, <2>3, <2>5, <2>6, <2>7 DEF StreamInv, Resting
<1>4. CASE Crash /\ Publication
  <2>1. /\ phase' = "down" /\ file' = file /\ got' = got
        /\ \A e \in Emitters : pc'[e] = "idle"
        /\ \A c \in Clients : replay'[c] = <<>> /\ live'[c] = <<>>
    BY <1>4 DEF Crash
  <2>2. published' = published
    BY <1>4, <2>1 DEF Publication
  <2>3. AllPublic(<<>>, published)
    BY DEF AllPublic
  <2>4. \A c \in Clients : ShownPublic(c, published)'
    BY <1>0, <2>1, <2>2, <2>3 DEF ShownPublic
  <2> QED BY <1>0, <2>1, <2>2, <2>4 DEF StreamInv
<1>5. ASSUME NEW e \in Emitters, EmitLock(e) \/ EmitApply(e) \/ EmitPush(e), Publication
      PROVE  StreamInv'
  <2>1. /\ phase' = phase /\ phase = "up" /\ UNCHANGED <<file, got, replay, live>>
        /\ \A f \in Emitters : f # e => pc[f] = "idle"
        /\ pc[e] \in {"idle", "apply", "push"}
    <3>1. CASE EmitLock(e)
      BY <1>0, <3>1 DEF EmitLock, OrderInv, Locking, diskVars, connVars
    <3>2. CASE EmitApply(e) \/ EmitPush(e)
      BY <1>0, <3>2, Alone DEF EmitApply, EmitPush, diskVars, connVars
    <3> QED BY <1>5, <3>1, <3>2
  <2>2. /\ \A f \in Emitters : f # e => pc'[f] = "idle"
        /\ pc'[e] \in {"apply", "push", "append"}
    BY <1>0, <1>5, <2>1 DEF EmitLock, EmitApply, EmitPush
  <2>3. published' = published
    BY <1>5, <2>1, NotPublished
  <2>4. \A f \in Emitters : pc'[f] \notin {"rotate", "send"}
    BY <2>2
  <2>5. \A c \in Clients : ShownPublic(c, published)'
    BY <1>0, <2>1, <2>3 DEF ShownPublic
  <2> QED BY <1>0, <2>1, <2>3, <2>4, <2>5 DEF StreamInv
<1>6. ASSUME NEW e \in Emitters, EmitAppend(e), Publication
      PROVE  StreamInv'
  <2>1. /\ phase = "up" /\ phase' = "up" /\ env[e].seq = seq /\ env[e] \in Envelope
        /\ pc[e] = "append" /\ emitLock = e
        /\ UNCHANGED <<seq, log, env, got, replay, live>>
        /\ \A f \in Emitters : f # e => pc[f] = "idle"
    BY <1>0, <1>6, Alone DEF EmitAppend, connVars
  <2>2. writer = "file"
    BY <1>0, <2>1 DEF Handle
  <2>3. /\ file' = Append(file, env[e])
        /\ \/ pc' = [pc EXCEPT ![e] = "send"]
           \/ pc' = [pc EXCEPT ![e] = "rotate"]
    BY <1>6, <2>2 DEF EmitAppend, diskVars
  <2>4. pc'[e] \in {"send", "rotate"} /\ \A f \in Emitters : f # e => pc'[f] = "idle"
    BY <1>0, <2>1, <2>3
  <2>5. published' = Append(published, env[e].msg)
    BY <1>6, <2>1, <2>4 DEF Publication
  <2>6. Len(published) + 1 = seq /\ env[e].msg \in Msg
    BY <1>0, <2>1 DEF Progress, Envelope
  <2>7. /\ published' \in Seq(Msg) /\ Len(published') = seq /\ published'[seq] = env[e].msg
        /\ \A s : AllPublic(s, published) => AllPublic(s, published')
    <3>1. <<env[e].msg>> \in Seq(Msg) /\ Len(<<env[e].msg>>) = 1
      BY <2>6
    <3>2. published' = published \o <<env[e].msg>>
      BY <1>0, <2>5, <2>6, <3>1
    <3>3. \A s : AllPublic(s, published) => AllPublic(s, published')
      BY <1>0, <3>1, <3>2, PublicStays
    <3> QED BY <1>0, <2>5, <2>6, <3>3
  <2>8. Public(env[e], published')
    BY <1>0, <2>1, <2>6, <2>7 DEF Public
  <2>9. /\ AllPublic(file', published') /\ file' \in Seq(Envelope) /\ LastSeq(file') = seq
        /\ log' = Newest(file')
    BY <1>0, <2>1, <2>3, <2>7, <2>8, PublicParts, AppendParts, LastOfAppend DEF OnDisk
  <2>10. AllPublic(log', published')
    BY <2>9, PublicParts
  <2>11. \A c \in Clients : ShownPublic(c, published)'
    BY <1>0, <2>1, <2>7 DEF ShownPublic
  <2>12. \A f \in Emitters : pc'[f] \in {"rotate", "send"} => f = e
    BY <2>4
  <2> QED BY <2>1, <2>7, <2>8, <2>9, <2>10, <2>11, <2>12 DEF StreamInv
<1>7. ASSUME NEW e \in Emitters, EmitRotate(e), Publication
      PROVE  StreamInv'
  <2>1. /\ phase = "up" /\ phase' = "up" /\ pc[e] = "rotate" /\ file' = log
        /\ pc' = [pc EXCEPT ![e] = "send"]
        /\ UNCHANGED <<seq, log, env, got, replay, live>>
        /\ \A f \in Emitters : f # e => pc[f] = "idle"
    BY <1>0, <1>7, Alone DEF EmitRotate, RewriteEvents, connVars
  <2>2. pc'[e] = "send" /\ \A f \in Emitters : f # e => pc'[f] = "idle"
    BY <1>0, <2>1
  <2>3. published' = published
    BY <1>7, <2>1, NotPublished
  <2>4. LastSeq(file') = LastSeq(file)
    BY <1>0, <2>1 DEF Progress
  <2>5. AllPublic(log, published) /\ Public(env[e], published)
    BY <2>1 DEF StreamInv
  <2>6. \A c \in Clients : ShownPublic(c, published)'
    BY <1>0, <2>1, <2>3 DEF ShownPublic
  <2> QED BY <1>0, <2>1, <2>2, <2>3, <2>4, <2>5, <2>6 DEF StreamInv
<1>8. ASSUME NEW e \in Emitters, EmitSend(e), Publication
      PROVE  StreamInv'
  <2>1. /\ phase = "up" /\ phase' = "up" /\ pc[e] = "send" /\ env[e] \in Envelope
        /\ pc' = [pc EXCEPT ![e] = "idle"]
        /\ UNCHANGED <<seq, log, file, got, replay>>
        /\ \A f \in Emitters : f # e => pc[f] = "idle"
    BY <1>0, <1>8, Alone DEF EmitSend, diskVars
  <2>2. \A f \in Emitters : pc'[f] = "idle"
    BY <1>0, <2>1
  <2>3. published' = published
    BY <1>8, <2>1, NotPublished
  <2>4. Public(env[e], published)
    BY <2>1 DEF StreamInv
  <2>5. ASSUME NEW c \in Clients PROVE AllPublic(live'[c], published)
    <3>1. live[c] \in Seq(Envelope) /\ AllPublic(live[c], published)
      BY <1>0 DEF ShownPublic, TypeOK
    <3>2. CASE ~conn[c]
      BY <1>8, <3>1, <3>2 DEF EmitSend
    <3>3. CASE conn[c] /\ Len(live[c]) < BufCap
      <4>1. live'[c] = Append(live[c], env[e])
        BY <1>8, <3>3 DEF EmitSend
      <4> QED BY <2>1, <2>4, <3>1, <4>1, PublicParts
    <3>4. CASE conn[c] /\ ~(Len(live[c]) < BufCap)
      <4>1. live'[c] = Append(Tail(live[c]), env[e])
        BY <1>8, <3>4 DEF EmitSend
      <4>2. live[c] # <<>>
        BY <3>4
      <4>3. Tail(live[c]) \in Seq(Envelope) /\ AllPublic(Tail(live[c]), published)
        BY <3>1, <4>2, PublicParts, HeadTailProperties
      <4> QED BY <2>1, <2>4, <4>1, <4>3, PublicParts
    <3> QED BY <3>2, <3>3, <3>4
  <2>6. \A c \in Clients : ShownPublic(c, published)'
    BY <1>0, <2>1, <2>3, <2>5 DEF ShownPublic
  <2> QED BY <1>0, <2>1, <2>2, <2>3, <2>6 DEF StreamInv
<1>9. ASSUME NEW c \in Clients, Subscribe(c) \/ Serve(c) \/ Disconnect(c), Publication
      PROVE  StreamInv'
  <2>1. UNCHANGED <<phase, seq, log, file, pc, env, emitLock>>
    BY <1>9 DEF Subscribe, Serve, SendReplay, SendLive, CloseLagged, Disconnect, Hangup,
                emitVars, diskVars
  <2>2. published' = published
    BY <1>9, <2>1, NotPublished
  <2>3. ShownPublic(c, published)'
    <3>1. CASE Subscribe(c)
      <4>1. /\ got'[c] = <<>> /\ live'[c] = <<>> /\ replay'[c] = log
            /\ phase = "up" /\ emitLock = NoOne
        BY <1>0, <3>1 DEF Subscribe, TypeOK
      <4>2. Newest(file) = log
        BY <1>0, <4>1 DEF OnDisk, OrderInv, Locking
      <4>3. AllPublic(log, published) /\ AllPublic(<<>>, published)
        BY <1>0, <4>2, PublicParts DEF AllPublic
      <4> QED BY <2>2, <4>1, <4>3 DEF ShownPublic
    <3>2. CASE SendReplay(c) \/ SendLive(c) \/ Hangup(c)
      BY <1>0, <2>2, <3>2, ShownMoves
    <3> QED BY <1>9, <3>1, <3>2 DEF Serve, CloseLagged, Disconnect
  <2>4. ASSUME NEW d \in Clients, d # c PROVE ShownPublic(d, published)'
    <3>1. UNCHANGED <<got[d], replay[d], live[d]>>
      BY <1>0, <1>9, <2>4 DEF Subscribe, Serve, SendReplay, SendLive, CloseLagged,
                              Disconnect, Hangup, TypeOK
    <3> QED BY <1>0, <2>2, <3>1 DEF ShownPublic
  <2> QED BY <2>1, <2>2, <2>3, <2>4, StreamUntouched
<1>10. CASE UNCHANGED <<vars, published>>
  <2>1. \A c \in Clients : ShownPublic(c, published)'
    BY <1>0, <1>10 DEF vars, connVars, ShownPublic
  <2> QED BY <1>10, <2>1, StreamUntouched DEF vars, emitVars, diskVars
<1> QED
  BY <1>1, <1>2, <1>3, <1>4, <1>5, <1>6, <1>7, <1>8, <1>9, <1>10
  DEF HNext, Next, Boot, Emit

LEMMA StreamInit == HInit => StreamInv
<1> SUFFICES ASSUME HInit PROVE StreamInv
  OBVIOUS
<1>1. <<>> \in Seq(Msg) /\ Len(<<>>) = 0 /\ LastSeq(<<>>) = 0 /\ \A p : AllPublic(<<>>, p)
  BY DEF LastSeq, AllPublic
<1> QED BY <1>1 DEF HInit, Init, StreamInv, ShownPublic

\* A message behind the last one shown.
LEMMA ShowsNext ==
  ASSUME NEW g \in Seq(Envelope), NEW s \in Seq(Envelope), s # <<>>,
         Contiguous(g \o s)
  PROVE  g = <<>> \/ Head(s).seq = Stream!Last(g).seq + 1
<1>1. CASE g # <<>>
  <2>1. /\ Len(g) \in Nat /\ Len(g) >= 1 /\ Len(s) \in Nat /\ Len(s) >= 1
        /\ g \o s \in Seq(Envelope) /\ Len(g \o s) = Len(g) + Len(s)
        /\ (g \o s)[Len(g)] = g[Len(g)] /\ (g \o s)[Len(g) + 1] = s[1]
    BY <1>1, ConcatProperties
  <2>2. Len(g) \in DOMAIN (g \o s) /\ Len(g) + 1 \in DOMAIN (g \o s)
    BY <2>1
  <2>3. s[1].seq + Len(g) = g[Len(g)].seq + (Len(g) + 1)
    BY <2>1, <2>2 DEF Contiguous
  <2>4. s[1].seq \in Nat /\ g[Len(g)].seq \in Nat
    BY <2>1, Numbered
  <2> QED BY <2>1, <2>3, <2>4 DEF Stream!Last
<1> QED BY <1>1

\* The event that is sent is the stream's message of its number.
LEMMA SendsStream ==
  ASSUME NEW c \in Clients, NEW x \in Envelope, Public(x, published),
         got[c] = <<>> \/ x.seq = Stream!Last(got[c]).seq + 1,
         got' = [got EXCEPT ![c] = Append(@, x)], published' = published
  PROVE  Stream!Send(c)
<1>1. x.seq \in DOMAIN published /\ x = [seq |-> x.seq, msg |-> published[x.seq]]
  BY DEF Public, Envelope
<1> QED BY <1>1 DEF Stream!Send

\* Publishing behind what is there.
LEMMA PublishesBehind ==
  ASSUME published \in Seq(Msg), NEW q \in Seq(Msg), published' = published \o q,
         got' = got
  PROVE  [Stream!Next]_(Stream!vars)
<1>1. CASE q = <<>>
  BY <1>1, ConcatEmptySeq DEF Stream!vars
<1>2. CASE q # <<>>
  <2>1. /\ published' \in Seq(Msg) /\ Len(published') = Len(published) + Len(q)
        /\ \A i \in 1..Len(published) : published'[i] = published[i]
        /\ Len(published) \in Nat /\ Len(q) \in Nat /\ Len(q) >= 1
    BY <1>2, PublicStays
  <2>2. SubSeq(published, 1, Len(published)) = SubSeq(published', 1, Len(published))
    BY <2>1
  <2>3. Len(published) <= Len(published') /\ published # published'
    BY <2>1
  <2>4. Stream!IsStrictPrefix(published, published')
    BY <2>2, <2>3 DEF Stream!IsStrictPrefix, Stream!IsPrefix
  <2> QED BY <2>1, <2>4 DEF Stream!Publish, Stream!Next
<1> QED BY <1>1, <1>2

\* Every step of the pipeline is a step of the stream, or none.
LEMMA StreamSimulation ==
  ASSUME ~DiskMayFail, WorkInv, GapInv, StreamInv, [HNext]_<<vars, published>>
  PROVE  [Stream!Next]_(Stream!vars)
<1>0. /\ OrderInv /\ TypeOK /\ Progress /\ Handle
      /\ published \in Seq(Msg) /\ Len(published) = LastSeq(file)
      /\ log \in Seq(Envelope) /\ seq \in Nat /\ got \in [Clients -> Seq(Envelope)]
      /\ \A c \in Clients : ShownPublic(c, published) /\ Gapless(c)
  BY DEF WorkInv, OrderInv, TypeOK, StreamInv, GapInv
<1>1. CASE (Load \/ OpenFile \/ Crash) /\ Publication
  <2>1. got' = got
    BY <1>1 DEF Load, OpenFile, Crash, connVars
  <2>2. published' = published
    BY <1>1 DEF Load, OpenFile, Crash, Publication
  <2> QED BY <2>1, <2>2 DEF Stream!vars
<1>2. ASSUME NEW e \in Emitters, Publication,
             EmitLock(e) \/ EmitApply(e) \/ EmitPush(e) \/ EmitRotate(e) \/ EmitSend(e)
      PROVE  [Stream!Next]_(Stream!vars)
  <2>1. got' = got /\ phase = "up"
    BY <1>0, <1>2, Alone DEF EmitLock, EmitApply, EmitPush, EmitRotate, EmitSend, connVars
  <2>2. pc[e] # "append" /\ \A f \in Emitters : f # e => pc'[f] = pc[f]
    BY <1>0, <1>2 DEF EmitLock, EmitApply, EmitPush, EmitRotate, EmitSend, TypeOK
  <2>3. published' = published
    BY <1>2, <2>1, <2>2, NotPublished
  <2> QED BY <2>1, <2>3 DEF Stream!vars
<1>3. CASE RewriteAtBoot /\ Publication
  <2>1. phase = "opened" /\ phase' = "up" /\ got' = got /\ Resting
    BY <1>0, <1>3, BootRests DEF RewriteAtBoot, connVars
  <2>2. published' = published \o NewestMessages(seq - Len(published))
    BY <1>3, <2>1 DEF Publication
  <2>3. NewestMessages(seq - Len(published)) \in Seq(Msg)
    BY <1>0, <2>1, BootPublishes DEF Progress, GapInv, StreamInv
  <2> QED BY <1>0, <2>1, <2>2, <2>3, PublishesBehind
<1>4. ASSUME NEW e \in Emitters, EmitAppend(e), Publication
      PROVE  [Stream!Next]_(Stream!vars)
  <2>1. /\ phase = "up" /\ phase' = "up" /\ emitLock = e /\ env[e] \in Envelope
        /\ pc[e] = "append" /\ got' = got
    BY <1>0, <1>4, Alone DEF EmitAppend, connVars
  <2>2. pc'[e] # "append"
    BY <1>0, <1>4 DEF EmitAppend, TypeOK
  <2>3. published' = Append(published, env[e].msg)
    BY <1>4, <2>1, <2>2 DEF Publication
  <2>4. <<env[e].msg>> \in Seq(Msg) /\ published' = published \o <<env[e].msg>>
    <3>1. env[e].msg \in Msg
      BY <2>1 DEF Envelope
    <3> QED BY <1>0, <2>3, <3>1
  <2> QED BY <1>0, <2>1, <2>4, PublishesBehind
<1>5. ASSUME NEW c \in Clients, Subscribe(c) \/ Serve(c) \/ Disconnect(c), Publication
      PROVE  [Stream!Next]_(Stream!vars)
  <2>1. published' = published
    BY <1>5, NotPublished DEF Subscribe, Serve, SendReplay, SendLive, CloseLagged,
                              Disconnect, Hangup, emitVars
  <2>2. /\ got[c] \in Seq(Envelope) /\ replay[c] \in Seq(Envelope) /\ live[c] \in Seq(Envelope)
        /\ AllPublic(replay[c], published) /\ AllPublic(live[c], published) /\ Gapless(c)
    BY <1>0, PipeTypes DEF ShownPublic
  <2>3. CASE Subscribe(c)
    BY <2>1, <2>3 DEF Subscribe, Stream!Connect, Stream!Next
  <2>4. CASE SendReplay(c)
    <3>1. /\ replay[c] # <<>> /\ got' = [got EXCEPT ![c] = Append(@, Head(replay[c]))]
          /\ Head(replay[c]) \in Envelope /\ Public(Head(replay[c]), published)
      BY <2>2, <2>4, PublicParts, HeadTailProperties DEF SendReplay
    <3>2. got[c] = <<>> \/ Head(replay[c]).seq = Stream!Last(got[c]).seq + 1
      BY <2>2, <3>1, ShowsNext DEF Gapless
    <3>3. Stream!Send(c)
      BY <2>1, <3>1, <3>2, SendsStream
    <3> QED BY <3>3 DEF Stream!Next
  <2>5. CASE SendLive(c)
    <3>1. /\ live[c] # <<>> /\ got' = [got EXCEPT ![c] = Append(@, Head(live[c]))]
          /\ Head(live[c]) \in Envelope /\ Public(Head(live[c]), published)
          /\ replay[c] = <<>> /\ ~lagged[c]
      BY <2>2, <2>5, PublicParts, HeadTailProperties DEF SendLive
    <3>2. Contiguous(got[c] \o live[c])
      BY <2>2, <3>1, ConcatEmptySeq DEF Gapless, Pipeline
    <3>3. got[c] = <<>> \/ Head(live[c]).seq = Stream!Last(got[c]).seq + 1
      BY <2>2, <3>1, <3>2, ShowsNext
    <3>4. Stream!Send(c)
      BY <2>1, <3>1, <3>3, SendsStream
    <3> QED BY <3>4 DEF Stream!Next
  <2>6. CASE Hangup(c)
    BY <2>1, <2>6 DEF Hangup, Stream!vars
  <2> QED BY <1>5, <2>3, <2>4, <2>5, <2>6 DEF Serve, CloseLagged, Disconnect
<1>6. CASE UNCHANGED <<vars, published>>
  BY <1>6 DEF vars, connVars, Stream!vars
<1> QED
  BY <1>1, <1>2, <1>3, <1>4, <1>5, <1>6 DEF HNext, Next, Boot, Emit

\* On a working disk the emission pipeline, with its lock, its bounded log, its
\* rotated file and any number of crashes, is an append-only stream of which
\* every connection shows a contiguous stretch (emit, subscribe, restore).
THEOREM ImplementsStream ==
  ASSUME ~DiskMayFail
  PROVE  HSpec => IsAStream
<1>1. HInit => Stream!Init
  BY DEF HInit, Init, Stream!Init
<1>2. HInit => WorkInv /\ GapInv /\ StreamInv
  BY WorkInit, GapInit, StreamInit DEF HInit
<1>3. [HNext]_<<vars, published>> => [Next]_vars
  BY DEF HNext
<1>4. WorkInv /\ GapInv /\ StreamInv /\ [HNext]_<<vars, published>>
        => (WorkInv /\ GapInv /\ StreamInv)'
  BY <1>3, WorkStep, GapStep, StreamStep
<1>5. WorkInv /\ GapInv /\ StreamInv /\ [HNext]_<<vars, published>>
        => [Stream!Next]_(Stream!vars)
  BY StreamSimulation
<1> QED BY <1>1, <1>2, <1>4, <1>5, PTL DEF HSpec, IsAStream, Stream!Spec

=============================================================================
