--------------------------- MODULE RegistryProofs ---------------------------
(***************************************************************************)
(* Theorems about Registry, for any number of handlers and sessions and    *)
(* every cap.                                                              *)
(***************************************************************************)
EXTENDS Registry, FiniteSetTheorems, SequenceTheorems, TLAPS

USE CapAssumption, NobodyAssumption, BoundAssumption

-----------------------------------------------------------------------------
(* Lemmas about the operators.                                              *)

\* Removing a position keeps the elements at the others.
LEMMA RemovedRest ==
  ASSUME NEW S, NEW q \in Seq(S), NEW k \in 1..Len(q)
  PROVE  /\ RemoveAt(q, k) \in Seq(S)
         /\ \A i \in DOMAIN q : i # k => q[i] \in ToSet(RemoveAt(q, k))
<1> DEFINE front == SubSeq(q, 1, k - 1)
           back == SubSeq(q, k + 1, Len(q))
<1>1. Len(q) \in Nat /\ k \in Nat /\ DOMAIN q = 1..Len(q)
  BY LenProperties
<1>2. /\ front \in Seq(S) /\ Len(front) = k - 1
      /\ \A i \in 1..(k - 1) : front[i] = q[i]
  BY <1>1, SubSeqProperties
<1>3. /\ back \in Seq(S) /\ Len(back) = Len(q) - k
      /\ \A i \in 1..(Len(q) - k) : back[i] = q[k + i]
  <2> k \in Nat /\ Len(q) \in Nat /\ k <= Len(q)
    BY <1>1
  <2>1. \A i \in (k + 1)..Len(q) : q[i] \in S
    BY <1>1
  <2>2. /\ back \in Seq(S)
        /\ Len(back) = IF k + 1 <= Len(q) THEN Len(q) - (k + 1) + 1 ELSE 0
        /\ \A i \in 1..(Len(q) - (k + 1) + 1) : back[i] = q[k + 1 + i - 1]
    BY <1>1, <2>1, SubSeqProperties
  <2>3. Len(q) - (k + 1) + 1 = Len(q) - k
    BY <1>1
  <2>4. k = Len(q) \/ k + 1 <= Len(q)
    OBVIOUS
  <2> HIDE DEF back
  <2>5. Len(back) = Len(q) - k
    <3>1. CASE k = Len(q)
      BY <2>2, <3>1
    <3>2. CASE k + 1 <= Len(q)
      BY <2>2, <2>3, <3>2
    <3> QED BY <2>4, <3>1, <3>2
  <2>6. ASSUME NEW i \in 1..(Len(q) - k) PROVE back[i] = q[k + i]
    <3>1. k + 1 + i - 1 = k + i
      BY <1>1
    <3>2. back[i] = q[k + 1 + i - 1]
      BY <2>2, <2>3
    <3> QED BY <3>1, <3>2
  <2> QED BY <2>2, <2>5, <2>6
<1> HIDE DEF front, back
<1> DEFINE rest == front \o back
<1>4. /\ rest \in Seq(S) /\ Len(rest) = Len(front) + Len(back)
      /\ \A i \in 1..(Len(front) + Len(back)) :
           rest[i] = IF i <= Len(front) THEN front[i] ELSE back[i - Len(front)]
  BY <1>2, <1>3, ConcatProperties, ZenonT(40)
<1> HIDE DEF rest
<1>5. DOMAIN rest = 1..(Len(q) - 1)
  BY <1>1, <1>2, <1>3, <1>4, LenProperties
<1>6. ASSUME NEW i \in DOMAIN q, i # k
      PROVE  \E j \in DOMAIN rest : rest[j] = q[i]
  <2>1. CASE i < k
    <3>1. i \in 1..(k - 1) /\ i \in 1..(Len(front) + Len(back)) /\ i <= Len(front)
      BY <1>1, <1>2, <1>3, <1>6, <2>1
    <3>2. rest[i] = q[i]
      BY <1>2, <1>4, <3>1
    <3> QED BY <1>1, <1>5, <1>6, <2>1, <3>2
  <2>2. CASE i > k
    <3>1. /\ i - 1 \in 1..(Len(front) + Len(back)) /\ ~(i - 1 <= Len(front))
          /\ (i - 1) - Len(front) = i - k
          /\ i - k \in 1..(Len(q) - k) /\ k + (i - k) = i
          /\ i - 1 \in DOMAIN rest
      BY <1>1, <1>2, <1>3, <1>5, <1>6, <2>2
    <3>2. rest[i - 1] = back[i - k]
      BY <1>4, <3>1
    <3>3. back[i - k] = q[i]
      BY <1>3, <3>1
    <3> QED BY <3>1, <3>2, <3>3
  <2> QED BY <1>1, <1>6, <2>1, <2>2
<1>7. RemoveAt(q, k) = rest
  BY DEF RemoveAt, rest, front, back
<1> QED BY <1>4, <1>6, <1>7 DEF ToSet

\* Putting an element in front adds it to the set of elements.
LEMMA PutFirst ==
  ASSUME NEW S, NEW s \in S, NEW q \in Seq(S)
  PROVE  /\ <<s>> \o q \in Seq(S)
         /\ ToSet(q) \cup {s} \subseteq ToSet(<<s>> \o q)
<1> DEFINE one == <<s>>
           all == one \o q
<1>1. one \in Seq(S) /\ Len(one) = 1 /\ one[1] = s
  OBVIOUS
<1> HIDE DEF one
<1>2. /\ all \in Seq(S) /\ Len(all) = 1 + Len(q)
      /\ \A i \in 1..(1 + Len(q)) : all[i] = IF i <= 1 THEN one[i] ELSE q[i - 1]
  <2>1. /\ all \in Seq(S) /\ Len(all) = Len(one) + Len(q)
        /\ \A i \in 1..(Len(one) + Len(q)) :
             all[i] = IF i <= Len(one) THEN one[i] ELSE q[i - Len(one)]
    BY <1>1, ConcatProperties
  <2> HIDE DEF all
  <2> QED BY <1>1, <2>1
<1> HIDE DEF all
<1>3. Len(q) \in Nat /\ DOMAIN q = 1..Len(q) /\ DOMAIN all = 1..(1 + Len(q))
  BY <1>2, LenProperties
<1>4. 1 \in DOMAIN all /\ all[1] = s
  BY <1>1, <1>2, <1>3
<1>5. ASSUME NEW i \in DOMAIN q
      PROVE  i + 1 \in DOMAIN all /\ all[i + 1] = q[i]
  BY <1>2, <1>3
<1>6. ToSet(q) \cup {s} \subseteq ToSet(all)
  BY <1>4, <1>5 DEF ToSet
<1> QED BY <1>2, <1>6 DEF all, one

\* A session that is touched leads the directories; no other one is lost.
LEMMA TouchedDisk ==
  ASSUME disk \in Seq(Ids), NEW s \in Ids
  PROVE  /\ Touched(s) \in Seq(Ids)
         /\ ToSet(disk) \cup {s} \subseteq ToSet(Touched(s))
<1>1. CASE s \in ToSet(disk)
  <2> DEFINE k == CHOOSE i \in DOMAIN disk : disk[i] = s
             rest == RemoveAt(disk, k)
  <2>1. k \in DOMAIN disk /\ disk[k] = s
    BY <1>1 DEF ToSet
  <2>2. k \in 1..Len(disk)
    BY <2>1, LenProperties
  <2>3. Touched(s) = <<s>> \o rest
    BY <1>1 DEF Touched
  <2> HIDE DEF k
  <2>4. rest \in Seq(Ids) /\ \A i \in DOMAIN disk : i # k => disk[i] \in ToSet(rest)
    BY <2>2, RemovedRest
  <2>5. ToSet(disk) \subseteq ToSet(rest) \cup {s}
    BY <2>1, <2>4 DEF ToSet
  <2> HIDE DEF rest
  <2> QED BY <2>3, <2>4, <2>5, PutFirst
<1>2. CASE s \notin ToSet(disk)
  BY <1>2, PutFirst DEF Touched
<1> QED BY <1>1, <1>2

\* The map is finite, and one more or one less session changes its size so.
LEMMA MapSize ==
  ASSUME NEW m \in SUBSET Ids
  PROVE  /\ IsFiniteSet(m) /\ Cardinality(m) \in Nat
         /\ \A s \in Ids : Cardinality(m \cup {s}) <= Cardinality(m) + 1
         /\ \A s : Cardinality(m \ {s}) <= Cardinality(m)
<1>1. IsFiniteSet(Ids)
  BY FS_Interval DEF Ids
<1>2. IsFiniteSet(m) /\ Cardinality(m) \in Nat
  BY <1>1, FS_Subset, FS_CardinalityType
<1>3. \A s \in Ids : Cardinality(m \cup {s}) <= Cardinality(m) + 1
  <2> SUFFICES ASSUME NEW s \in Ids PROVE Cardinality(m \cup {s}) <= Cardinality(m) + 1
    OBVIOUS
  <2>1. Cardinality(m \cup {s}) = IF s \in m THEN Cardinality(m) ELSE Cardinality(m) + 1
    BY <1>2, FS_AddElement
  <2> QED BY <1>2, <2>1
<1>4. \A s : Cardinality(m \ {s}) <= Cardinality(m)
  <2> SUFFICES ASSUME NEW s PROVE Cardinality(m \ {s}) <= Cardinality(m)
    OBVIOUS
  <2>1. Cardinality(m \ {s}) = IF s \in m THEN Cardinality(m) - 1 ELSE Cardinality(m)
    BY <1>2, FS_RemoveElement
  <2> QED BY <1>2, <2>1
<1> QED BY <1>2, <1>3, <1>4

\* The token for nobody is no session.
LEMMA NobodyIsNoSession == Ids \subseteq Nat /\ Nobody \notin Ids
BY DEF Ids

-----------------------------------------------------------------------------
(* The inductive invariant.                                                 *)

Inside == {"evicting", "removing", "built", "saved"}

\* Only the holder of the lock is inside create_session.
Locking == \A h \in Handlers : hpc[h] \in Inside => lock = h /\ phase = "up"

\* A handler behind the construction of a session refers to one.
Holding == \A h \in Handlers : hpc[h] \in {"built", "saved", "holding"} => held[h] \in Ids

\* Whoever is about to insert has room, and so has the boot for what is left.
Room ==
  /\ CapHolds
  /\ \A h \in Handlers : hpc[h] \in {"built", "saved"} => Cardinality(mapped) < MaxSessions
  /\ phase = "loading" => Cardinality(mapped) + Len(entries) <= MaxSessions
  /\ phase = "down" => mapped = {}

\* A session that is about to be inserted has its meta.json.
Saved ==
  /\ ToldIsDurable
  /\ \A h \in Handlers : hpc[h] = "saved" => held[h] \in ToSet(disk)

Inv == TypeOK /\ Locking /\ Holding /\ Room /\ Saved

LEMMA InvInit == Init => Inv
<1> SUFFICES ASSUME Init PROVE Inv
  OBVIOUS
<1> USE DEF Init
<1>1. <<>> \in Seq(Ids) /\ Len(<<>>) = 0 /\ ToSet(<<>>) = {}
  BY DEF ToSet
<1>2. TypeOK
  BY <1>1 DEF TypeOK, Places
<1>3. Locking /\ Holding
  BY DEF Locking, Holding, Inside
<1>4. Room
  BY FS_EmptySet DEF Room, CapHolds
<1>5. Saved
  BY DEF Saved, ToldIsDurable
<1> QED BY <1>2, <1>3, <1>4, <1>5 DEF Inv

\* Every step preserves the invariant.
LEMMA InvStep == Inv /\ [Next]_vars => Inv'
<1> SUFFICES ASSUME Inv, [Next]_vars PROVE Inv'
  OBVIOUS
<1> USE DEF Inv, At, Goto, serverVars, handlerVars, workVars, Places, Inside
<1>1. ASSUME NEW h \in Handlers, CreateLock(h) PROVE Inv'
  <2>1. TypeOK'
    BY <1>1 DEF CreateLock, TypeOK
  <2>2. Locking'
    BY <1>1 DEF CreateLock, TypeOK, Locking
  <2>3. Holding'
    BY <1>1 DEF CreateLock, TypeOK, Holding
  <2>4. Room'
    BY <1>1 DEF CreateLock, TypeOK, Room, CapHolds
  <2>5. Saved'
    BY <1>1 DEF CreateLock, TypeOK, Saved, ToldIsDurable
  <2> QED BY <2>1, <2>2, <2>3, <2>4, <2>5
<1>2. ASSUME NEW h \in Handlers, EvictPick(h) PROVE Inv'
  <2>1. TypeOK'
    <3>1. victim' \in Ids /\ victim' # Nobody
      BY <1>2, NobodyIsNoSession DEF EvictPick, TypeOK
    <3>2. hpc' \in [Handlers -> Places] /\ hpc'[h] = "removing"
      BY <1>2 DEF EvictPick, TypeOK
    <3> QED BY <1>2, <3>1, <3>2 DEF EvictPick, TypeOK
  <2>2. Locking'
    BY <1>2 DEF EvictPick, TypeOK, Locking
  <2>3. Holding'
    BY <1>2 DEF EvictPick, TypeOK, Holding
  <2>4. Room'
    BY <1>2 DEF EvictPick, TypeOK, Room, CapHolds
  <2>5. Saved'
    BY <1>2 DEF EvictPick, TypeOK, Saved, ToldIsDurable
  <2> QED BY <2>1, <2>2, <2>3, <2>4, <2>5
<1>3. ASSUME NEW h \in Handlers, EvictRemove(h) PROVE Inv'
  <2>1. mapped \in SUBSET Ids
    BY DEF TypeOK
  <2>2. /\ Cardinality(mapped) \in Nat
        /\ \A t \in Ids : Cardinality(mapped \cup {t}) <= Cardinality(mapped) + 1
        /\ \A t : Cardinality(mapped \ {t}) <= Cardinality(mapped)
    BY <2>1, MapSize
  <2>3. TypeOK'
    <3>1. \A g \in Handlers : hpc[g] = "removing" => g = h
      BY <1>3 DEF EvictRemove, Locking
    <3>2. hpc' \in [Handlers -> Places] /\ \A g \in Handlers : hpc'[g] # "removing"
      BY <1>3, <3>1 DEF EvictRemove, TypeOK
    <3> QED BY <1>3, <3>2 DEF EvictRemove, TypeOK
  <2>4. Locking'
    BY <1>3, <2>1, <2>2 DEF EvictRemove, TypeOK, Locking
  <2>5. Holding'
    BY <1>3, <2>1, <2>2 DEF EvictRemove, TypeOK, Holding
  <2>6. Room'
    <3>1. mapped' \in SUBSET Ids /\ Cardinality(mapped') <= Cardinality(mapped)
      BY <1>3, <2>1, <2>2 DEF EvictRemove
    <3>2. Cardinality(mapped') \in Nat
      BY <3>1, MapSize
    <3>3. \A g \in Handlers : hpc'[g] \in {"built", "saved"} => hpc[g] \in {"built", "saved"}
      BY <1>3 DEF EvictRemove, TypeOK
    <3> QED BY <1>3, <2>2, <3>1, <3>2, <3>3 DEF EvictRemove, Room, CapHolds
  <2>7. Saved'
    BY <1>3, <2>1, <2>2 DEF EvictRemove, TypeOK, Saved, ToldIsDurable
  <2> QED BY <2>3, <2>4, <2>5, <2>6, <2>7
<1>4. ASSUME NEW h \in Handlers, Refuse(h) PROVE Inv'
  <2>1. TypeOK'
    BY <1>4 DEF Refuse, TypeOK
  <2>2. Locking'
    BY <1>4 DEF Refuse, TypeOK, Locking
  <2>3. Holding'
    BY <1>4 DEF Refuse, TypeOK, Holding
  <2>4. Room'
    BY <1>4 DEF Refuse, TypeOK, Room, CapHolds
  <2>5. Saved'
    BY <1>4 DEF Refuse, TypeOK, Saved, ToldIsDurable
  <2> QED BY <2>1, <2>2, <2>3, <2>4, <2>5
<1>5. ASSUME NEW h \in Handlers, Build(h) PROVE Inv'
  <2>1. mapped \in SUBSET Ids
    BY DEF TypeOK
  <2>2. /\ Cardinality(mapped) \in Nat
        /\ \A t \in Ids : Cardinality(mapped \cup {t}) <= Cardinality(mapped) + 1
        /\ \A t : Cardinality(mapped \ {t}) <= Cardinality(mapped)
    BY <2>1, MapSize
  <2> nextId' \in 0..MaxIds /\ nextId' \in Ids
    BY <1>5 DEF Build, TypeOK, Ids
  <2>3. TypeOK'
    <3>1. \A g \in Handlers : hpc'[g] = "removing" <=> hpc[g] = "removing"
      BY <1>5 DEF Build, TypeOK
    <3>2. hpc' \in [Handlers -> Places]
      BY <1>5 DEF Build, TypeOK
    <3>5. held' \in [Handlers -> Ids \cup {Nobody}]
      BY <1>5 DEF Build, TypeOK
    <3>3. run' \in [Ids -> {"gone", "waiting", "taken", "running"}]
      BY <1>5 DEF Build, TypeOK
    <3>4. lock' \in Handlers \cup {Nobody}
      BY <1>5 DEF Build, TypeOK
    <3> QED BY <1>5, <3>1, <3>2, <3>3, <3>4, <3>5 DEF Build, TypeOK
  <2>4. Locking'
    BY <1>5, <2>1, <2>2 DEF Build, TypeOK, Locking
  <2>5. Holding'
    BY <1>5 DEF Build, TypeOK, Holding
  <2>6. Room'
    BY <1>5, <2>1, <2>2 DEF Build, TypeOK, Room, CapHolds
  <2>7. Saved'
    BY <1>5, <2>1, <2>2 DEF Build, TypeOK, Saved, ToldIsDurable
  <2> QED BY <2>3, <2>4, <2>5, <2>6, <2>7
<1>6. ASSUME NEW h \in Handlers, WriteMeta(h) PROVE Inv'
  <2>1. held[h] \in Ids
    BY <1>6 DEF WriteMeta, Holding
  <2>2. /\ Touched(held[h]) \in Seq(Ids)
        /\ ToSet(disk) \cup {held[h]} \subseteq ToSet(Touched(held[h]))
    BY <2>1, TouchedDisk DEF TypeOK
  <2>3. TypeOK'
    BY <1>6, <2>1, <2>2 DEF WriteMeta, TypeOK
  <2>4. Locking'
    BY <1>6, <2>1, <2>2 DEF WriteMeta, TypeOK, Locking
  <2>5. Holding'
    BY <1>6, <2>1, <2>2 DEF WriteMeta, TypeOK, Holding
  <2>6. Room'
    BY <1>6, <2>1, <2>2 DEF WriteMeta, TypeOK, Room, CapHolds
  <2>7. Saved'
    BY <1>6, <2>1, <2>2 DEF WriteMeta, TypeOK, Saved, ToldIsDurable
  <2> QED BY <2>3, <2>4, <2>5, <2>6, <2>7
<1>7. ASSUME NEW h \in Handlers, Insert(h) PROVE Inv'
  <2>1. mapped \in SUBSET Ids
    BY DEF TypeOK
  <2>2. /\ Cardinality(mapped) \in Nat
        /\ \A t \in Ids : Cardinality(mapped \cup {t}) <= Cardinality(mapped) + 1
        /\ \A t : Cardinality(mapped \ {t}) <= Cardinality(mapped)
    BY <2>1, MapSize
  <2> held[h] \in Ids
    BY <1>7 DEF Insert, Holding
  <2>3. TypeOK'
    <3>1. \A g \in Handlers : hpc'[g] = "removing" <=> hpc[g] = "removing"
      BY <1>7 DEF Insert, TypeOK
    <3>2. hpc' \in [Handlers -> Places]
      BY <1>7 DEF Insert, TypeOK
    <3> QED BY <1>7, <3>1, <3>2 DEF Insert, TypeOK
  <2>4. Locking'
    BY <1>7, <2>1, <2>2 DEF Insert, TypeOK, Locking
  <2>5. Holding'
    BY <1>7, <2>1, <2>2 DEF Insert, TypeOK, Holding
  <2>6. Room'
    <3>1. mapped' \in SUBSET Ids /\ Cardinality(mapped') <= Cardinality(mapped) + 1
      BY <1>7, <2>1, <2>2 DEF Insert
    <3>2. Cardinality(mapped') \in Nat
      BY <3>1, MapSize
    <3>3. Cardinality(mapped) < MaxSessions
      BY <1>7 DEF Insert, Room
    <3>4. \A g \in Handlers : hpc'[g] \notin {"built", "saved"}
      BY <1>7 DEF Insert, TypeOK, Locking
    <3>5. Cardinality(mapped') <= MaxSessions
      BY <2>2, <3>1, <3>2, <3>3
    <3> QED BY <1>7, <3>4, <3>5 DEF Insert, Room, CapHolds
  <2>7. Saved'
    BY <1>7, <2>1, <2>2 DEF Insert, TypeOK, Saved, ToldIsDurable
  <2> QED BY <2>3, <2>4, <2>5, <2>6, <2>7
<1>8. ASSUME NEW h \in Handlers, Submit(h) PROVE Inv'
  <2>1. TypeOK'
    <3>1. held[h] \in Ids
      BY <1>8 DEF Submit, Holding
    <3>2. queued[held[h]] \in 0..QueueCap /\ queued[held[h]] + 1 \in 0..QueueCap
      BY <1>8, <3>1 DEF Submit, TypeOK
    <3>3. queued' \in [Ids -> 0..QueueCap]
      BY <1>8, <3>2 DEF Submit, TypeOK
    <3> QED BY <1>8, <3>3 DEF Submit, TypeOK
  <2>2. Locking'
    BY <1>8 DEF Submit, TypeOK, Locking
  <2>3. Holding'
    BY <1>8 DEF Submit, TypeOK, Holding
  <2>4. Room'
    BY <1>8 DEF Submit, TypeOK, Room, CapHolds
  <2>5. Saved'
    BY <1>8 DEF Submit, TypeOK, Saved, ToldIsDurable
  <2> QED BY <2>1, <2>2, <2>3, <2>4, <2>5
<1>9. ASSUME NEW h \in Handlers, Release(h) PROVE Inv'
  <2>1. TypeOK'
    BY <1>9 DEF Release, TypeOK
  <2>2. Locking'
    BY <1>9 DEF Release, TypeOK, Locking
  <2>3. Holding'
    BY <1>9 DEF Release, TypeOK, Holding
  <2>4. Room'
    BY <1>9 DEF Release, TypeOK, Room, CapHolds
  <2>5. Saved'
    BY <1>9 DEF Release, TypeOK, Saved, ToldIsDurable
  <2> QED BY <2>1, <2>2, <2>3, <2>4, <2>5
<1>10. ASSUME NEW h \in Handlers, NEW s \in mapped, Lookup(h, s) PROVE Inv'
  <2>1. TypeOK'
    BY <1>10 DEF Lookup, TypeOK
  <2>2. Locking'
    BY <1>10 DEF Lookup, TypeOK, Locking
  <2>3. Holding'
    BY <1>10 DEF Lookup, TypeOK, Holding
  <2>4. Room'
    BY <1>10 DEF Lookup, TypeOK, Room, CapHolds
  <2>5. Saved'
    BY <1>10 DEF Lookup, TypeOK, Saved, ToldIsDurable
  <2> QED BY <2>1, <2>2, <2>3, <2>4, <2>5
<1>11. ASSUME NEW s \in Ids, Take(s) PROVE Inv'
  <2>1. TypeOK'
    BY <1>11 DEF Take, TypeOK
  <2>2. Locking'
    BY <1>11 DEF Take, TypeOK, Locking
  <2>3. Holding'
    BY <1>11 DEF Take, TypeOK, Holding
  <2>4. Room'
    BY <1>11 DEF Take, TypeOK, Room, CapHolds
  <2>5. Saved'
    BY <1>11 DEF Take, TypeOK, Saved, ToldIsDurable
  <2> QED BY <2>1, <2>2, <2>3, <2>4, <2>5
<1>12. ASSUME NEW s \in Ids, Begin(s) PROVE Inv'
  <2>1. s \in Ids
    OBVIOUS
  <2>2. /\ Touched(s) \in Seq(Ids)
        /\ ToSet(disk) \cup {s} \subseteq ToSet(Touched(s))
    BY <2>1, TouchedDisk DEF TypeOK
  <2>3. TypeOK'
    BY <1>12, <2>1, <2>2 DEF Begin, TypeOK
  <2>4. Locking'
    BY <1>12, <2>1, <2>2 DEF Begin, TypeOK, Locking
  <2>5. Holding'
    BY <1>12, <2>1, <2>2 DEF Begin, TypeOK, Holding
  <2>6. Room'
    BY <1>12, <2>1, <2>2 DEF Begin, TypeOK, Room, CapHolds
  <2>7. Saved'
    BY <1>12, <2>1, <2>2 DEF Begin, TypeOK, Saved, ToldIsDurable
  <2> QED BY <2>3, <2>4, <2>5, <2>6, <2>7
<1>13. ASSUME NEW s \in Ids, End(s) PROVE Inv'
  <2>1. s \in Ids
    OBVIOUS
  <2>2. /\ Touched(s) \in Seq(Ids)
        /\ ToSet(disk) \cup {s} \subseteq ToSet(Touched(s))
    BY <2>1, TouchedDisk DEF TypeOK
  <2>3. TypeOK'
    BY <1>13, <2>1, <2>2 DEF End, TypeOK
  <2>4. Locking'
    BY <1>13, <2>1, <2>2 DEF End, TypeOK, Locking
  <2>5. Holding'
    BY <1>13, <2>1, <2>2 DEF End, TypeOK, Holding
  <2>6. Room'
    BY <1>13, <2>1, <2>2 DEF End, TypeOK, Room, CapHolds
  <2>7. Saved'
    BY <1>13, <2>1, <2>2 DEF End, TypeOK, Saved, ToldIsDurable
  <2> QED BY <2>3, <2>4, <2>5, <2>6, <2>7
<1>14. ASSUME NEW s \in Ids, RunnerEnds(s) PROVE Inv'
  <2>1. TypeOK'
    BY <1>14 DEF RunnerEnds, TypeOK
  <2>2. Locking'
    BY <1>14 DEF RunnerEnds, TypeOK, Locking
  <2>3. Holding'
    BY <1>14 DEF RunnerEnds, TypeOK, Holding
  <2>4. Room'
    BY <1>14 DEF RunnerEnds, TypeOK, Room, CapHolds
  <2>5. Saved'
    BY <1>14 DEF RunnerEnds, TypeOK, Saved, ToldIsDurable
  <2> QED BY <2>1, <2>2, <2>3, <2>4, <2>5
<1>15. CASE Crash
  <2>1. mapped \in SUBSET Ids
    BY DEF TypeOK
  <2>2. /\ Cardinality(mapped) \in Nat
        /\ \A t \in Ids : Cardinality(mapped \cup {t}) <= Cardinality(mapped) + 1
        /\ \A t : Cardinality(mapped \ {t}) <= Cardinality(mapped)
    BY <2>1, MapSize
  <2>3. TypeOK'
    BY <1>15, <2>1, <2>2 DEF Crash, TypeOK
  <2>4. Locking'
    BY <1>15, <2>1, <2>2 DEF Crash, TypeOK, Locking
  <2>5. Holding'
    BY <1>15, <2>1, <2>2 DEF Crash, TypeOK, Holding
  <2>6. Room'
    BY <1>15, FS_EmptySet DEF Crash, TypeOK, Room, CapHolds
  <2>7. Saved'
    BY <1>15, <2>1, <2>2 DEF Crash, TypeOK, Saved, ToldIsDurable
  <2> QED BY <2>3, <2>4, <2>5, <2>6, <2>7
<1>16. CASE ListEntries
  <2>1. mapped \in SUBSET Ids
    BY DEF TypeOK
  <2>2. /\ Cardinality(mapped) \in Nat
        /\ \A t \in Ids : Cardinality(mapped \cup {t}) <= Cardinality(mapped) + 1
        /\ \A t : Cardinality(mapped \ {t}) <= Cardinality(mapped)
    BY <2>1, MapSize
  <2>3. TypeOK'
    BY <1>16, <2>1, <2>2 DEF ListEntries, TypeOK
  <2>4. Locking'
    BY <1>16, <2>1, <2>2 DEF ListEntries, TypeOK, Locking
  <2>5. Holding'
    BY <1>16, <2>1, <2>2 DEF ListEntries, TypeOK, Holding
  <2>6. Room'
    <3>1. mapped' = {} /\ Cardinality(mapped') = 0
      BY <1>16, FS_EmptySet DEF ListEntries, Room
    <3>2. Len(entries') <= MaxSessions /\ Len(entries') \in Nat
      <4>1. CASE Len(disk) <= MaxSessions
        BY <1>16, <4>1 DEF ListEntries, TypeOK
      <4>2. CASE ~(Len(disk) <= MaxSessions)
        <5>1. disk \in Seq(Ids) /\ Len(disk) \in Nat /\ MaxSessions \in Nat
          BY DEF TypeOK
        <5>2. \A i \in 1..MaxSessions : disk[i] \in Ids
          BY <4>2, <5>1
        <5>3. entries' = SubSeq(disk, 1, MaxSessions)
          BY <1>16, <4>2 DEF ListEntries
        <5> QED BY <5>1, <5>2, <5>3, SubSeqProperties
      <4> QED BY <4>1, <4>2
    <3>3. \A g \in Handlers : hpc'[g] \notin {"built", "saved"}
      BY <1>16 DEF ListEntries, Locking
    <3> QED BY <1>16, <3>1, <3>2, <3>3 DEF ListEntries, Room, CapHolds
  <2>7. Saved'
    BY <1>16, <2>1, <2>2 DEF ListEntries, TypeOK, Saved, ToldIsDurable
  <2> QED BY <2>3, <2>4, <2>5, <2>6, <2>7
<1>17. CASE LoadOne
  <2>1. Head(entries) \in Ids /\ Tail(entries) \in Seq(Ids) /\ Len(Tail(entries)) = Len(entries) - 1
    BY <1>17 DEF LoadOne, TypeOK
  <2>2. /\ Touched(Head(entries)) \in Seq(Ids)
        /\ ToSet(disk) \cup {Head(entries)} \subseteq ToSet(Touched(Head(entries)))
    BY <2>1, TouchedDisk DEF TypeOK
  <2>3. mapped \in SUBSET Ids
    BY DEF TypeOK
  <2>4. /\ Cardinality(mapped) \in Nat
        /\ \A t \in Ids : Cardinality(mapped \cup {t}) <= Cardinality(mapped) + 1
        /\ \A t : Cardinality(mapped \ {t}) <= Cardinality(mapped)
    BY <2>3, MapSize
  <2>5. TypeOK'
    BY <1>17, <2>1, <2>2, <2>3, <2>4 DEF LoadOne, TypeOK
  <2>6. Locking'
    BY <1>17, <2>1, <2>2, <2>3, <2>4 DEF LoadOne, TypeOK, Locking
  <2>7. Holding'
    BY <1>17, <2>1, <2>2, <2>3, <2>4 DEF LoadOne, TypeOK, Holding
  <2>8. Room'
    <3>1. mapped' \in SUBSET Ids /\ Cardinality(mapped') <= Cardinality(mapped) + 1
      BY <1>17, <2>1, <2>3, <2>4 DEF LoadOne
    <3>2. Cardinality(mapped') \in Nat
      BY <3>1, MapSize
    <3>3. Cardinality(mapped) + Len(entries) <= MaxSessions
      BY <1>17 DEF LoadOne, Room
    <3>4. Len(entries) \in Nat \ {0} /\ Len(entries') = Len(entries) - 1
      BY <1>17, <2>1 DEF LoadOne, TypeOK
    <3>5. Cardinality(mapped') + Len(entries') <= MaxSessions /\ Cardinality(mapped') <= MaxSessions
      BY <2>4, <3>1, <3>2, <3>3, <3>4
    <3>6. \A g \in Handlers : hpc'[g] \notin {"built", "saved"}
      BY <1>17 DEF LoadOne, Locking
    <3> QED BY <1>17, <3>5, <3>6 DEF LoadOne, Room, CapHolds
  <2>9. Saved'
    BY <1>17, <2>1, <2>2, <2>3, <2>4 DEF LoadOne, TypeOK, Saved, ToldIsDurable
  <2> QED BY <2>5, <2>6, <2>7, <2>8, <2>9
<1>18. CASE Serve
  <2>1. TypeOK'
    BY <1>18 DEF Serve, TypeOK
  <2>2. Locking'
    BY <1>18 DEF Serve, TypeOK, Locking
  <2>3. Holding'
    BY <1>18 DEF Serve, TypeOK, Holding
  <2>4. Room'
    BY <1>18 DEF Serve, TypeOK, Room, CapHolds
  <2>5. Saved'
    BY <1>18 DEF Serve, TypeOK, Saved, ToldIsDurable
  <2> QED BY <2>1, <2>2, <2>3, <2>4, <2>5
<1>19. CASE UNCHANGED vars
  <2>1. TypeOK'
    BY <1>19 DEF vars, TypeOK
  <2>2. Locking'
    BY <1>19 DEF vars, TypeOK, Locking
  <2>3. Holding'
    BY <1>19 DEF vars, TypeOK, Holding
  <2>4. Room'
    BY <1>19 DEF vars, TypeOK, Room, CapHolds
  <2>5. Saved'
    BY <1>19 DEF vars, TypeOK, Saved, ToldIsDurable
  <2> QED BY <2>1, <2>2, <2>3, <2>4, <2>5
<1>20. ASSUME NEW h \in Handlers, Ask(h) PROVE Inv'
  <2>1. TypeOK'
    <3>1. held[h] \in Ids
      BY <1>20 DEF Ask, Holding
    <3> QED BY <1>20, <3>1 DEF Ask, TypeOK
  <2>2. Locking'
    BY <1>20 DEF Ask, TypeOK, Locking
  <2>3. Holding'
    BY <1>20 DEF Ask, TypeOK, Holding
  <2>4. Room'
    BY <1>20 DEF Ask, TypeOK, Room, CapHolds
  <2>5. Saved'
    BY <1>20 DEF Ask, TypeOK, Saved, ToldIsDurable
  <2> QED BY <2>1, <2>2, <2>3, <2>4, <2>5
<1>21. ASSUME NEW s \in Ids, SideEnds(s) PROVE Inv'
  <2>1. TypeOK'
    BY <1>21 DEF SideEnds, TypeOK
  <2>2. Locking'
    BY <1>21 DEF SideEnds, TypeOK, Locking
  <2>3. Holding'
    BY <1>21 DEF SideEnds, TypeOK, Holding
  <2>4. Room'
    BY <1>21 DEF SideEnds, TypeOK, Room, CapHolds
  <2>5. Saved'
    BY <1>21 DEF SideEnds, TypeOK, Saved, ToldIsDurable
  <2> QED BY <2>1, <2>2, <2>3, <2>4, <2>5
<1> QED
  BY <1>1, <1>2, <1>3, <1>4, <1>5, <1>6, <1>7, <1>8, <1>9, <1>10, <1>11, <1>12, <1>13, <1>14, <1>15, <1>16, <1>17, <1>18, <1>19, <1>20, <1>21
  DEF Next, Creating, Runner, Boot, TypeOK

-----------------------------------------------------------------------------
(* The theorems.                                                            *)

\* Every reachable state satisfies the invariant.
THEOREM InvHolds == Spec => []Inv
<1>1. Init => Inv BY InvInit
<1>2. Inv /\ [Next]_vars => Inv' BY InvStep
<1> QED BY <1>1, <1>2, PTL DEF Spec

\* Every variable of the registry keeps its type, and no channel exceeds its
\* capacity, for any number of handlers, sessions and crashes.
THEOREM TypeCorrect == Spec => []TypeOK
<1>1. Inv => TypeOK BY DEF Inv
<1> QED BY <1>1, InvHolds, PTL

\* The map never exceeds max_sessions: not by concurrent create_session, not
\* by load_sessions.
THEOREM CapIsKept == Spec => []CapHolds
<1>1. Inv => CapHolds BY DEF Inv, Room
<1> QED BY <1>1, InvHolds, PTL

\* A session a client has been told of has its meta.json, whatever failed or
\* crashed in create_session, and whatever was evicted since.
THEOREM ToldStaysDurable == Spec => []ToldIsDurable
<1>1. Inv => ToldIsDurable BY DEF Inv, Saved
<1> QED BY <1>1, InvHolds, PTL
=============================================================================
