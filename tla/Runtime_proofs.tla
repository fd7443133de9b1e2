-------------------------- MODULE Runtime_proofs ---------------------------
(***************************************************************************)
(* Theorems about the parts of the runtime that run beside the event loop, *)
(* for every value of their constants.  The observers of the kernel keep   *)
(* track of every event; plugins outlive their use; a transaction of the   *)
(* module loader is all or nothing; and an engine gate fails closed for    *)
(* every number of handlers, of requests at a time and of plugin graphs.   *)
(***************************************************************************)
EXTENDS EngineGate, RuntimeObservers, PluginApp, ModuleLoader, Integers,
        FiniteSetTheorems, SequenceTheorems, WellFoundedInduction, TLAPS

-----------------------------------------------------------------------------
(* Sets of naturals and sequences                                          *)

(* A non-empty set of naturals has a least element. *)
LEMMA SmallestExists ==
    ASSUME NEW T \in SUBSET Nat, T # {}
    PROVE  \E m \in T : \A k \in T : m <= k
<1>. DEFINE less == {ss \in Nat \X Nat : ss[1] < ss[2]}
<1>1. IsWellFoundedOn(less, Nat)
  BY NatLessThanWellFounded DEF OpToRel
<1>2. PICK m \in T : \A k \in T : ~ (<<k, m>> \in less)
  <2>. HIDE DEF less
  <2>. QED BY <1>1, WFMin
<1>3. \A k \in T : ~(k < m)
  BY <1>2
<1>. QED BY <1>3

(* A queue gives up one element for a new one at its end, and keeps the    *)
(* order of the others.                                                    *)
IsExchange(r, q, v, e) ==
    /\ Len(r) = Len(q)
    /\ \A i \in 1..Len(q) :
          r[i] = IF i < v THEN q[i] ELSE IF i < Len(q) THEN q[i + 1] ELSE e

(* Such a queue is made by RemoveAt and Append. *)
LEMMA GivesUp ==
    ASSUME NEW S, NEW q \in Seq(S), NEW v \in 1..Len(q), NEW e \in S
    PROVE  /\ Append(RemoveAt(q, v), e) \in Seq(S)
           /\ IsExchange(Append(RemoveAt(q, v), e), q, v, e)
<1>. DEFINE a == SubSeq(q, 1, v - 1)
            b == SubSeq(q, v + 1, Len(q))
<1>0. Len(q) \in Nat /\ \A i \in 1..Len(q) : q[i] \in S
  BY LenProperties, ElementOfSeq
<1>1. a \in Seq(S) /\ Len(a) = v - 1 /\ \A i \in 1..(v - 1) : a[i] = q[i]
  BY <1>0
<1>2. b \in Seq(S) /\ Len(b) = Len(q) - v /\ \A i \in 1..(Len(q) - v) : b[i] = q[v + i]
  BY <1>0
<1>. HIDE DEF a, b
<1>3. /\ a \o b \in Seq(S) /\ Len(a \o b) = Len(q) - 1
      /\ \A i \in 1..(Len(q) - 1) : (a \o b)[i] = IF i < v THEN q[i] ELSE q[i + 1]
  <2>0. /\ a \o b \in Seq(S) /\ Len(a \o b) = Len(a) + Len(b)
        /\ \A i \in 1..(Len(a) + Len(b)) : (a \o b)[i] = IF i <= Len(a) THEN a[i] ELSE b[i - Len(a)]
    BY <1>1, <1>2, ConcatProperties
  <2>1. a \o b \in Seq(S) /\ Len(a \o b) = Len(q) - 1 /\ Len(a) + Len(b) = Len(q) - 1
    BY <1>0, <1>1, <1>2, <2>0
  <2>2. ASSUME NEW i \in 1..(Len(q) - 1)
        PROVE  (a \o b)[i] = IF i < v THEN q[i] ELSE q[i + 1]
    <3>1. CASE i < v
      <4>1. i <= Len(a) /\ i \in 1..(v - 1)
        BY <1>0, <1>1, <3>1
      <4>. QED BY <1>1, <2>0, <2>1, <3>1, <4>1
    <3>2. CASE ~(i < v)
      <4>1. (a \o b)[i] = b[i - (v - 1)]
        <5>1. ~(i <= Len(a))
          BY <1>0, <1>1, <3>2
        <5>. QED BY <1>1, <2>0, <2>1, <5>1
      <4>2. i - (v - 1) \in 1..(Len(q) - v) /\ v + (i - (v - 1)) = i + 1
        BY <1>0, <3>2
      <4>. QED BY <1>2, <3>2, <4>1, <4>2
    <3>. QED BY <3>1, <3>2
  <2>. QED BY <2>1, <2>2
<1>4. RemoveAt(q, v) = a \o b
  BY DEF RemoveAt, a, b
<1>. DEFINE p == a \o b
<1>. HIDE DEF p
<1>5. /\ p \in Seq(S) /\ Len(p) = Len(q) - 1
      /\ \A i \in 1..(Len(q) - 1) : p[i] = IF i < v THEN q[i] ELSE q[i + 1]
  BY <1>3 DEF p
<1>6. /\ Append(p, e) \in Seq(S) /\ Len(Append(p, e)) = Len(q)
      /\ \A i \in 1..(Len(q) - 1) : Append(p, e)[i] = p[i]
      /\ Append(p, e)[Len(q)] = e
  <2>1. /\ Append(p, e) \in Seq(S) /\ Len(Append(p, e)) = Len(p) + 1
        /\ \A i \in 1..Len(p) : Append(p, e)[i] = p[i]
        /\ Append(p, e)[Len(p) + 1] = e
    BY <1>5, AppendProperties
  <2>. QED BY <1>0, <1>5, <2>1
<1>7. ASSUME NEW i \in 1..Len(q)
      PROVE  Append(p, e)[i] = IF i < v THEN q[i] ELSE IF i < Len(q) THEN q[i + 1] ELSE e
  <2>1. CASE i < Len(q)
    <3>1. i \in 1..(Len(q) - 1)
      BY <1>0, <2>1
    <3>. QED BY <1>5, <1>6, <2>1, <3>1
  <2>2. CASE ~(i < Len(q))
    <3>1. i = Len(q) /\ ~(i < v)
      BY <1>0, <2>2
    <3>. QED BY <1>6, <2>2, <3>1
  <2>. QED BY <2>1, <2>2
<1>8. Append(p, e) \in Seq(S) /\ IsExchange(Append(p, e), q, v, e)
  BY <1>6, <1>7 DEF IsExchange
<1>. QED BY <1>4, <1>8 DEF p

-----------------------------------------------------------------------------
(* The observers: the inductive invariant.                                 *)

Queued == {waiting[i].seq : i \in 1..Len(waiting)}

EventRecords == [seq : Nat, kind : EventKinds]

ObserverTypes ==
    /\ sequence \in Nat /\ active \in BOOLEAN /\ waiting \in Seq(EventRecords)
    /\ overflow \in [seq : Nat, events : SUBSET Nat]
    /\ delivering \in Nat /\ draining \in BOOLEAN
    /\ accepted \in SUBSET Nat /\ told \in SUBSET Nat /\ lastTold \in Nat

\* the queue is in the order of the sequences, and the overflow event has a
\* sequence of its own that no accepted event has
Ordered ==
    /\ \A i \in 1..Len(waiting) : lastTold < waiting[i].seq /\ waiting[i].seq <= sequence
    /\ \A i, j \in 1..Len(waiting) : i < j => waiting[i].seq < waiting[j].seq
    /\ overflow # NoOverflow =>
          /\ lastTold < overflow.seq /\ overflow.seq <= sequence
          /\ overflow.seq \notin accepted
    /\ lastTold <= sequence /\ delivering <= sequence
    /\ \A s \in accepted : s <= sequence

Tracked ==
    /\ accepted = told \cup Queued \cup overflow.events
    /\ told \cap Queued = {} /\ overflow.events \cap (told \cup Queued) = {}

Bounded ==
    /\ Len(waiting) <= MaxQueuedEvents
    /\ delivering \in accepted => Occupied <= MaxQueuedEvents
    /\ waiting # <<>> \/ overflow # NoOverflow => draining

ObserverInv == ObserverTypes /\ (active => Ordered /\ Tracked /\ Bounded)

(* The event a full queue gives up is one of its events. *)
LEMMA VictimInQueue ==
    ASSUME ObserverTypes
    PROVE  Victim = 0 \/ Victim \in 1..Len(waiting)
<1>. DEFINE I(kinds) == {i \in 1..Len(waiting) : waiting[i].kind \in kinds}
<1>1. ASSUME NEW kinds PROVE Oldest(kinds) = 0 \/ Oldest(kinds) \in 1..Len(waiting)
  <2>1. Oldest(kinds) = IF I(kinds) # {} THEN Min(I(kinds)) ELSE 0
    BY DEF Oldest, SelectInSeq
  <2>2. ASSUME I(kinds) # {} PROVE Min(I(kinds)) \in I(kinds)
    <3>1. I(kinds) \in SUBSET Nat /\ I(kinds) \subseteq 1..Len(waiting)
      BY LenProperties DEF ObserverTypes
    <3>. HIDE DEF I
    <3>2. \E m \in I(kinds) : \A k \in I(kinds) : m <= k
      BY <2>2, <3>1, SmallestExists
    <3>. QED BY <3>2 DEF Min
  <2>. QED BY <2>1, <2>2
<1>. QED BY <1>1 DEF Victim

(* An event is published: accepted, and queued or counted as dropped. *)
LEMMA PublishKeeps ==
    ASSUME ObserverInv, NEW kind \in EventKinds, PublishEvent(kind)
    PROVE  ObserverInv'
<1>. DEFINE e == [seq |-> sequence + 1, kind |-> kind]
            dropped == IF Victim # 0 THEN waiting[Victim].seq ELSE e.seq
            full == Occupied >= MaxQueuedEvents
<1>0. /\ ObserverTypes /\ Ordered /\ Tracked /\ Bounded /\ active
      /\ MaxQueuedEvents \in Nat \ {0}
  BY ObserverAssumption DEF ObserverInv, PublishEvent
<1>1. /\ accepted' = accepted \cup {e.seq} /\ draining' = TRUE
      /\ overflow' = IF full THEN WithDropped(dropped, e.seq + 1) ELSE overflow
      /\ sequence' = IF full /\ overflow = NoOverflow THEN e.seq + 1 ELSE e.seq
      /\ waiting' = IF ~full THEN Append(waiting, e)
                    ELSE IF Victim # 0 THEN Append(RemoveAt(waiting, Victim), e)
                    ELSE waiting
      /\ active' = active /\ delivering' = delivering /\ told' = told /\ lastTold' = lastTold
  BY DEF PublishEvent
<1>2. /\ e \in EventRecords /\ e.seq = sequence + 1 /\ e.seq \in Nat /\ sequence \in Nat
      /\ waiting \in Seq(EventRecords) /\ Len(waiting) \in Nat
      /\ \A i \in 1..Len(waiting) : waiting[i] \in EventRecords /\ waiting[i].seq \in Nat
  <2>1. sequence \in Nat /\ waiting \in Seq(EventRecords)
    BY <1>0 DEF ObserverTypes
  <2>2. /\ Len(waiting) \in Nat
        /\ \A i \in 1..Len(waiting) : waiting[i] \in EventRecords
    BY <2>1, LenProperties, ElementOfSeq
  <2>3. \A f \in EventRecords : f.seq \in Nat
    BY DEF EventRecords
  <2>4. e \in EventRecords /\ e.seq = sequence + 1 /\ e.seq \in Nat
    BY <2>1 DEF EventRecords
  <2>. HIDE DEF e
  <2>. QED BY <2>1, <2>2, <2>3, <2>4
<1>3. Victim = 0 \/ Victim \in 1..Len(waiting)
  BY <1>0, VictimInQueue
<1>. HIDE DEF e
\* the queue after the step, by its elements
<1>4. /\ waiting' \in Seq(EventRecords) /\ Len(waiting') \in Nat
      /\ Queued' = IF ~full THEN Queued \cup {e.seq}
                   ELSE (Queued \cup {e.seq}) \ {dropped}
      /\ \A i \in 1..Len(waiting') :
            waiting'[i] = e \/ \E j \in 1..Len(waiting) : waiting'[i] = waiting[j]
      /\ \A i, j \in 1..Len(waiting') : i < j => waiting'[i].seq < waiting'[j].seq
      /\ Len(waiting') = IF full THEN Len(waiting) ELSE Len(waiting) + 1
  <2>0. /\ \A i \in 1..Len(waiting) : waiting[i].seq < e.seq
        /\ \A i, j \in 1..Len(waiting) : i < j => waiting[i].seq < waiting[j].seq
    BY <1>0, <1>2 DEF Ordered
  <2>1. CASE ~full
    <3>1. waiting' = Append(waiting, e)
      BY <1>1, <2>1
    <3>2. /\ waiting' \in Seq(EventRecords) /\ Len(waiting') = Len(waiting) + 1
          /\ \A i \in 1..Len(waiting) : waiting'[i] = waiting[i]
          /\ waiting'[Len(waiting) + 1] = e
      BY <1>2, <3>1, AppendProperties
    <3>3. \A i \in 1..Len(waiting') : i \in 1..Len(waiting) \/ i = Len(waiting) + 1
      BY <1>2, <3>2
    <3>4. \A i, j \in 1..Len(waiting') : i < j => waiting'[i].seq < waiting'[j].seq
      <4>. SUFFICES ASSUME NEW i \in 1..Len(waiting'), NEW j \in 1..Len(waiting'), i < j
                    PROVE  waiting'[i].seq < waiting'[j].seq
        OBVIOUS
      <4>1. i \in 1..Len(waiting)
        BY <1>2, <3>2
      <4>. QED BY <2>0, <3>2, <3>3, <4>1
    <3>5. Queued' = Queued \cup {e.seq}
      <4>1. \A i \in 1..Len(waiting) : i \in 1..Len(waiting')
        BY <1>2, <3>2
      <4>2. Len(waiting) + 1 \in 1..Len(waiting')
        BY <1>2, <3>2
      <4>. QED BY <3>2, <3>3, <4>1, <4>2 DEF Queued
    <3>6. \A i \in 1..Len(waiting') :
             waiting'[i] = e \/ \E j \in 1..Len(waiting) : waiting'[i] = waiting[j]
      BY <3>2, <3>3
    <3>7. waiting' \in Seq(EventRecords) /\ Len(waiting') \in Nat
      BY <1>2, <3>2
    <3>. HIDE DEF full, dropped
    <3>. QED BY <2>1, <3>2, <3>4, <3>5, <3>6, <3>7
  <2>2. CASE full /\ Victim # 0
    <3>. DEFINE v == Victim
    <3>1. waiting' = Append(RemoveAt(waiting, v), e) /\ v \in 1..Len(waiting)
      BY <1>1, <1>3, <2>2
    <3>2. /\ waiting' \in Seq(EventRecords) /\ Len(waiting') = Len(waiting)
          /\ \A i \in 1..Len(waiting) :
                waiting'[i] = IF i < v THEN waiting[i]
                              ELSE IF i < Len(waiting) THEN waiting[i + 1] ELSE e
      <4>. HIDE DEF v
      <4>1. /\ Append(RemoveAt(waiting, v), e) \in Seq(EventRecords)
            /\ IsExchange(Append(RemoveAt(waiting, v), e), waiting, v, e)
        BY <1>2, <3>1, GivesUp
      <4>2. waiting' \in Seq(EventRecords) /\ IsExchange(waiting', waiting, v, e)
        BY <3>1, <4>1
      <4>. QED BY <4>2 DEF IsExchange
    <3>3. dropped = waiting[v].seq
      BY <2>2
    <3>. HIDE DEF v, dropped
    <3>4. \A i \in 1..Len(waiting) : i < Len(waiting) => i + 1 \in 1..Len(waiting)
      BY <1>2
    <3>5. \A i, j \in 1..Len(waiting') : i < j => waiting'[i].seq < waiting'[j].seq
      <4>. SUFFICES ASSUME NEW i \in 1..Len(waiting), NEW j \in 1..Len(waiting), i < j
                    PROVE  waiting'[i].seq < waiting'[j].seq
        BY <3>2
      <4>1. i < Len(waiting) /\ i \in Nat /\ j \in Nat /\ v \in Nat
        BY <1>2, <3>1
      <4>2. CASE i < v /\ j < v
        BY <2>0, <3>2, <4>2
      <4>3. CASE i < v /\ ~(j < v) /\ j < Len(waiting)
        BY <2>0, <3>2, <3>4, <4>1, <4>3
      <4>4. CASE ~(i < v) /\ j < Len(waiting)
        <5>1. ~(j < v) /\ i + 1 < j + 1
          BY <4>1, <4>4
        <5>. QED BY <2>0, <3>2, <3>4, <4>1, <4>4, <5>1
      <4>5. CASE ~(j < Len(waiting))
        <5>0. ~(j < v)
          BY <1>2, <3>1, <4>1, <4>5
        <5>1. waiting'[j] = e
          BY <3>2, <4>5, <5>0
        <5>. QED BY <2>0, <3>2, <3>4, <4>1, <5>1
      <4>. QED BY <4>2, <4>3, <4>4, <4>5
    <3>6. Queued' = (Queued \cup {e.seq}) \ {dropped}
      <4>1. ASSUME NEW i \in 1..Len(waiting)
            PROVE  waiting'[i].seq \in Queued \cup {e.seq} /\ waiting'[i].seq # dropped
        <5>1. CASE i < v
          <6>1. waiting'[i] = waiting[i] /\ waiting[i].seq < waiting[v].seq
            BY <2>0, <3>1, <3>2, <5>1
          <6>2. waiting[i].seq \in Nat /\ waiting[v].seq \in Nat
            BY <1>2, <3>1
          <6>3. waiting[i].seq \in Queued
            BY DEF Queued
          <6>. QED BY <3>3, <6>1, <6>2, <6>3
        <5>2. CASE ~(i < v) /\ i < Len(waiting)
          <6>1. v < i + 1 /\ i + 1 \in 1..Len(waiting)
            BY <1>2, <3>1, <5>2
          <6>2. waiting[v].seq < waiting[i + 1].seq
            BY <2>0, <3>1, <6>1
          <6>3. waiting[v].seq \in Nat /\ waiting[i + 1].seq \in Nat
            BY <1>2, <3>1, <6>1
          <6>4. waiting'[i] = waiting[i + 1]
            BY <3>2, <5>2
          <6>. QED BY <3>3, <6>1, <6>2, <6>3, <6>4 DEF Queued
        <5>3. CASE ~(i < v) /\ ~(i < Len(waiting))
          <6>1. waiting'[i] = e
            BY <3>2, <5>3
          <6>2. waiting[v].seq < e.seq /\ waiting[v].seq \in Nat
            BY <1>2, <2>0, <3>1
          <6>. QED BY <1>2, <3>3, <6>1, <6>2
        <5>. QED BY <5>1, <5>2, <5>3
      <4>2. ASSUME NEW k \in 1..Len(waiting), k # v
            PROVE  \E i \in 1..Len(waiting) : waiting'[i] = waiting[k]
        <5>1. CASE k < v
          BY <3>2, <5>1
        <5>2. CASE ~(k < v)
          <6>1. /\ k - 1 \in 1..Len(waiting) /\ ~(k - 1 < v) /\ k - 1 < Len(waiting)
                /\ (k - 1) + 1 = k
            BY <1>2, <3>1, <4>2, <5>2
          <6>. QED BY <3>2, <6>1
        <5>. QED BY <5>1, <5>2
      <4>3. \E i \in 1..Len(waiting) : waiting'[i] = e
        <5>1. Len(waiting) \in 1..Len(waiting) /\ ~(Len(waiting) < v)
              /\ ~(Len(waiting) < Len(waiting))
          BY <1>2, <3>1
        <5>. QED BY <3>2, <5>1
      <4>4. \A x \in Queued \ {dropped} : x \in Queued'
        <5>. SUFFICES ASSUME NEW k \in 1..Len(waiting), waiting[k].seq # dropped
                      PROVE  waiting[k].seq \in Queued'
          BY DEF Queued
        <5>1. k # v
          BY <3>3
        <5>. QED BY <3>2, <4>2, <5>1 DEF Queued
      <4>5. e.seq \in Queued'
        BY <3>2, <4>3 DEF Queued
      <4>6. \A x \in Queued' : x \in (Queued \cup {e.seq}) \ {dropped}
        BY <3>2, <4>1 DEF Queued
      <4>. QED BY <4>4, <4>5, <4>6
    <3>7. \A i \in 1..Len(waiting') :
            waiting'[i] = e \/ \E j \in 1..Len(waiting) : waiting'[i] = waiting[j]
      BY <3>2, <3>4
    <3>. QED BY <1>2, <2>2, <3>2, <3>5, <3>6, <3>7
  <2>3. CASE full /\ Victim = 0
    <3>1. waiting' = waiting /\ dropped = e.seq
      BY <1>1, <2>3
    <3>2. \A x \in Queued : x # e.seq
      BY <1>2, <2>0 DEF Queued
    <3>3. Queued' = Queued
      BY <3>1 DEF Queued
    <3>. QED BY <1>2, <2>0, <2>3, <3>1, <3>2, <3>3
  <2>. QED BY <2>1, <2>2, <2>3
<1>5. dropped \in Queued \cup {e.seq} /\ dropped \in Nat
  BY <1>2, <1>3 DEF Queued
<1>6. /\ Occupied \in Nat /\ Len(waiting) <= Occupied /\ Occupied <= Len(waiting) + 1
      /\ Occupied' = IF full THEN Occupied ELSE Occupied + 1
      /\ full <=> Occupied >= MaxQueuedEvents
  <2>1. delivering' = delivering
    BY <1>1
  <2>. DEFINE k == IF delivering # 0 THEN 1 ELSE 0
  <2>2. Occupied = Len(waiting) + k /\ Occupied' = Len(waiting') + k /\ k \in {0, 1}
    BY <2>1 DEF Occupied
  <2>. HIDE DEF k
  <2>3. Occupied \in Nat /\ Len(waiting) <= Occupied /\ Occupied <= Len(waiting) + 1
    BY <1>2, <2>2
  <2>4. Occupied' = IF full THEN Occupied ELSE Occupied + 1
    <3>. HIDE DEF full
    <3>. QED BY <1>2, <1>4, <2>2
  <2>. QED BY <2>3, <2>4
<1>7. /\ overflow.seq \in Nat /\ overflow.events \in SUBSET Nat
      /\ overflow' = IF full THEN [seq |-> IF overflow = NoOverflow THEN e.seq + 1 ELSE overflow.seq,
                                   events |-> overflow.events \cup {dropped}]
                     ELSE overflow
      /\ overflow = NoOverflow => overflow.events = {} /\ overflow.seq = 0
  BY <1>0, <1>1 DEF ObserverTypes, WithDropped, NoOverflow
<1>. HIDE DEF dropped, full
<1>8. ObserverTypes'
  <2>1. overflow' \in [seq : Nat, events : SUBSET Nat]
    BY <1>0, <1>2, <1>5, <1>7 DEF ObserverTypes
  <2>2. sequence' \in Nat /\ accepted' \in SUBSET Nat
    BY <1>0, <1>1, <1>2 DEF ObserverTypes
  <2>. QED BY <1>0, <1>1, <1>4, <2>1, <2>2 DEF ObserverTypes
<1>9. Ordered'
  <2>1. /\ sequence < sequence' /\ e.seq <= sequence' /\ sequence' \in Nat
        /\ lastTold < e.seq /\ lastTold \in Nat
    BY <1>0, <1>1, <1>2 DEF Ordered, ObserverTypes
  <2>2. \A i \in 1..Len(waiting') : lastTold' < waiting'[i].seq /\ waiting'[i].seq <= sequence'
    <3>. SUFFICES ASSUME NEW i \in 1..Len(waiting')
                  PROVE  lastTold < waiting'[i].seq /\ waiting'[i].seq <= sequence'
      BY <1>1
    <3>1. CASE waiting'[i] = e
      BY <2>1, <3>1
    <3>2. ASSUME NEW j \in 1..Len(waiting), waiting'[i] = waiting[j]
          PROVE  lastTold < waiting'[i].seq /\ waiting'[i].seq <= sequence'
      <4>1. /\ lastTold < waiting[j].seq /\ waiting[j].seq <= sequence
            /\ waiting[j].seq \in Nat
        BY <1>0, <1>2 DEF Ordered
      <4>. QED BY <1>2, <2>1, <3>2, <4>1
    <3>. QED BY <1>4, <3>1, <3>2
  <2>3. ASSUME overflow' # NoOverflow
        PROVE  /\ lastTold' < overflow'.seq /\ overflow'.seq <= sequence'
               /\ overflow'.seq \notin accepted'
    <3>1. CASE overflow = NoOverflow
      <4>1. full /\ overflow'.seq = e.seq + 1 /\ sequence' = e.seq + 1
        BY <1>1, <1>7, <2>3, <3>1
      <4>2. \A s \in accepted' : s <= e.seq
        BY <1>0, <1>1, <1>2 DEF Ordered, ObserverTypes
      <4>. QED BY <1>1, <1>2, <2>1, <4>1, <4>2
    <3>2. CASE overflow # NoOverflow
      <4>1. overflow'.seq = overflow.seq
        BY <1>7, <3>2
      <4>2. lastTold < overflow.seq /\ overflow.seq <= sequence /\ overflow.seq \notin accepted
        BY <1>0, <3>2 DEF Ordered
      <4>. QED BY <1>1, <1>2, <1>7, <2>1, <4>1, <4>2
    <3>. QED BY <3>1, <3>2
  <2>4. lastTold' <= sequence' /\ delivering' <= sequence'
    BY <1>0, <1>1, <1>2, <2>1 DEF Ordered, ObserverTypes
  <2>5. \A s \in accepted' : s <= sequence'
    BY <1>0, <1>1, <1>2, <2>1 DEF Ordered, ObserverTypes
  <2>. QED BY <1>4, <2>2, <2>3, <2>4, <2>5 DEF Ordered
<1>10. Tracked'
  <2>1. e.seq \notin accepted
    BY <1>0, <1>2 DEF Ordered, ObserverTypes
  <2>2. /\ accepted = told \cup Queued \cup overflow.events
        /\ told \cap Queued = {} /\ overflow.events \cap (told \cup Queued) = {}
    BY <1>0 DEF Tracked
  <2>3. accepted' = accepted \cup {e.seq} /\ told' = told
    BY <1>1
  <2>4. CASE ~full
    <3>1. Queued' = Queued \cup {e.seq} /\ overflow' = overflow
      BY <1>4, <1>7, <2>4
    <3>. QED BY <2>1, <2>2, <2>3, <3>1 DEF Tracked
  <2>5. CASE full
    <3>1. Queued' = (Queued \cup {e.seq}) \ {dropped}
          /\ overflow'.events = overflow.events \cup {dropped}
      BY <1>4, <1>7, <2>5
    <3>. QED BY <1>5, <2>1, <2>2, <2>3, <3>1 DEF Tracked
  <2>. QED BY <2>4, <2>5
<1>11. Bounded'
  <2>1. Len(waiting) <= MaxQueuedEvents
        /\ (delivering \in accepted => Occupied <= MaxQueuedEvents)
    BY <1>0 DEF Bounded
  <2>2. Len(waiting') <= MaxQueuedEvents
    BY <1>0, <1>2, <1>4, <1>6, <2>1
  <2>3. delivering' \in accepted' => delivering \in accepted
    BY <1>0, <1>1, <1>2 DEF Ordered, ObserverTypes
  <2>4. delivering \in accepted => Occupied' <= MaxQueuedEvents
    BY <1>0, <1>6, <2>1
  <2>. QED BY <1>1, <2>2, <2>3, <2>4 DEF Bounded
<1>. QED BY <1>8, <1>9, <1>10, <1>11 DEF ObserverInv

(* The next turn of the drain: the event with the least sequence of those  *)
(* that wait is given to the callback.                                     *)
LEMMA TakeNextKeeps ==
    ASSUME ObserverInv, TakeNext, draining, UNCHANGED <<sequence, active, accepted>>
    PROVE  ObserverInv'
<1>0. ObserverTypes
  BY DEF ObserverInv
<1>1. /\ sequence \in Nat /\ waiting \in Seq(EventRecords) /\ Len(waiting) \in Nat
      /\ \A i \in 1..Len(waiting) : waiting[i] \in EventRecords /\ waiting[i].seq \in Nat
      /\ overflow.seq \in Nat /\ overflow.events \in SUBSET Nat
      /\ accepted \in SUBSET Nat /\ told \in SUBSET Nat /\ lastTold \in Nat
  <2>1. waiting \in Seq(EventRecords) /\ sequence \in Nat /\ overflow.seq \in Nat
        /\ overflow.events \in SUBSET Nat /\ accepted \in SUBSET Nat /\ told \in SUBSET Nat
        /\ lastTold \in Nat
    BY <1>0 DEF ObserverTypes
  <2>2. /\ Len(waiting) \in Nat
        /\ \A i \in 1..Len(waiting) : waiting[i] \in EventRecords
    BY <2>1, LenProperties, ElementOfSeq
  <2>3. \A f \in EventRecords : f.seq \in Nat
    BY DEF EventRecords
  <2>. QED BY <2>1, <2>2, <2>3
<1>2. CASE ~active \/ (waiting = <<>> /\ overflow = NoOverflow)
  <2>1. /\ delivering' = 0 /\ draining' = FALSE
        /\ UNCHANGED <<waiting, overflow, told, lastTold, sequence, active, accepted>>
    BY <1>2 DEF TakeNext
  <2>2. ObserverTypes'
    BY <1>0, <2>1 DEF ObserverTypes
  <2>3. ASSUME active PROVE Ordered' /\ Tracked' /\ Bounded'
    <3>1. Ordered /\ Tracked /\ Bounded /\ waiting = <<>> /\ overflow = NoOverflow
      BY <1>2, <2>3 DEF ObserverInv
    <3>2. Ordered'
      BY <1>1, <2>1, <3>1 DEF Ordered
    <3>3. Queued' = Queued
      BY <2>1 DEF Queued
    <3>4. Tracked'
      BY <2>1, <3>1, <3>3 DEF Tracked
    <3>5. Len(waiting) = 0 /\ Occupied' = 0
      BY <2>1, <3>1 DEF Occupied
    <3>6. Bounded'
      BY <2>1, <3>1, <3>5, ObserverAssumption DEF Bounded
    <3>. QED BY <3>2, <3>4, <3>6
  <2>. QED BY <2>1, <2>2, <2>3 DEF ObserverInv
<1>3. CASE /\ active /\ ~(waiting = <<>> /\ overflow = NoOverflow)
           /\ overflow # NoOverflow /\ (waiting = <<>> \/ overflow.seq < Head(waiting).seq)
  <2>1. /\ delivering' = overflow.seq /\ lastTold' = overflow.seq
        /\ told' = told \cup overflow.events /\ overflow' = NoOverflow
        /\ waiting' = waiting /\ draining' = draining
        /\ UNCHANGED <<sequence, active, accepted>>
    BY <1>3 DEF TakeNext
  <2>2. Ordered /\ Tracked /\ Bounded
    BY <1>3 DEF ObserverInv
  <2>3. overflow.seq <= sequence /\ overflow.seq \notin accepted
    BY <1>3, <2>2 DEF Ordered
  <2>4. ObserverTypes'
    <3>1. NoOverflow \in [seq : Nat, events : SUBSET Nat]
      BY DEF NoOverflow
    <3>. QED BY <1>0, <1>1, <2>1, <3>1 DEF ObserverTypes
  <2>5. \A i \in 1..Len(waiting) : overflow.seq < waiting[i].seq
    <3>. SUFFICES ASSUME NEW i \in 1..Len(waiting) PROVE overflow.seq < waiting[i].seq
      OBVIOUS
    <3>1. waiting # <<>> /\ 1 \in 1..Len(waiting) /\ Head(waiting) = waiting[1] /\ i \in Nat
      BY <1>1
    <3>2. overflow.seq < waiting[1].seq
      BY <1>3, <3>1
    <3>3. 1 < i => waiting[1].seq < waiting[i].seq
      BY <2>2, <3>1 DEF Ordered
    <3>4. i = 1 \/ 1 < i
      BY <3>1
    <3>. QED BY <1>1, <3>1, <3>2, <3>3, <3>4
  <2>6. Ordered'
    <3>1. \A i \in 1..Len(waiting) : waiting[i].seq <= sequence
      BY <2>2 DEF Ordered
    <3>2. \A i, j \in 1..Len(waiting) : i < j => waiting[i].seq < waiting[j].seq
      BY <2>2 DEF Ordered
    <3>3. \A s \in accepted : s <= sequence
      BY <2>2 DEF Ordered
    <3>. QED BY <2>1, <2>3, <2>5, <3>1, <3>2, <3>3 DEF Ordered
  <2>7. Tracked'
    <3>1. Queued' = Queued
      BY <2>1 DEF Queued
    <3>. QED BY <2>1, <2>2, <3>1 DEF Tracked, NoOverflow
  <2>8. Bounded'
    <3>1. Len(waiting) <= MaxQueuedEvents
      BY <2>2 DEF Bounded
    <3>. QED BY <2>1, <2>3, <3>1 DEF Bounded
  <2>. QED BY <2>4, <2>6, <2>7, <2>8 DEF ObserverInv
<1>4. CASE /\ active /\ waiting # <<>>
           /\ ~(overflow # NoOverflow /\ (waiting = <<>> \/ overflow.seq < Head(waiting).seq))
  <2>1. /\ delivering' = Head(waiting).seq /\ lastTold' = Head(waiting).seq
        /\ told' = told \cup {Head(waiting).seq} /\ waiting' = Tail(waiting)
        /\ UNCHANGED <<overflow, draining, sequence, active, accepted>>
    BY <1>4 DEF TakeNext
  <2>2. Ordered /\ Tracked /\ Bounded
    BY <1>4 DEF ObserverInv
  <2>3. /\ Head(waiting) = waiting[1] /\ 1 \in 1..Len(waiting)
        /\ waiting' \in Seq(EventRecords) /\ Len(waiting') = Len(waiting) - 1
        /\ \A i \in 1..Len(waiting') : waiting'[i] = waiting[i + 1] /\ i + 1 \in 1..Len(waiting)
    <3>1. Tail(waiting) \in Seq(EventRecords) /\ Len(Tail(waiting)) = Len(waiting) - 1
          /\ \A i \in 1..Len(Tail(waiting)) : Tail(waiting)[i] = waiting[i + 1]
      BY <1>1, <1>4, HeadTailProperties
    <3>2. \A i \in 1..(Len(waiting) - 1) : i + 1 \in 1..Len(waiting)
      BY <1>1
    <3>3. Head(waiting) = waiting[1] /\ 1 \in 1..Len(waiting)
      BY <1>1, <1>4
    <3>. QED BY <2>1, <3>1, <3>2, <3>3
  <2>. DEFINE h == waiting[1].seq
  <2>4. /\ h \in Nat /\ lastTold < h /\ h <= sequence
        /\ delivering' = h /\ lastTold' = h /\ told' = told \cup {h}
    BY <1>1, <2>1, <2>2, <2>3 DEF Ordered
  <2>5. \A i \in 1..Len(waiting') : h < waiting'[i].seq
    <3>. SUFFICES ASSUME NEW i \in 1..Len(waiting') PROVE h < waiting'[i].seq
      OBVIOUS
    <3>1. waiting'[i] = waiting[i + 1] /\ i + 1 \in 1..Len(waiting) /\ 1 < i + 1
      BY <1>1, <2>3
    <3>. QED BY <2>2, <2>3, <3>1 DEF Ordered
  <2>6. Queued = Queued' \cup {h} /\ h \notin Queued'
    <3>1. ASSUME NEW i \in 1..Len(waiting), i # 1
          PROVE  \E j \in 1..Len(waiting') : waiting'[j] = waiting[i]
      <4>1. i - 1 \in 1..Len(waiting') /\ (i - 1) + 1 = i
        BY <1>1, <2>3, <3>1
      <4>. QED BY <2>3, <4>1
    <3>2. \A x \in Queued : x = h \/ x \in Queued'
      BY <3>1 DEF Queued
    <3>3. \A x \in Queued' : x \in Queued
      BY <2>3 DEF Queued
    <3>4. h \in Queued
      BY <2>3 DEF Queued
    <3>5. h \notin Queued'
      BY <2>4, <2>5 DEF Queued
    <3>. QED BY <3>2, <3>3, <3>4, <3>5
  <2>. HIDE DEF h
  <2>7. ObserverTypes'
    BY <1>0, <1>1, <2>1, <2>3, <2>4 DEF ObserverTypes
  <2>8. Ordered'
    <3>1. \A i \in 1..Len(waiting') : waiting'[i].seq <= sequence
      BY <2>2, <2>3 DEF Ordered
    <3>2. \A i, j \in 1..Len(waiting') : i < j => waiting'[i].seq < waiting'[j].seq
      <4>. SUFFICES ASSUME NEW i \in 1..Len(waiting'), NEW j \in 1..Len(waiting'), i < j
                    PROVE  waiting'[i].seq < waiting'[j].seq
        OBVIOUS
      <4>1. i + 1 < j + 1
        OBVIOUS
      <4>. QED BY <2>2, <2>3, <4>1 DEF Ordered
    <3>3. overflow # NoOverflow => h < overflow.seq /\ overflow.seq <= sequence
                                   /\ overflow.seq \notin accepted
      <4>1. h \in accepted
        BY <2>2, <2>6 DEF Tracked
      <4>2. overflow # NoOverflow => ~(overflow.seq < h) /\ overflow.seq # h
                                     /\ overflow.seq <= sequence /\ overflow.seq \notin accepted
        BY <1>4, <2>2, <2>3, <4>1 DEF Ordered, h
      <4>. QED BY <1>1, <2>4, <4>2
    <3>4. \A s \in accepted : s <= sequence
      BY <2>2 DEF Ordered
    <3>. QED BY <2>1, <2>4, <2>5, <3>1, <3>2, <3>3, <3>4 DEF Ordered
  <2>9. Tracked'
    <3>1. accepted' = accepted /\ overflow' = overflow
      BY <2>1
    <3>. QED BY <2>2, <2>4, <2>6, <3>1 DEF Tracked
  <2>10. Bounded'
    <3>1. Len(waiting) <= MaxQueuedEvents
      BY <2>2 DEF Bounded
    <3>2. Len(waiting') + 1 = Len(waiting) /\ Len(waiting') \in Nat
      BY <1>1, <2>3
    <3>3. Occupied' <= Len(waiting)
      <4>1. Occupied' = Len(waiting') + 1 \/ Occupied' = Len(waiting') + 0
        BY DEF Occupied
      <4>. QED BY <1>1, <3>2, <4>1
    <3>4. Occupied' <= MaxQueuedEvents /\ Len(waiting') <= MaxQueuedEvents
      <4>1. Occupied' \in Nat
        BY <3>2 DEF Occupied
      <4>. QED BY <1>1, <3>1, <3>2, <3>3, <4>1, ObserverAssumption
    <3>5. draining'
      BY <2>1
    <3>. QED BY <3>4, <3>5 DEF Bounded
  <2>. QED BY <2>7, <2>8, <2>9, <2>10 DEF ObserverInv
<1>. QED BY <1>2, <1>3, <1>4

(* Every step keeps the invariant. *)
LEMMA ObserverNextKeeps ==
    ASSUME ObserverInv, [ObserverNext]_observerVars
    PROVE  ObserverInv'
<1>1. CASE \E kind \in EventKinds : PublishEvent(kind)
  BY <1>1, PublishKeeps
<1>2. CASE DrainBegins
  BY <1>2, TakeNextKeeps DEF DrainBegins
<1>3. CASE CallbackEnds
  <2>1. CASE draining
    BY <1>3, <2>1, TakeNextKeeps DEF CallbackEnds
  <2>2. CASE ~draining
    <3>1. active => waiting = <<>> /\ overflow = NoOverflow
      BY <2>2 DEF ObserverInv, Bounded
    <3>2. /\ delivering' = 0 /\ draining' = FALSE
          /\ UNCHANGED <<waiting, overflow, told, lastTold, sequence, active, accepted>>
      BY <1>3, <3>1 DEF CallbackEnds, TakeNext
    <3>3. ObserverTypes'
      BY <3>2 DEF ObserverInv, ObserverTypes
    <3>4. ASSUME active PROVE Ordered' /\ Tracked' /\ Bounded'
      <4>1. Ordered /\ Tracked /\ Bounded /\ ObserverTypes
        BY <3>4 DEF ObserverInv
      <4>2. Queued' = Queued /\ Len(waiting) = 0 /\ Occupied' = 0
        BY <3>1, <3>2, <3>4 DEF Queued, Occupied
      <4>3. Ordered'
        BY <3>2, <4>1 DEF Ordered, ObserverTypes
      <4>4. Tracked'
        BY <3>2, <4>1, <4>2 DEF Tracked
      <4>5. Bounded'
        BY <3>1, <3>2, <3>4, <4>2, ObserverAssumption DEF Bounded
      <4>. QED BY <4>3, <4>4, <4>5
    <3>. QED BY <3>2, <3>3, <3>4 DEF ObserverInv
  <2>. QED BY <2>1, <2>2
<1>4. CASE DisposeObserver
  <2>1. active' = FALSE /\ waiting' = <<>> /\ overflow' = NoOverflow
        /\ UNCHANGED <<sequence, delivering, draining, accepted, told, lastTold>>
    BY <1>4 DEF DisposeObserver
  <2>2. NoOverflow \in [seq : Nat, events : SUBSET Nat] /\ <<>> \in Seq(EventRecords)
    BY DEF NoOverflow
  <2>. QED BY <2>1, <2>2 DEF ObserverInv, ObserverTypes
<1>5. CASE UNCHANGED observerVars
  <2>1. UNCHANGED <<sequence, active, waiting, overflow, delivering, draining, accepted, told, lastTold>>
    BY <1>5 DEF observerVars
  <2>2. UNCHANGED Queued /\ UNCHANGED Occupied
    BY <2>1 DEF Queued, Occupied
  <2>3. ObserverTypes'
    BY <2>1 DEF ObserverInv, ObserverTypes
  <2>4. active => Ordered' /\ Tracked' /\ Bounded'
    BY <2>1, <2>2 DEF ObserverInv, Ordered, Tracked, Bounded
  <2>. QED BY <2>1, <2>2, <2>3, <2>4 DEF ObserverInv
<1>. QED BY <1>1, <1>2, <1>3, <1>4, <1>5 DEF ObserverNext, ObserverRest

(* A slow observer loses events but never track of them: every event it    *)
(* accepts was given to it, waits, or is counted by the one overflow event,*)
(* in the order of the sequences and within the limit (publish, enqueue,   *)
(* #recordDrop and #drain).                                                *)
THEOREM ObserversKeepTrack == ObserverSpec => []ObserverKeepsTrack
<1>1. ObserverInit => ObserverInv
  <2>. SUFFICES ASSUME ObserverInit PROVE ObserverInv
    OBVIOUS
  <2>1. /\ sequence = 0 /\ active = TRUE /\ waiting = <<>> /\ overflow = NoOverflow
        /\ delivering = 0 /\ draining = FALSE /\ accepted = {} /\ told = {} /\ lastTold = 0
    BY DEF ObserverInit
  <2>2. Len(waiting) = 0 /\ waiting \in Seq(EventRecords) /\ Queued = {}
    BY <2>1 DEF Queued
  <2>3. ObserverTypes
    BY <2>1, <2>2 DEF ObserverTypes, NoOverflow
  <2>4. Ordered
    BY <2>1, <2>2 DEF Ordered
  <2>5. Tracked
    BY <2>1, <2>2 DEF Tracked, NoOverflow
  <2>6. Bounded
    BY <2>1, <2>2, ObserverAssumption DEF Bounded, Occupied
  <2>. QED BY <2>3, <2>4, <2>5, <2>6 DEF ObserverInv
<1>2. ObserverInv /\ [ObserverNext]_observerVars => ObserverInv'
  BY ObserverNextKeeps
<1>3. ObserverInv => ObserverKeepsTrack
  <2>. SUFFICES ASSUME ObserverInv, active
                PROVE  LET next == Queued \cup (IF overflow = NoOverflow THEN {} ELSE {overflow.seq})
                       IN  /\ accepted = told \cup Queued \cup overflow.events
                           /\ told \cap Queued = {}
                           /\ overflow.events \cap (told \cup Queued) = {}
                           /\ \A s \in next : lastTold < s
                           /\ Len(waiting) <= MaxQueuedEvents
                           /\ delivering \in accepted => Occupied <= MaxQueuedEvents
                           /\ next # {} => draining
    <3>1. ObserverInv => {waiting[i].seq : i \in DOMAIN waiting} = Queued
      BY LenProperties DEF ObserverInv, ObserverTypes, Queued
    <3>. QED BY <3>1 DEF ObserverKeepsTrack
  <2>1. Ordered /\ Tracked /\ Bounded
    BY DEF ObserverInv
  <2>2. Queued # {} => waiting # <<>>
    BY DEF Queued
  <2>3. \A s \in Queued : lastTold < s
    BY <2>1 DEF Ordered, Queued
  <2>4. overflow # NoOverflow => lastTold < overflow.seq
    BY <2>1 DEF Ordered
  <2>. QED BY <2>1, <2>2, <2>3, <2>4 DEF Tracked, Bounded
<1>. QED BY <1>1, <1>2, <1>3, PTL DEF ObserverSpec

-----------------------------------------------------------------------------
(* The plugins: the inductive invariant.                                   *)

AliveIn(P) == {n \in PluginIds : P[n] # NotInstalled /\ P[n].disposed = 0}

Plugins ==
    [PluginIds -> [definition : Definitions \cup {NotInstalled.definition}, disposed : Nat]]

PluginTypes ==
    /\ app \in [closed : BOOLEAN, revision : GraphRevisions, instances : SUBSET PluginIds]
    /\ replace \in [at : {"idle", "stage", "import", "fiber", "drain"},
                    target : SUBSET Definitions, todo : SUBSET Definitions,
                    staged : SUBSET PluginIds, retired : SUBSET PluginIds, from : Nat]
    /\ plugins \in Plugins
    /\ graphs \in [GraphRevisions -> SUBSET PluginIds]
    /\ runningOn \in [GraphRevisions -> Nat]

\* the plugin whose fiber is under way
InFiber(R) == IF R.at = "fiber" THEN {R.from} ELSE {}

\* an instance that is alive is of the graph, new or retired, and of one of
\* these only; no other will be disposed of
Owned(A, R, P) ==
    /\ \A n \in PluginIds : P[n].disposed <= 1
    /\ AliveIn(P) = A.instances \cup R.staged \cup R.retired \cup InFiber(R)
    /\ A.instances \cap R.staged = {} /\ A.instances \cap R.retired = {}
    /\ InFiber(R) \cap (A.instances \cup R.staged) = {}
    /\ R.at \in {"idle", "drain"} => R.staged = {}
    /\ R.at # "drain" => R.retired = {}
    /\ A.closed => A.instances = {}

\* calls run on the graph that is published, or on the one that drains
Leased(A, R, G, L) ==
    /\ R.at \notin {"idle", "drain"} => A.revision + 1 \in GraphRevisions
    /\ ~A.closed =>
          /\ G[A.revision] = A.instances
          /\ R.at = "drain" =>
                R.from \in GraphRevisions /\ G[R.from] \subseteq A.instances \cup R.retired
          /\ \A r \in GraphRevisions :
                L[r] > 0 => r = A.revision \/ (R.at = "drain" /\ r = R.from)

PluginInv ==
    PluginTypes /\ Owned(app, replace, plugins) /\ Leased(app, replace, graphs, runningOn)

(* Disposing of instances that are alive ends each of them once. *)
LEMMA DisposeEnds ==
    ASSUME PluginTypes, NEW X \in SUBSET AliveIn(plugins),
           \A n \in PluginIds : plugins[n].disposed <= 1
    PROVE  /\ Dispose(X) \in Plugins
           /\ AliveIn(Dispose(X)) = AliveIn(plugins) \ X
           /\ \A n \in PluginIds : Dispose(X)[n].disposed <= 1
<1>1. plugins \in Plugins /\ \A n \in X : n \in PluginIds /\ plugins[n].disposed = 0
  BY DEF PluginTypes, AliveIn
<1>2. ASSUME NEW n \in PluginIds
      PROVE  /\ n \notin X => Dispose(X)[n] = plugins[n]
             /\ n \in X => Dispose(X)[n] = [definition |-> plugins[n].definition, disposed |-> 1]
  <2>1. plugins[n] = [definition |-> plugins[n].definition, disposed |-> plugins[n].disposed]
    BY <1>1 DEF Plugins
  <2>2. n \in X => [plugins[n] EXCEPT !.disposed = @ + 1]
                      = [definition |-> plugins[n].definition, disposed |-> 1]
    BY <1>1, <2>1
  <2>. QED BY <2>2 DEF Dispose
<1>. DEFINE D == Dispose(X)
            Record == [definition : Definitions \cup {NotInstalled.definition}, disposed : Nat]
<1>3. D = [n \in PluginIds |-> D[n]]
  BY DEF Dispose
<1>4. /\ \A n \in PluginIds \ X : D[n] = plugins[n] /\ D[n] \in Record
      /\ \A n \in X : D[n].disposed = 1 /\ D[n] \in Record
  <2>1. ASSUME NEW n \in PluginIds
        PROVE  plugins[n] \in Record /\ plugins[n].definition \in Definitions \cup {NotInstalled.definition}
    BY <1>1 DEF Plugins
  <2>2. ASSUME NEW n \in PluginIds \ X PROVE D[n] = plugins[n] /\ D[n] \in Record
    <3>1. D[n] = plugins[n]
      BY <1>2
    <3>. QED BY <2>1, <3>1
  <2>3. ASSUME NEW n \in X PROVE D[n].disposed = 1 /\ D[n] \in Record
    <3>1. D[n] = [definition |-> plugins[n].definition, disposed |-> 1] /\ n \in PluginIds
      BY <1>1, <1>2
    <3>. HIDE DEF D
    <3>. QED BY <2>1, <3>1
  <2>. QED BY <2>2, <2>3
<1>. HIDE DEF D
<1>5. D \in Plugins
  <2>1. \A n \in PluginIds : D[n] \in Record
    BY <1>4
  <2>. HIDE DEF Record
  <2>2. D \in [PluginIds -> Record]
    BY <1>3, <2>1
  <2>. QED BY <2>2 DEF Plugins, Record
<1>6. AliveIn(D) = AliveIn(plugins) \ X
  <2>1. \A n \in X : n \notin AliveIn(D)
    BY <1>4 DEF AliveIn
  <2>2. \A n \in PluginIds \ X : n \in AliveIn(D) <=> n \in AliveIn(plugins)
    BY <1>4 DEF AliveIn
  <2>3. AliveIn(D) \subseteq PluginIds /\ AliveIn(plugins) \subseteq PluginIds
    BY DEF AliveIn
  <2>. QED BY <2>1, <2>2, <2>3
<1>7. \A n \in PluginIds : D[n].disposed <= 1
  <2>. SUFFICES ASSUME NEW n \in PluginIds PROVE D[n].disposed <= 1
    OBVIOUS
  <2>1. CASE n \in X
    BY <1>4, <2>1
  <2>2. CASE n \notin X
    BY <1>4, <2>2
  <2>. QED BY <2>1, <2>2
<1>. QED BY <1>5, <1>6, <1>7 DEF D

(* A replacement that stages and retires nothing is at rest. *)
LEMMA NothingReplaced ==
    /\ NoReplace.at = "idle" /\ NoReplace.target = {} /\ NoReplace.todo = {}
    /\ NoReplace.staged = {} /\ NoReplace.retired = {} /\ NoReplace.from = 0
    /\ InFiber(NoReplace) = {}
    /\ NoReplace \in [at : {"idle", "stage", "import", "fiber", "drain"},
                      target : SUBSET Definitions, todo : SUBSET Definitions,
                      staged : SUBSET PluginIds, retired : SUBSET PluginIds, from : Nat]
  BY DEF NoReplace, InFiber

(* A step of the replacement that leaves what is staged and retired. *)
LEMMA MovesOn ==
    ASSUME PluginInv, UNCHANGED <<app, plugins, graphs, runningOn>>,
           replace' \in [at : {"idle", "stage", "import", "fiber", "drain"},
                         target : SUBSET Definitions, todo : SUBSET Definitions,
                         staged : SUBSET PluginIds, retired : SUBSET PluginIds, from : Nat],
           replace'.at \in {"stage", "import"}, replace.at # "drain",
           replace'.staged = replace.staged \cup InFiber(replace),
           replace'.retired = replace.retired,
           app.revision + 1 \in GraphRevisions
    PROVE  PluginInv'
<1>1. PluginTypes /\ Owned(app, replace, plugins) /\ Leased(app, replace, graphs, runningOn)
  BY DEF PluginInv
<1>2. PluginTypes'
  BY <1>1 DEF PluginTypes
<1>3. Owned(app, replace', plugins)
  BY <1>1 DEF Owned, InFiber
<1>4. Leased(app, replace', graphs, runningOn)
  BY <1>1 DEF Leased
<1>. QED BY <1>2, <1>3, <1>4 DEF PluginInv

(* The catch around the installs disposes of exactly what was new. *)
LEMMA FailureKeeps ==
    ASSUME PluginInv, ReplaceFails(InFiber(replace)), replace.at # "drain"
    PROVE  PluginInv'
<1>. DEFINE X == replace.staged \cup InFiber(replace)
<1>1. PluginTypes /\ Owned(app, replace, plugins) /\ Leased(app, replace, graphs, runningOn)
  BY DEF PluginInv
<1>2. /\ plugins' = Dispose(X) /\ replace' = NoReplace
      /\ UNCHANGED <<app, graphs, runningOn>>
  BY DEF ReplaceFails
<1>3. X \in SUBSET AliveIn(plugins) /\ \A n \in PluginIds : plugins[n].disposed <= 1
  BY <1>1 DEF Owned
<1>4. /\ Dispose(X) \in Plugins /\ AliveIn(Dispose(X)) = AliveIn(plugins) \ X
      /\ \A n \in PluginIds : Dispose(X)[n].disposed <= 1
  <2>. HIDE DEF X
  <2>. QED BY <1>1, <1>3, DisposeEnds
<1>5. AliveIn(plugins) \ X = app.instances
  BY <1>1 DEF Owned
<1>. HIDE DEF X
<1>6. PluginTypes'
  BY <1>1, <1>2, <1>4, NothingReplaced DEF PluginTypes
<1>7. Owned(app, NoReplace, Dispose(X))
  BY <1>1, <1>4, <1>5, NothingReplaced DEF Owned
<1>8. Leased(app, NoReplace, graphs, runningOn)
  BY <1>1, NothingReplaced DEF Leased
<1>. QED BY <1>2, <1>6, <1>7, <1>8 DEF PluginInv

(* A plugin whose module is there takes an instance that was never used. *)
LEMMA InstallKeeps ==
    ASSUME PluginInv, NEW d \in Definitions, Install(d)
    PROVE  PluginInv'
<1>. DEFINE free == {n \in PluginIds : plugins[n] = NotInstalled}
            n == CHOOSE n \in free : \A k \in free : n <= k
            p == [definition |-> d, disposed |-> 0]
<1>1. PluginTypes /\ Owned(app, replace, plugins) /\ Leased(app, replace, graphs, runningOn)
  BY DEF PluginInv
<1>2. /\ replace.at = "import" /\ ~app.closed /\ d \in replace.todo /\ free # {}
      /\ plugins' = [plugins EXCEPT ![n].definition = d]
      /\ replace' = [replace EXCEPT !.at = "fiber", !.todo = @ \ {d}, !.from = n]
      /\ UNCHANGED <<app, graphs, runningOn>>
  BY DEF Install
<1>3. n \in free
  <2>1. free \in SUBSET Nat
    BY DEF PluginIds
  <2>2. \E m \in free : \A k \in free : m <= k
    <3>. HIDE DEF free
    <3>. QED BY <1>2, <2>1, SmallestExists
  <2>. HIDE DEF free
  <2>. QED BY <2>2
<1>4. n \in PluginIds /\ plugins[n] = NotInstalled /\ n \in Nat
  BY <1>3 DEF PluginIds
<1>. HIDE DEF free, n
<1>5. plugins' = [plugins EXCEPT ![n] = p]
  <2>1. [NotInstalled EXCEPT !.definition = d] = p
    BY DEF NotInstalled
  <2>2. [plugins EXCEPT ![n].definition = d]
            = [plugins EXCEPT ![n] = [plugins[n] EXCEPT !.definition = d]]
    OBVIOUS
  <2>. QED BY <1>2, <1>4, <2>1, <2>2
<1>6. p # NotInstalled /\ p.disposed = 0
  <2>1. d.id # "none"
    BY PluginAssumption
  <2>. QED BY <2>1 DEF NotInstalled
<1>7. n \notin AliveIn(plugins)
  BY <1>4 DEF AliveIn
<1>8. AliveIn(plugins') = AliveIn(plugins) \cup {n}
      /\ \A k \in PluginIds : plugins'[k].disposed <= 1
  <2>1. plugins'[n] = p /\ \A k \in PluginIds : k # n => plugins'[k] = plugins[k]
    BY <1>1, <1>4, <1>5 DEF PluginTypes, Plugins
  <2>2. \A k \in PluginIds : plugins[k].disposed <= 1
    BY <1>1 DEF Owned
  <2>. HIDE DEF p
  <2>3. \A k \in PluginIds : plugins'[k].disposed <= 1
    BY <1>6, <2>1, <2>2
  <2>4. AliveIn(plugins') = AliveIn(plugins) \cup {n}
    BY <1>4, <1>6, <2>1 DEF AliveIn
  <2>. QED BY <2>3, <2>4
<1>9. /\ replace'.at = "fiber" /\ replace'.from = n /\ replace'.target = replace.target
      /\ replace'.todo = replace.todo \ {d}
      /\ replace'.staged = replace.staged /\ replace'.retired = replace.retired
      /\ replace' \in [at : {"idle", "stage", "import", "fiber", "drain"},
                       target : SUBSET Definitions, todo : SUBSET Definitions,
                       staged : SUBSET PluginIds, retired : SUBSET PluginIds, from : Nat]
  BY <1>1, <1>2, <1>4 DEF PluginTypes
<1>10. PluginTypes'
  <2>1. p \in [definition : Definitions \cup {NotInstalled.definition}, disposed : Nat]
    OBVIOUS
  <2>2. plugins' \in Plugins
    <3>. HIDE DEF p
    <3>. QED BY <1>1, <1>4, <1>5, <2>1 DEF PluginTypes, Plugins
  <2>. QED BY <1>1, <1>2, <1>9, <2>2 DEF PluginTypes
<1>11. Owned(app, replace', plugins')
  <2>1. AliveIn(plugins) = app.instances \cup replace.staged
    BY <1>1, <1>2 DEF Owned, InFiber
  <2>2. InFiber(replace') = {n} /\ replace.retired = {} /\ app.instances \cap replace.staged = {}
    BY <1>1, <1>2, <1>9 DEF Owned, InFiber
  <2>. QED BY <1>2, <1>7, <1>8, <1>9, <2>1, <2>2 DEF Owned
<1>12. Leased(app, replace', graphs, runningOn)
  BY <1>1, <1>2, <1>9 DEF Leased
<1>. QED BY <1>2, <1>10, <1>11, <1>12 DEF PluginInv

(* The new graph is published: every instance of the graph before it stays *)
(* in the new one or is retired until its calls have ended.                *)
LEMMA PublishReplacementKeeps ==
    ASSUME PluginInv, PublishReplacement
    PROVE  PluginInv'
<1>. DEFINE kept == {n \in app.instances : plugins[n].definition \in replace.target}
            next == kept \cup replace.staged
<1>1. PluginTypes /\ Owned(app, replace, plugins) /\ Leased(app, replace, graphs, runningOn)
  BY DEF PluginInv
<1>2. /\ replace.at = "stage" /\ replace.todo = {} /\ ~app.closed
      /\ app' = [app EXCEPT !.revision = @ + 1, !.instances = next]
      /\ graphs' = [graphs EXCEPT ![app.revision + 1] = next]
      /\ replace' = [NoReplace EXCEPT !.at = "drain", !.retired = app.instances \ next,
                                      !.from = app.revision]
      /\ UNCHANGED <<plugins, runningOn>>
  BY DEF PublishReplacement, Retired
<1>3. next \in SUBSET PluginIds /\ next \ replace.staged \subseteq app.instances
      /\ replace.staged \subseteq next
  BY <1>1 DEF PluginTypes
<1>. HIDE DEF kept, next
<1>4. app.revision \in GraphRevisions /\ app.revision \in Nat
      /\ app.revision + 1 \in GraphRevisions /\ app.revision + 1 # app.revision
  <2>1. app.revision \in GraphRevisions
    BY <1>1 DEF PluginTypes
  <2>2. app.revision + 1 \in GraphRevisions
    BY <1>1, <1>2 DEF Leased
  <2>. QED BY <2>1, <2>2 DEF GraphRevisions
<1>5. /\ app'.closed = app.closed /\ app'.revision = app.revision + 1 /\ app'.instances = next
      /\ replace'.at = "drain" /\ replace'.staged = {} /\ replace'.retired = app.instances \ next
      /\ replace'.from = app.revision /\ InFiber(replace') = {}
      /\ graphs'[app.revision + 1] = next /\ graphs'[app.revision] = graphs[app.revision]
  <2>1. /\ app'.closed = app.closed /\ app'.revision = app.revision + 1 /\ app'.instances = next
        /\ graphs'[app.revision + 1] = next /\ graphs'[app.revision] = graphs[app.revision]
    BY <1>1, <1>2, <1>4 DEF PluginTypes
  <2>2. /\ replace'.at = "drain" /\ replace'.staged = {} /\ replace'.retired = app.instances \ next
        /\ replace'.from = app.revision
    BY <1>2 DEF NoReplace
  <2>. QED BY <2>1, <2>2 DEF InFiber
<1>6. PluginTypes'
  <2>1. app' \in [closed : BOOLEAN, revision : GraphRevisions, instances : SUBSET PluginIds]
    BY <1>1, <1>2, <1>3, <1>4 DEF PluginTypes
  <2>2. app.instances \ next \in SUBSET PluginIds
    BY <1>1 DEF PluginTypes
  <2>3. replace' \in [at : {"idle", "stage", "import", "fiber", "drain"},
                      target : SUBSET Definitions, todo : SUBSET Definitions,
                      staged : SUBSET PluginIds, retired : SUBSET PluginIds, from : Nat]
    BY <1>2, <1>4, <2>2 DEF NoReplace
  <2>4. graphs' \in [GraphRevisions -> SUBSET PluginIds]
    BY <1>1, <1>2, <1>3 DEF PluginTypes
  <2>. QED BY <1>1, <1>2, <2>1, <2>3, <2>4 DEF PluginTypes
<1>7. Owned(app', replace', plugins)
  <2>1. /\ AliveIn(plugins) = app.instances \cup replace.staged
        /\ \A n \in PluginIds : plugins[n].disposed <= 1
    BY <1>1, <1>2 DEF Owned, InFiber
  <2>2. AliveIn(plugins) = next \cup (app.instances \ next)
    BY <1>3, <2>1
  <2>. QED BY <1>2, <1>5, <2>1, <2>2 DEF Owned
<1>8. Leased(app', replace', graphs', runningOn)
  <2>1. graphs[app.revision] = app.instances
        /\ \A r \in GraphRevisions : runningOn[r] > 0 => r = app.revision
    BY <1>1, <1>2 DEF Leased
  <2>2. app.instances \subseteq next \cup (app.instances \ next)
    OBVIOUS
  <2>. QED BY <1>4, <1>5, <2>1, <2>2 DEF Leased
<1>. QED BY <1>2, <1>6, <1>7, <1>8 DEF PluginInv

(* The graph before has no lease left, and what was retired from it ends. *)
LEMMA DrainedKeeps ==
    ASSUME PluginInv, Drained
    PROVE  PluginInv'
<1>1. PluginTypes /\ Owned(app, replace, plugins) /\ Leased(app, replace, graphs, runningOn)
  BY DEF PluginInv
<1>2. /\ replace.at = "drain" /\ runningOn[replace.from] = 0
      /\ plugins' = Dispose(replace.retired) /\ replace' = NoReplace
      /\ UNCHANGED <<app, graphs, runningOn>>
  BY DEF Drained
<1>3. replace.retired \in SUBSET AliveIn(plugins)
      /\ \A n \in PluginIds : plugins[n].disposed <= 1
  BY <1>1 DEF Owned
<1>4. /\ Dispose(replace.retired) \in Plugins
      /\ AliveIn(Dispose(replace.retired)) = AliveIn(plugins) \ replace.retired
      /\ \A n \in PluginIds : Dispose(replace.retired)[n].disposed <= 1
  BY <1>1, <1>3, DisposeEnds
<1>5. AliveIn(plugins) \ replace.retired = app.instances
  BY <1>1, <1>2 DEF Owned, InFiber
<1>6. PluginTypes'
  BY <1>1, <1>2, <1>4, NothingReplaced DEF PluginTypes
<1>7. Owned(app, NoReplace, plugins')
  BY <1>1, <1>2, <1>4, <1>5, NothingReplaced DEF Owned
<1>8. Leased(app, NoReplace, graphs, runningOn)
  <2>1. \A r \in GraphRevisions : runningOn[r] > 0 => r # replace.from
    BY <1>2
  <2>. QED BY <1>1, <1>2, <2>1, NothingReplaced DEF Leased
<1>. QED BY <1>2, <1>6, <1>7, <1>8 DEF PluginInv

(* close() ends the published graph at whatever await replace() is. *)
LEMMA CloseKeeps ==
    ASSUME PluginInv, CloseApp
    PROVE  PluginInv'
<1>. DEFINE X == app.instances
<1>1. PluginTypes /\ Owned(app, replace, plugins) /\ Leased(app, replace, graphs, runningOn)
  BY DEF PluginInv
<1>2. /\ app' = [app EXCEPT !.closed = TRUE, !.instances = {}]
      /\ plugins' = Dispose(X)
      /\ UNCHANGED <<replace, graphs, runningOn>>
  BY DEF CloseApp
<1>3. X \in SUBSET AliveIn(plugins) /\ \A n \in PluginIds : plugins[n].disposed <= 1
  BY <1>1 DEF Owned
<1>4. /\ Dispose(X) \in Plugins /\ AliveIn(Dispose(X)) = AliveIn(plugins) \ X
      /\ \A n \in PluginIds : Dispose(X)[n].disposed <= 1
  <2>. HIDE DEF X
  <2>. QED BY <1>1, <1>3, DisposeEnds
<1>5. /\ app'.closed = TRUE /\ app'.instances = {} /\ app'.revision = app.revision
      /\ app' \in [closed : BOOLEAN, revision : GraphRevisions, instances : SUBSET PluginIds]
  BY <1>1, <1>2 DEF PluginTypes
<1>6. AliveIn(plugins) \ X = replace.staged \cup replace.retired \cup InFiber(replace)
  BY <1>1 DEF Owned
<1>7. PluginTypes'
  BY <1>1, <1>2, <1>4, <1>5 DEF PluginTypes
<1>8. Owned(app', replace, plugins')
  <2>1. InFiber(replace) \cap replace.staged = {}
    BY <1>1 DEF Owned
  <2>. QED BY <1>1, <1>2, <1>4, <1>5, <1>6, <2>1 DEF Owned
<1>9. Leased(app', replace, graphs, runningOn)
  BY <1>1, <1>5 DEF Leased
<1>. QED BY <1>2, <1>7, <1>8, <1>9 DEF PluginInv

(* Calls begin on the published graph only. *)
LEMMA LeasesKeep ==
    ASSUME PluginInv, TakeLease \/ \E r \in GraphRevisions : ReturnLease(r)
    PROVE  PluginInv'
<1>1. PluginTypes /\ Owned(app, replace, plugins) /\ Leased(app, replace, graphs, runningOn)
  BY DEF PluginInv
<1>2. /\ UNCHANGED <<app, replace, plugins, graphs>>
      /\ runningOn' \in [GraphRevisions -> Nat]
      /\ \A r \in GraphRevisions : runningOn'[r] > 0 => runningOn[r] > 0 \/ r = app.revision
  <2>0. runningOn \in [GraphRevisions -> Nat] /\ app.revision \in GraphRevisions
    BY <1>1 DEF PluginTypes
  <2>1. CASE TakeLease
    <3>1. runningOn' = [runningOn EXCEPT ![app.revision] = runningOn[app.revision] + 1]
          /\ UNCHANGED <<app, replace, plugins, graphs>>
      BY <2>1 DEF TakeLease
    <3>. QED BY <2>0, <3>1
  <2>2. ASSUME NEW k \in GraphRevisions, ReturnLease(k)
        PROVE  /\ UNCHANGED <<app, replace, plugins, graphs>>
               /\ runningOn' \in [GraphRevisions -> Nat]
               /\ \A r \in GraphRevisions : runningOn'[r] > 0 => runningOn[r] > 0
    <3>1. runningOn' = [runningOn EXCEPT ![k] = runningOn[k] - 1] /\ runningOn[k] > 0
          /\ UNCHANGED <<app, replace, plugins, graphs>>
      BY <2>2 DEF ReturnLease
    <3>. QED BY <2>0, <3>1
  <2>. QED BY <2>1, <2>2
<1>3. PluginTypes'
  BY <1>1, <1>2 DEF PluginTypes
<1>4. Leased(app, replace, graphs, runningOn')
  BY <1>1, <1>2 DEF Leased
<1>. QED BY <1>1, <1>2, <1>3, <1>4 DEF PluginInv

(* Every step keeps the invariant. *)
LEMMA PluginNextKeeps ==
    ASSUME PluginInv, [PluginNext]_pluginVars
    PROVE  PluginInv'
<1>0. PluginTypes /\ Owned(app, replace, plugins) /\ Leased(app, replace, graphs, runningOn)
  BY DEF PluginInv
<1>1. ASSUME NEW target \in Graphs, NEW reordered \in BOOLEAN, ReplaceBegins(target, reordered)
      PROVE  PluginInv'
  <2>1. /\ replace.at = "idle" /\ app.revision < MaxReplaces
        /\ replace' = [NoReplace EXCEPT !.at = "stage", !.target = target,
                                        !.todo = target \ DefinitionsOf(app.instances)]
        /\ UNCHANGED <<app, plugins, graphs, runningOn>>
    BY <1>1 DEF ReplaceBegins
  <2>2. app.revision + 1 \in GraphRevisions
    <3>1. app.revision \in 0..MaxReplaces /\ MaxReplaces \in Nat
      BY <1>0, PluginAssumption DEF PluginTypes, GraphRevisions
    <3>. QED BY <2>1, <3>1 DEF GraphRevisions
  <2>3. target \in SUBSET Definitions /\ target \ DefinitionsOf(app.instances) \in SUBSET Definitions
    BY DEF Graphs
  <2>4. /\ replace'.at = "stage" /\ replace'.staged = {} /\ replace'.retired = {}
        /\ replace' \in [at : {"idle", "stage", "import", "fiber", "drain"},
                         target : SUBSET Definitions, todo : SUBSET Definitions,
                         staged : SUBSET PluginIds, retired : SUBSET PluginIds, from : Nat]
    BY <2>1, <2>3 DEF NoReplace
  <2>5. replace.staged = {} /\ replace.retired = {} /\ InFiber(replace) = {}
    BY <1>0, <2>1 DEF Owned, InFiber
  <2>. QED BY <2>1, <2>2, <2>4, <2>5, MovesOn
<1>2. CASE Import \/ Installed
  <2>1. /\ replace.at \in {"stage", "fiber"} /\ UNCHANGED <<app, plugins, graphs, runningOn>>
        /\ replace'.at \in {"stage", "import"} /\ replace'.retired = replace.retired
        /\ replace' \in [at : {"idle", "stage", "import", "fiber", "drain"},
                         target : SUBSET Definitions, todo : SUBSET Definitions,
                         staged : SUBSET PluginIds, retired : SUBSET PluginIds, from : Nat]
        /\ replace'.staged = replace.staged \cup InFiber(replace)
    <3>1. CASE Import
      BY <1>0, <3>1 DEF Import, PluginTypes, InFiber
    <3>2. CASE Installed
      <4>1. replace.from \in PluginIds
        BY <1>0, <3>2 DEF Installed, Owned, InFiber, AliveIn
      <4>2. /\ replace.at = "fiber" /\ UNCHANGED <<app, plugins, graphs, runningOn>>
            /\ replace' = [replace EXCEPT !.at = "stage",
                                          !.staged = replace.staged \cup {replace.from}]
        BY <3>2 DEF Installed
      <4>. QED BY <1>0, <4>1, <4>2 DEF PluginTypes, InFiber
    <3>. QED BY <1>2, <3>1, <3>2
  <2>2. app.revision + 1 \in GraphRevisions
    BY <1>0, <2>1 DEF Leased
  <2>. QED BY <2>1, <2>2, MovesOn
<1>3. CASE \E d \in Definitions : Install(d)
  BY <1>3, InstallKeeps
<1>4. CASE ImportFails \/ InstallFails \/ PublishFails
  <2>1. ReplaceFails(InFiber(replace)) /\ replace.at # "drain"
    BY <1>4 DEF ImportFails, InstallFails, PublishFails, InFiber
  <2>. QED BY <2>1, FailureKeeps
<1>5. CASE PublishReplacement
  BY <1>5, PublishReplacementKeeps
<1>6. CASE Drained
  BY <1>6, DrainedKeeps
<1>7. CASE CloseApp
  BY <1>7, CloseKeeps
<1>8. CASE TakeLease \/ \E r \in GraphRevisions : ReturnLease(r)
  BY <1>8, LeasesKeep
<1>9. CASE UNCHANGED pluginVars
  BY <1>9 DEF pluginVars, PluginInv, PluginTypes
<1>. QED BY <1>1, <1>2, <1>3, <1>4, <1>5, <1>6, <1>7, <1>8, <1>9 DEF PluginNext, PluginRest

(* Plugins outlive their use and nothing more: no instance is disposed of  *)
(* under a call or twice, whatever crosses, and at rest exactly the        *)
(* instances of the current graph are alive (replace, drain and close).    *)
THEOREM PluginsLiveLongEnough == PluginSpec => []PluginsOutliveUse
<1>1. PluginInit => PluginInv
  <2>. SUFFICES ASSUME PluginInit PROVE PluginInv
    OBVIOUS
  <2>1. /\ app = [closed |-> FALSE, revision |-> 0, instances |-> {}]
        /\ replace = NoReplace /\ plugins = [n \in PluginIds |-> NotInstalled]
        /\ graphs = [r \in GraphRevisions |-> {}] /\ runningOn = [r \in GraphRevisions |-> 0]
    BY DEF PluginInit
  <2>2. 0 \in GraphRevisions
    BY PluginAssumption DEF GraphRevisions
  <2>3. /\ AliveIn(plugins) = {} /\ \A n \in PluginIds : plugins[n].disposed = 0
        /\ plugins \in Plugins
    <3>1. NotInstalled.disposed = 0
          /\ NotInstalled \in [definition : {NotInstalled.definition}, disposed : Nat]
      BY DEF NotInstalled
    <3>. QED BY <2>1, <3>1 DEF AliveIn, Plugins
  <2>4. PluginTypes
    BY <2>1, <2>2, <2>3, NothingReplaced DEF PluginTypes
  <2>5. Owned(app, replace, plugins)
    BY <2>1, <2>3, NothingReplaced DEF Owned
  <2>6. Leased(app, replace, graphs, runningOn)
    BY <2>1, <2>2, NothingReplaced DEF Leased
  <2>. QED BY <2>4, <2>5, <2>6 DEF PluginInv
<1>2. PluginInv /\ [PluginNext]_pluginVars => PluginInv'
  BY PluginNextKeeps
<1>3. PluginInv => PluginsOutliveUse
  <2>. SUFFICES ASSUME PluginInv
                PROVE  /\ \A n \in PluginIds : plugins[n].disposed <= 1
                       /\ replace.at = "idle" => AliveIn(plugins) = app.instances
                       /\ ~app.closed => \A r \in GraphRevisions :
                             runningOn[r] > 0 => graphs[r] \subseteq AliveIn(plugins)
    BY DEF PluginsOutliveUse, AliveIn
  <2>1. Owned(app, replace, plugins) /\ Leased(app, replace, graphs, runningOn)
    BY DEF PluginInv
  <2>2. replace.at = "idle" => AliveIn(plugins) = app.instances
    BY <2>1 DEF Owned, InFiber
  <2>3. ASSUME ~app.closed, NEW r \in GraphRevisions, runningOn[r] > 0
        PROVE  graphs[r] \subseteq AliveIn(plugins)
    <3>1. app.instances \cup replace.retired \subseteq AliveIn(plugins)
      BY <2>1 DEF Owned
    <3>. QED BY <2>1, <2>3, <3>1 DEF Leased
  <2>. QED BY <2>1, <2>2, <2>3 DEF Owned
<1>. QED BY <1>1, <1>2, <1>3, PTL DEF PluginSpec

-----------------------------------------------------------------------------
(* The loader: the inductive invariant                                     *)

IsMap(f) == f = [k \in DOMAIN f |-> f[k]]

Bytes == [version : Nat, restricted : BOOLEAN]
Links == [kind : {"import", "require", "resolve"}, to : Files \cup Synthetics]

CacheNames == {"source", "alias", "grant", "module", "negative", "package", "resolution"}

CacheFields(c) == c = [n \in CacheNames |-> c[n]]

SourceTypes(f) ==
    IsMap(f) /\ DOMAIN f \subseteq Files /\ \A k \in DOMAIN f : f[k] \in Bytes
AliasTypes(f) ==
    IsMap(f) /\ DOMAIN f \subseteq Files /\ \A k \in DOMAIN f : f[k] \in Files
ModuleType(m) ==
    m = [version |-> m.version, format |-> m.format, deps |-> m.deps] /\ m.deps \in Seq(Links)
ModuleTypes(f) ==
    IsMap(f) /\ DOMAIN f \subseteq Files \cup Synthetics /\ \A k \in DOMAIN f : ModuleType(f[k])
ResolutionTypes(f) == IsMap(f) /\ \A k \in DOMAIN f : f[k] \in Files \cup Synthetics

CacheTypes(c) ==
    /\ CacheFields(c) /\ SourceTypes(c.source) /\ AliasTypes(c.alias)
    /\ c.grant \subseteq Files /\ ModuleTypes(c.module) /\ IsMap(c.package)
    /\ ResolutionTypes(c.resolution)

CanonicalIn(c, u) == IF u \in DOMAIN c.alias THEN c.alias[u] ELSE u

\* what the caches know of each other, also while a transaction is active
CachesRelate(c) ==
    /\ \A u \in DOMAIN c.alias : c.alias[u] \in DOMAIN c.source \ DOMAIN c.alias
    /\ \A u \in c.grant : CanonicalIn(c, u) \in DOMAIN c.source \cap c.grant
    /\ \A u \in DOMAIN c.module \ Synthetics :
          u \in DOMAIN c.source \cap c.grant /\ c.module[u].version = c.source[u].version
    /\ \A u \in DOMAIN c.module : \A i \in DOMAIN c.module[u].deps :
          c.module[u].deps[i].kind # "resolve" => c.module[u].deps[i].to \in DOMAIN c.module

Linked(c, u) == Len(c.module[u].deps) = Len(Imports[u])

Whole(c) ==
    CacheTypes(c) /\ CachesRelate(c) /\ \A u \in DOMAIN c.module \ Synthetics : Linked(c, u)

-----------------------------------------------------------------------------
(* The frames: what each may be on top of, and what it knows.              *)

WorkingAt == {"deps", "target", "loaded", "typed"}
ResolvingAt == {"relative", "package", "targeted", "aliased"}

Role(f) ==
    CASE f.at = "read" -> "read"
      [] f.at \in {"scope", "scoped"} -> "scope"
      [] f.at \in {"format", "formatted"} -> "format"
      [] f.at \in {"resolve"} \cup ResolvingAt -> "resolve"
      [] f.at \in {"load", "regranted", "source", "analyse"} \cup WorkingAt -> "load"
      [] f.at = "call" -> "call"

AwaitsRole(f) ==
    CASE f.at \in {"scoped", "relative", "targeted", "aliased", "regranted", "source"} -> "read"
      [] f.at \in {"package", "formatted"} -> "scope"
      [] f.at \in {"analyse", "typed"} -> "format"
      [] f.at = "target" -> "resolve"
      [] f.at = "loaded" -> "load"
      [] f.at = "call" -> IF f.op \in {"plan", "resolve"} THEN "resolve" ELSE "load"
      [] OTHER -> "nothing"

Frames ==
    [at : {"read"}, url : Files, purpose : {"module", "metadata"}]
    \cup [at : {"scope"}, url : Files \cup {"entry"}]
    \cup [at : {"scoped"}, root : Manifests]
    \cup [at : {"resolve"}, spec : Specifiers, to : Files \cup Synthetics,
          parent : Files \cup {"entry"}, mode : {"import", "require"}]
    \cup [at : ResolvingAt, spec : Specifiers, to : Files,
          parent : Files \cup {"entry"}, mode : {"import", "require"}]
    \cup [at : {"load"}, url : Files \cup Synthetics]
    \cup [at : {"format", "regranted", "analyse"}, url : Files]
    \cup [at : {"source", "formatted"}]
    \cup [at : {"deps", "target", "loaded"}, url : Files, i : Nat \ {0}]
    \cup [at : {"typed"}, url : Files, i : Nat \ {0}, to : Files]
    \cup [at : {"call"}, op : {"plan", "planned", "load", "resolve"}]

\* the order of the frames on a stack, the top one first
StackOk(s) ==
    /\ s \in Seq(Frames)
    /\ \A i \in 1..Len(s) : Role(s[i]) = "call" <=> i = Len(s)
    /\ \A i \in 1..(Len(s) - 1) :
          /\ Role(s[i]) = AwaitsRole(s[i + 1])
          /\ s[i + 1].at = "source" => s[i].purpose = "module"
    /\ \A i, j \in 1..Len(s) : i < j =>
          /\ s[j].at = "analyse" => Role(s[i]) \in {"read", "scope", "format"}
          /\ s[i].at \in WorkingAt /\ s[j].at \in WorkingAt => s[i].url # s[j].url

\* what a frame that waits may rely on
FrameOk(f, c, keys) ==
    /\ f.at = "regranted" => f.url \in DOMAIN c.module
    /\ f.at = "analyse" => f.url \in (DOMAIN c.source \cap c.grant) \ DOMAIN c.module
    /\ f.at \in WorkingAt =>
          /\ f.url \in DOMAIN c.module \cap keys.module
          /\ f.i = Len(c.module[f.url].deps) + 1
          /\ f.i <= Len(Imports[f.url]) + (IF f.at = "deps" THEN 1 ELSE 0)
    /\ f.at = "typed" => Imports[f.url][f.i].kind = "resolve"

\* and of what it was returned
ValueOk(f, v, c) ==
    /\ AwaitsRole(f) = "read" =>
          v = "null" \/ (v \in DOMAIN c.source /\ (f.at = "source" => v \in c.grant))
    /\ AwaitsRole(f) = "resolve" => v \in Files \cup Synthetics
    /\ AwaitsRole(f) = "load" => v \in DOMAIN c.module

FramesOk(s, c, keys) == \A i \in 1..Len(s) : FrameOk(s[i], c, keys)

\* a module whose dependencies are not all linked is being worked on
Linking(c, s) ==
    \A u \in DOMAIN c.module \ Synthetics :
        Linked(c, u) \/ \E i \in 1..Len(s) : s[i].at \in WorkingAt /\ s[i].url = u

-----------------------------------------------------------------------------
(* The rollback                                                            *)

Undone(now, keys, before) ==
    /\ DOMAIN before = DOMAIN now \ keys
    /\ \A k \in DOMAIN before : before[k] = now[k]

UndoneSource(now, keys, prior, before) ==
    /\ DOMAIN before = DOMAIN now \ keys
    /\ IsMap(prior) /\ DOMAIN prior \subseteq DOMAIN before
    /\ \A k \in DOMAIN before : before[k] = IF k \in DOMAIN prior THEN prior[k] ELSE now[k]

TxnNames == {"stack", "value", "keys", "prior", "sources", "modules"}

StateTypes(S) ==
    /\ S = [c |-> S.c, t |-> S.t] /\ S.t = [n \in TxnNames |-> S.t[n]]
    /\ CacheFields(S.c) /\ CacheFields(S.t.keys)

\* the transaction knows how to bring back the caches b
Undoable(S, b) ==
    /\ StateTypes(S) /\ CacheTypes(S.c)
    /\ UndoneSource(S.c.source, S.t.keys.source, S.t.prior, b.source)
    /\ Undone(S.c.alias, S.t.keys.alias, b.alias)
    /\ b.grant = S.c.grant \ S.t.keys.grant
    /\ Undone(S.c.module, S.t.keys.module, b.module)
    /\ b.negative = S.c.negative \ S.t.keys.negative
    /\ Undone(S.c.package, S.t.keys.package, b.package)
    /\ Undone(S.c.resolution, S.t.keys.resolution, b.resolution)

Underway(S, b) ==
    /\ Undoable(S, b) /\ CachesRelate(S.c)
    /\ S.t.stack # <<>> /\ StackOk(S.t.stack)
    /\ FramesOk(S.t.stack, S.c, S.t.keys) /\ Linking(S.c, S.t.stack)
    /\ ValueOk(S.t.stack[1], S.t.value, S.c)

LoaderInv ==
    /\ IF ActiveTransaction THEN Whole(begun) /\ Underway(Now, begun) ELSE Whole(caches)
    /\ DOMAIN evaluation \subseteq
          IF ActiveTransaction THEN DOMAIN begun.module ELSE DOMAIN caches.module
    /\ FailedLeavesNoTrace

-----------------------------------------------------------------------------
(* The fields of a state after an entry                                    *)

(* An entry changes its cache and the keys of it, and nothing else. *)
EntryEffect(r, S, cache, contents, keys) ==
    /\ StateTypes(r)
    /\ \A n \in CacheNames :
          /\ r.c[n] = IF n = cache THEN contents ELSE S.c[n]
          /\ r.t.keys[n] = IF n = cache THEN S.t.keys[n] \cup keys ELSE S.t.keys[n]
    /\ r.t.stack = S.t.stack /\ r.t.value = S.t.value /\ r.t.prior = S.t.prior

(* A change of one cache leaves the others as they are. *)
LEMMA FieldSet ==
    ASSUME NEW c, CacheFields(c), NEW cache \in CacheNames, NEW v
    PROVE  LET d == [c EXCEPT ![cache] = v]
           IN  CacheFields(d) /\ \A n \in CacheNames : d[n] = IF n = cache THEN v ELSE c[n]
BY DEF CacheFields, CacheNames

(* The keys of one cache grow. *)
LEMMA NotedFields ==
    ASSUME NEW c, CacheFields(c), NEW cache \in CacheNames, NEW keys
    PROVE  /\ CacheFields(Noted(c, cache, keys))
           /\ \A n \in CacheNames :
                 Noted(c, cache, keys)[n] = IF n = cache THEN c[n] \cup keys ELSE c[n]
<1>. DEFINE v == c[cache] \cup keys
<1>1. Noted(c, cache, keys) = [c EXCEPT ![cache] = v]
  BY DEF Noted
<1>2. /\ CacheFields([c EXCEPT ![cache] = v])
      /\ \A n \in CacheNames : [c EXCEPT ![cache] = v][n] = IF n = cache THEN v ELSE c[n]
  <2>. HIDE DEF v
  <2>. QED BY FieldSet
<1>. QED BY <1>1, <1>2

(* Entered does to a state what EntryEffect says. *)
LEMMA EnteredFields ==
    ASSUME NEW S, StateTypes(S), NEW cache \in CacheNames, NEW contents, NEW keys
    PROVE  EntryEffect(Entered(S, cache, contents, keys), S, cache, contents, keys)
<1>. DEFINE r == Entered(S, cache, contents, keys)
            c == [S.c EXCEPT ![cache] = contents]
            k == Noted(S.t.keys, cache, keys)
            t == [S.t EXCEPT !.keys = k]
<1>1. r = [c |-> c, t |-> t]
  BY DEF Entered
<1>2. /\ CacheFields(c)
      /\ \A n \in CacheNames : c[n] = IF n = cache THEN contents ELSE S.c[n]
  BY FieldSet DEF StateTypes
<1>3. /\ CacheFields(k)
      /\ \A n \in CacheNames :
            k[n] = IF n = cache THEN S.t.keys[n] \cup keys ELSE S.t.keys[n]
  <2>. DEFINE o == S.t.keys
  <2>1. CacheFields(o)
    BY DEF StateTypes
  <2>. HIDE DEF o
  <2>2. /\ CacheFields(Noted(o, cache, keys))
        /\ \A n \in CacheNames :
              Noted(o, cache, keys)[n] = IF n = cache THEN o[n] \cup keys ELSE o[n]
    BY <2>1, NotedFields
  <2>. QED BY <2>2 DEF o
<1>. HIDE DEF k, c
<1>4. /\ t = [n \in TxnNames |-> t[n]]
      /\ \A n \in TxnNames : t[n] = IF n = "keys" THEN k ELSE S.t[n]
  BY DEF StateTypes, TxnNames
<1>. HIDE DEF t
<1>5. r.c = c /\ r.t = t /\ r = [c |-> r.c, t |-> r.t]
  BY <1>1
<1>. HIDE DEF r
<1>6. /\ t.keys = k /\ t.stack = S.t.stack /\ t.value = S.t.value /\ t.prior = S.t.prior
  BY <1>4 DEF TxnNames
<1>7. StateTypes(r)
  BY <1>2, <1>3, <1>4, <1>5, <1>6 DEF StateTypes
<1>8. EntryEffect(r, S, cache, contents, keys)
  BY <1>2, <1>3, <1>5, <1>6, <1>7 DEF EntryEffect
<1>. QED BY <1>8 DEF r

-----------------------------------------------------------------------------
(* The publishers: each can be undone.                                     *)

(* An entry added to a map that did not have it can be taken back. *)
LEMMA AddedUndone ==
    ASSUME NEW now, NEW keys, NEW before, NEW k, NEW v, Undone(now, keys, before),
           k \notin DOMAIN now
    PROVE  Undone(Assigned(now, k, v), keys \cup {k}, before)
BY DEF Assigned, Undone

(* What is the same after an entry to a cache, and what is new *)
SameBut(r, S, cache, contents) ==
    /\ r.t.stack = S.t.stack /\ r.t.value = S.t.value
    /\ r.c.source = IF cache = "source" THEN contents ELSE S.c.source
    /\ r.c.alias = IF cache = "alias" THEN contents ELSE S.c.alias
    /\ r.c.grant = IF cache = "grant" THEN contents ELSE S.c.grant
    /\ r.c.module = IF cache = "module" THEN contents ELSE S.c.module
    /\ S.t.keys.module \subseteq r.t.keys.module
    /\ cache # "module" => r.t.keys.module = S.t.keys.module

(* An alias can be taken back. *)
LEMMA AliasUndoable ==
    ASSUME NEW S, NEW b, NEW u \in Files, NEW c \in Files, Undoable(S, b)
    PROVE  LET r == PublishAlias(S, u, c)
           IN  /\ Undoable(r, b)
               /\ IF u = c \/ Has(S.c.alias, u) THEN r = S
                  ELSE SameBut(r, S, "alias", Assigned(S.c.alias, u, c))
<1>1. CASE u = c \/ Has(S.c.alias, u)
  BY <1>1 DEF PublishAlias
<1>2. CASE ~(u = c \/ Has(S.c.alias, u))
  <2>. DEFINE m == Assigned(S.c.alias, u, c)
              r == Entered(S, "alias", m, {u})
  <2>1. /\ AliasTypes(S.c.alias) /\ Undone(S.c.alias, S.t.keys.alias, b.alias)
        /\ StateTypes(S) /\ u \notin DOMAIN S.c.alias
    BY <1>2 DEF Undoable, CacheTypes, Has
  <2>2. /\ IsMap(m) /\ DOMAIN m = DOMAIN S.c.alias \cup {u}
        /\ \A x \in DOMAIN S.c.alias \cup {u} :
              m[x] = IF x = u THEN c ELSE S.c.alias[x]
    BY DEF Assigned, IsMap
  <2>3. Undone(m, S.t.keys.alias \cup {u}, b.alias)
    BY <2>1, AddedUndone
  <2>. HIDE DEF m
  <2>9. AliasTypes(m)
    BY <2>1, <2>2 DEF AliasTypes
  <2>4. EntryEffect(r, S, "alias", m, {u})
    BY <2>1, EnteredFields DEF CacheNames
  <2>. HIDE DEF r
  <2>5. Undoable(r, b)
    BY <2>3, <2>4, <2>9 DEF Undoable, CacheTypes, EntryEffect, StateTypes, CacheNames
  <2>6. SameBut(r, S, "alias", m)
    BY <2>4 DEF SameBut, EntryEffect, CacheNames
  <2>7. PublishAlias(S, u, c) = r
    BY <1>2 DEF PublishAlias, r, m
  <2>. QED BY <1>2, <2>5, <2>6, <2>7 DEF m
<1>. QED BY <1>1, <1>2

(* A package can be taken back. *)
LEMMA PackageUndoable ==
    ASSUME NEW S, NEW b, NEW k, NEW v, Undoable(S, b)
    PROVE  LET r == PublishPackage(S, k, v)
           IN  /\ Undoable(r, b)
               /\ IF Has(S.c.package, k) THEN r = S
                  ELSE SameBut(r, S, "package", Assigned(S.c.package, k, v))
<1>1. CASE Has(S.c.package, k)
  BY <1>1 DEF PublishPackage
<1>2. CASE ~(Has(S.c.package, k))
  <2>. DEFINE m == Assigned(S.c.package, k, v)
              r == Entered(S, "package", m, {k})
  <2>1. /\ IsMap(S.c.package) /\ Undone(S.c.package, S.t.keys.package, b.package)
        /\ StateTypes(S) /\ k \notin DOMAIN S.c.package
    BY <1>2 DEF Undoable, CacheTypes, Has
  <2>2. /\ IsMap(m) /\ DOMAIN m = DOMAIN S.c.package \cup {k}
        /\ \A x \in DOMAIN S.c.package \cup {k} :
              m[x] = IF x = k THEN v ELSE S.c.package[x]
    BY DEF Assigned, IsMap
  <2>3. Undone(m, S.t.keys.package \cup {k}, b.package)
    BY <2>1, AddedUndone
  <2>. HIDE DEF m
  <2>9. IsMap(m)
    BY <2>1, <2>2 DEF IsMap
  <2>4. EntryEffect(r, S, "package", m, {k})
    BY <2>1, EnteredFields DEF CacheNames
  <2>. HIDE DEF r
  <2>5. Undoable(r, b)
    BY <2>3, <2>4, <2>9 DEF Undoable, CacheTypes, EntryEffect, StateTypes, CacheNames
  <2>6. SameBut(r, S, "package", m)
    BY <2>4 DEF SameBut, EntryEffect, CacheNames
  <2>7. PublishPackage(S, k, v) = r
    BY <1>2 DEF PublishPackage, r, m
  <2>. QED BY <1>2, <2>5, <2>6, <2>7 DEF m
<1>. QED BY <1>1, <1>2

(* A resolution can be taken back. *)
LEMMA ResolutionUndoable ==
    ASSUME NEW S, NEW b, NEW k, NEW u \in Files \cup Synthetics, Undoable(S, b)
    PROVE  LET r == PublishResolution(S, k, u)
           IN  /\ Undoable(r, b)
               /\ IF Has(S.c.resolution, k) THEN r = S
                  ELSE SameBut(r, S, "resolution", Assigned(S.c.resolution, k, u))
<1>1. CASE Has(S.c.resolution, k)
  BY <1>1 DEF PublishResolution
<1>2. CASE ~(Has(S.c.resolution, k))
  <2>. DEFINE m == Assigned(S.c.resolution, k, u)
              r == Entered(S, "resolution", m, {k})
  <2>1. /\ ResolutionTypes(S.c.resolution) /\ Undone(S.c.resolution, S.t.keys.resolution, b.resolution)
        /\ StateTypes(S) /\ k \notin DOMAIN S.c.resolution
    BY <1>2 DEF Undoable, CacheTypes, Has
  <2>2. /\ IsMap(m) /\ DOMAIN m = DOMAIN S.c.resolution \cup {k}
        /\ \A x \in DOMAIN S.c.resolution \cup {k} :
              m[x] = IF x = k THEN u ELSE S.c.resolution[x]
    BY DEF Assigned, IsMap
  <2>3. Undone(m, S.t.keys.resolution \cup {k}, b.resolution)
    BY <2>1, AddedUndone
  <2>. HIDE DEF m
  <2>9. ResolutionTypes(m)
    BY <2>1, <2>2 DEF ResolutionTypes
  <2>4. EntryEffect(r, S, "resolution", m, {k})
    BY <2>1, EnteredFields DEF CacheNames
  <2>. HIDE DEF r
  <2>5. Undoable(r, b)
    BY <2>3, <2>4, <2>9 DEF Undoable, CacheTypes, EntryEffect, StateTypes, CacheNames
  <2>6. SameBut(r, S, "resolution", m)
    BY <2>4 DEF SameBut, EntryEffect, CacheNames
  <2>7. PublishResolution(S, k, u) = r
    BY <1>2 DEF PublishResolution, r, m
  <2>. QED BY <1>2, <2>5, <2>6, <2>7 DEF m
<1>. QED BY <1>1, <1>2

\* the module m is entered, and can be taken back
ModuleEntered(r, S, b, k, m) ==
    /\ Undoable(r, b)
    /\ IF Has(S.c.module, k) THEN r = S
       ELSE /\ SameBut(r, S, "module", Assigned(S.c.module, k, m))
            /\ r.t.keys.module = S.t.keys.module \cup {k}

(* A module can be taken back. *)
LEMMA ModuleUndoable ==
    ASSUME NEW S, NEW b, NEW k \in Files \cup Synthetics, NEW m0, Undoable(S, b),
           ModuleType(m0)
    PROVE  ModuleEntered(PublishModule(S, k, m0), S, b, k, m0)
<1>1. CASE Has(S.c.module, k)
  BY <1>1 DEF PublishModule, ModuleEntered
<1>2. CASE ~(Has(S.c.module, k))
  <2>. DEFINE m == Assigned(S.c.module, k, m0)
              r == Entered(S, "module", m, {k})
  <2>1. /\ ModuleTypes(S.c.module) /\ Undone(S.c.module, S.t.keys.module, b.module)
        /\ StateTypes(S) /\ k \notin DOMAIN S.c.module
    BY <1>2 DEF Undoable, CacheTypes, Has
  <2>2. /\ IsMap(m) /\ DOMAIN m = DOMAIN S.c.module \cup {k}
        /\ \A x \in DOMAIN S.c.module \cup {k} :
              m[x] = IF x = k THEN m0 ELSE S.c.module[x]
    BY DEF Assigned, IsMap
  <2>3. Undone(m, S.t.keys.module \cup {k}, b.module)
    BY <2>1, AddedUndone
  <2>. HIDE DEF m
  <2>9. ModuleTypes(m)
    BY <2>1, <2>2 DEF ModuleTypes, ModuleType
  <2>4. EntryEffect(r, S, "module", m, {k})
    BY <2>1, EnteredFields DEF CacheNames
  <2>. HIDE DEF r
  <2>5. Undoable(r, b)
    BY <2>3, <2>4, <2>9 DEF Undoable, CacheTypes, EntryEffect, StateTypes, CacheNames
  <2>6. SameBut(r, S, "module", m)
    BY <2>4 DEF SameBut, EntryEffect, CacheNames
  <2>7. PublishModule(S, k, m0) = r
    BY <1>2 DEF PublishModule, r, m
  <2>8. r.t.keys.module = S.t.keys.module \cup {k}
    BY <2>4 DEF EntryEffect, CacheNames
  <2>. QED BY <1>2, <2>5, <2>6, <2>7, <2>8 DEF m, ModuleEntered
<1>. QED BY <1>1, <1>2

(* Grants can be taken back. *)
LEMMA GrantUndoable ==
    ASSUME NEW S, NEW b, NEW u \in Files, NEW c \in Files, Undoable(S, b)
    PROVE  LET r == PublishModuleGrant(S, u, c)
           IN  Undoable(r, b) /\ SameBut(r, S, "grant", S.c.grant \cup {u, c})
<1>. DEFINE m == S.c.grant \cup {u, c}
            k == {u, c} \ S.c.grant
            r == Entered(S, "grant", m, k)
<1>1. StateTypes(S) /\ b.grant = S.c.grant \ S.t.keys.grant
  BY DEF Undoable
<1>2. b.grant = m \ (S.t.keys.grant \cup k)
  BY <1>1
<1>3. m \subseteq Files \/ "grant" # "grant"
  BY DEF Undoable, CacheTypes
<1>. HIDE DEF m, k
<1>4. EntryEffect(r, S, "grant", m, k)
  BY <1>1, EnteredFields DEF CacheNames
<1>. HIDE DEF r
<1>5. Undoable(r, b)
  BY <1>2, <1>3, <1>4 DEF Undoable, CacheTypes, EntryEffect, StateTypes, CacheNames
<1>6. SameBut(r, S, "grant", m)
  BY <1>4 DEF SameBut, EntryEffect, CacheNames
<1>7. PublishModuleGrant(S, u, c) = r
  BY DEF PublishModuleGrant, r, m, k
<1>. QED BY <1>5, <1>6, <1>7 DEF m

(* A negative answer can be taken back. *)
LEMMA NegativeUndoable ==
    ASSUME NEW S, NEW b, NEW k0, Undoable(S, b)
    PROVE  LET r == PublishNegative(S, k0)
           IN  Undoable(r, b) /\ SameBut(r, S, "negative", S.c.negative \cup {k0})
<1>. DEFINE m == S.c.negative \cup {k0}
            k == {k0} \ S.c.negative
            r == Entered(S, "negative", m, k)
<1>1. StateTypes(S) /\ b.negative = S.c.negative \ S.t.keys.negative
  BY DEF Undoable
<1>2. b.negative = m \ (S.t.keys.negative \cup k)
  BY <1>1
<1>3. m \subseteq Files \/ "negative" # "grant"
  BY DEF Undoable, CacheTypes
<1>. HIDE DEF m, k
<1>4. EntryEffect(r, S, "negative", m, k)
  BY <1>1, EnteredFields DEF CacheNames
<1>. HIDE DEF r
<1>5. Undoable(r, b)
  BY <1>2, <1>3, <1>4 DEF Undoable, CacheTypes, EntryEffect, StateTypes, CacheNames
<1>6. SameBut(r, S, "negative", m)
  BY <1>4 DEF SameBut, EntryEffect, CacheNames
<1>7. PublishNegative(S, k0) = r
  BY DEF PublishNegative, r, m, k
<1>. QED BY <1>5, <1>6, <1>7 DEF m

-----------------------------------------------------------------------------
(* The steps that change the stack and the budgets.                        *)

(* A change of one field of the transaction *)
LEMMA TxnSet ==
    ASSUME NEW S, StateTypes(S), NEW n \in TxnNames \ {"keys"}, NEW v
    PROVE  LET t == [S.t EXCEPT ![n] = v]
               r == [S EXCEPT !.t = t]
           IN  /\ StateTypes(r) /\ r.c = S.c /\ r.t = t /\ r.t.keys = S.t.keys
               /\ \A m \in TxnNames : r.t[m] = IF m = n THEN v ELSE S.t[m]
<1>. DEFINE t == [S.t EXCEPT ![n] = v]
            r == [S EXCEPT !.t = t]
<1>1. /\ t = [m \in TxnNames |-> t[m]]
      /\ \A m \in TxnNames : t[m] = IF m = n THEN v ELSE S.t[m]
  BY DEF StateTypes
<1>. HIDE DEF t
<1>2. r = [c |-> S.c, t |-> t]
  BY DEF StateTypes
<1>. HIDE DEF r
<1>3. r.c = S.c /\ r.t = t /\ r = [c |-> r.c, t |-> r.t]
  BY <1>2
<1>4. t.keys = S.t.keys
  BY <1>1 DEF TxnNames
<1>5. StateTypes(r)
  BY <1>1, <1>3, <1>4 DEF StateTypes
<1>. QED BY <1>1, <1>3, <1>4, <1>5 DEF r, t

(* Only the stack and the value change. *)
SameCaches(r, S) == StateTypes(r) /\ r.c = S.c /\ r.t.keys = S.t.keys /\ r.t.prior = S.t.prior

(* What only changes the stack and the value can be undone as before. *)
LEMMA SameUndoable ==
    ASSUME NEW S, NEW r, NEW b, Undoable(S, b), SameCaches(r, S)
    PROVE  Undoable(r, b)
BY DEF Undoable, SameCaches

(* What a frame that waits does to the state *)
LEMMA AwaitsEffect ==
    ASSUME NEW S, StateTypes(S), NEW f, NEW g
    PROVE  LET r == Awaits(S, f, g)
           IN  /\ SameCaches(r, S) /\ r.t.value = S.t.value
               /\ r.t.stack = g \o <<f>> \o Tail(S.t.stack)
<1>. DEFINE v == g \o <<f>> \o Tail(S.t.stack)
            r == [S EXCEPT !.t = [S.t EXCEPT !["stack"] = v]]
<1>1. Awaits(S, f, g) = r
  BY DEF Awaits
<1>2. /\ StateTypes(r) /\ r.c = S.c /\ r.t.keys = S.t.keys
      /\ \A m \in TxnNames : r.t[m] = IF m = "stack" THEN v ELSE S.t[m]
  <2>. HIDE DEF v
  <2>1. "stack" \in TxnNames \ {"keys"}
    BY DEF TxnNames
  <2>. QED BY <2>1, TxnSet
<1>. HIDE DEF r, v
<1>3. SameCaches(r, S) /\ r.t.value = S.t.value /\ r.t.stack = v
  BY <1>2 DEF SameCaches, TxnNames
<1>. QED BY <1>1, <1>3 DEF v

(* What a frame that returns does to the state *)
LEMMA ReturnsEffect ==
    ASSUME NEW S, StateTypes(S), NEW v
    PROVE  LET r == Returns(S, v)
           IN  SameCaches(r, S) /\ r.t.value = v /\ r.t.stack = Tail(S.t.stack)
<1>. DEFINE w == Tail(S.t.stack)
            q == [S EXCEPT !.t = [S.t EXCEPT !["stack"] = w]]
            r == [q EXCEPT !.t = [q.t EXCEPT !["value"] = v]]
<1>1. Returns(S, v) = r
  BY DEF Returns
<1>2. /\ StateTypes(q) /\ q.c = S.c /\ q.t.keys = S.t.keys
      /\ \A m \in TxnNames : q.t[m] = IF m = "stack" THEN w ELSE S.t[m]
  <2>. HIDE DEF w
  <2>1. "stack" \in TxnNames \ {"keys"}
    BY DEF TxnNames
  <2>. QED BY <2>1, TxnSet
<1>. HIDE DEF q, w
<1>3. /\ StateTypes(r) /\ r.c = q.c /\ r.t.keys = q.t.keys
      /\ \A m \in TxnNames : r.t[m] = IF m = "value" THEN v ELSE q.t[m]
  <2>1. "value" \in TxnNames \ {"keys"}
    BY DEF TxnNames
  <2>. QED BY <1>2, <2>1, TxnSet
<1>. HIDE DEF r
<1>4. SameCaches(r, S) /\ r.t.value = v /\ r.t.stack = w
  BY <1>2, <1>3 DEF SameCaches, TxnNames
<1>. QED BY <1>1, <1>4 DEF w

(* What accountSource does to the state *)
LEMMA AccountSourceEffect ==
    ASSUME NEW S, StateTypes(S), NEW u
    PROVE  LET r == AccountSource(S, u)
           IN  SameCaches(r, S) /\ r.t.value = S.t.value /\ r.t.stack = S.t.stack
<1>. DEFINE w == S.t.sources \cup {u}
            r == [S EXCEPT !.t = [S.t EXCEPT !["sources"] = w]]
<1>1. AccountSource(S, u) = r
  BY DEF AccountSource
<1>2. /\ StateTypes(r) /\ r.c = S.c /\ r.t.keys = S.t.keys
      /\ \A m \in TxnNames : r.t[m] = IF m = "sources" THEN w ELSE S.t[m]
  <2>. HIDE DEF w
  <2>1. "sources" \in TxnNames \ {"keys"}
    BY DEF TxnNames
  <2>. QED BY <2>1, TxnSet
<1>. HIDE DEF r
<1>3. SameCaches(r, S) /\ r.t.value = S.t.value /\ r.t.stack = S.t.stack
  BY <1>2 DEF SameCaches, TxnNames
<1>. QED BY <1>1, <1>3

(* What accountModule does to the state *)
LEMMA AccountModuleEffect ==
    ASSUME NEW S, StateTypes(S), NEW u
    PROVE  LET r == AccountModule(S, u)
           IN  SameCaches(r, S) /\ r.t.value = S.t.value /\ r.t.stack = S.t.stack
<1>. DEFINE w == S.t.modules \cup {u}
            r == [S EXCEPT !.t = [S.t EXCEPT !["modules"] = w]]
<1>1. AccountModule(S, u) = r
  BY DEF AccountModule
<1>2. /\ StateTypes(r) /\ r.c = S.c /\ r.t.keys = S.t.keys
      /\ \A m \in TxnNames : r.t[m] = IF m = "modules" THEN w ELSE S.t[m]
  <2>. HIDE DEF w
  <2>1. "modules" \in TxnNames \ {"keys"}
    BY DEF TxnNames
  <2>. QED BY <2>1, TxnSet
<1>. HIDE DEF r
<1>3. SameCaches(r, S) /\ r.t.value = S.t.value /\ r.t.stack = S.t.stack
  BY <1>2 DEF SameCaches, TxnNames
<1>. QED BY <1>1, <1>3

(* A change of one cache *)
LEMMA CacheSet ==
    ASSUME NEW S, StateTypes(S), NEW n \in CacheNames, NEW v
    PROVE  LET c == [S.c EXCEPT ![n] = v]
               r == [S EXCEPT !.c = c]
           IN  /\ StateTypes(r) /\ r.t = S.t
               /\ \A m \in CacheNames : r.c[m] = IF m = n THEN v ELSE S.c[m]
<1>. DEFINE c == [S.c EXCEPT ![n] = v]
            r == [S EXCEPT !.c = c]
<1>1. CacheFields(c) /\ \A m \in CacheNames : c[m] = IF m = n THEN v ELSE S.c[m]
  BY FieldSet DEF StateTypes
<1>. HIDE DEF c
<1>2. r = [c |-> c, t |-> S.t]
  BY DEF StateTypes
<1>. HIDE DEF r
<1>3. r.c = c /\ r.t = S.t /\ r = [c |-> r.c, t |-> r.t]
  BY <1>2
<1>4. StateTypes(r)
  BY <1>1, <1>3 DEF StateTypes
<1>. QED BY <1>1, <1>3, <1>4 DEF r, c

(* A source can be taken back. *)
LEMMA SourceUndoable ==
    ASSUME NEW S, NEW b, NEW k \in Files, NEW v \in Bytes, Undoable(S, b)
    PROVE  LET r == PublishSource(S, k, v)
           IN  /\ Undoable(r, b)
               /\ IF Has(S.c.source, k) THEN r = S
                  ELSE SameBut(r, S, "source", Assigned(S.c.source, k, v))
<1>1. CASE Has(S.c.source, k)
  BY <1>1 DEF PublishSource
<1>2. CASE ~(Has(S.c.source, k))
  <2>. DEFINE m == Assigned(S.c.source, k, v)
              r == Entered(S, "source", m, {k})
  <2>1. /\ SourceTypes(S.c.source)
        /\ UndoneSource(S.c.source, S.t.keys.source, S.t.prior, b.source)
        /\ StateTypes(S) /\ k \notin DOMAIN S.c.source
    BY <1>2 DEF Undoable, CacheTypes, Has
  <2>2. /\ IsMap(m) /\ DOMAIN m = DOMAIN S.c.source \cup {k}
        /\ \A x \in DOMAIN S.c.source \cup {k} :
              m[x] = IF x = k THEN v ELSE S.c.source[x]
    BY DEF Assigned, IsMap
  <2>. HIDE DEF m
  <2>3. UndoneSource(m, S.t.keys.source \cup {k}, S.t.prior, b.source)
    BY <2>1, <2>2 DEF UndoneSource
  <2>9. SourceTypes(m)
    BY <2>1, <2>2 DEF SourceTypes
  <2>4. EntryEffect(r, S, "source", m, {k})
    BY <2>1, EnteredFields DEF CacheNames
  <2>. HIDE DEF r
  <2>5. Undoable(r, b)
    BY <2>3, <2>4, <2>9 DEF Undoable, CacheTypes, EntryEffect, StateTypes, CacheNames
  <2>6. SameBut(r, S, "source", m)
    BY <2>4 DEF SameBut, EntryEffect, CacheNames
  <2>7. PublishSource(S, k, v) = r
    BY <1>2 DEF PublishSource, r, m
  <2>. QED BY <1>2, <2>5, <2>6, <2>7 DEF m
<1>. QED BY <1>1, <1>2

(* A source that is replaced is kept for the rollback. *)
LEMMA ReplaceUndoable ==
    ASSUME NEW S, NEW b, NEW k \in DOMAIN S.c.source, NEW v \in Bytes, Undoable(S, b)
    PROVE  LET r == ReplaceSource(S, k, v)
           IN  Undoable(r, b) /\ SameBut(r, S, "source", Assigned(S.c.source, k, v))
<1>. DEFINE m == Assigned(S.c.source, k, v)
            old == S.c.source[k]
            q == [S EXCEPT !.c = [S.c EXCEPT !["source"] = m]]
            p(e) == IF k \in S.t.keys.source \/ Has(S.t.prior, k) THEN e
                    ELSE Assigned(e, k, old)
            r == [q EXCEPT !.t = [q.t EXCEPT !["prior"] = p(q.t.prior)]]
<1>1. ReplaceSource(S, k, v) = r
  BY DEF ReplaceSource
<1>2. /\ SourceTypes(S.c.source) /\ StateTypes(S)
      /\ UndoneSource(S.c.source, S.t.keys.source, S.t.prior, b.source)
  BY DEF Undoable, CacheTypes
<1>3. /\ IsMap(m) /\ DOMAIN m = DOMAIN S.c.source
      /\ \A x \in DOMAIN S.c.source : m[x] = IF x = k THEN v ELSE S.c.source[x]
  BY DEF Assigned, IsMap
<1>. HIDE DEF m
<1>4. SourceTypes(m)
  BY <1>2, <1>3 DEF SourceTypes
<1>5. UndoneSource(m, S.t.keys.source, p(S.t.prior), b.source)
  <2>1. CASE k \in S.t.keys.source \/ Has(S.t.prior, k)
    <3>1. p(S.t.prior) = S.t.prior
      BY <2>1
    <3>. HIDE DEF p
    <3>. QED BY <1>2, <1>3, <2>1, <3>1 DEF UndoneSource, Has
  <2>2. CASE ~(k \in S.t.keys.source \/ Has(S.t.prior, k))
    <3>. DEFINE w == p(S.t.prior)
    <3>1. /\ IsMap(w) /\ DOMAIN w = DOMAIN S.t.prior \cup {k}
          /\ \A x \in DOMAIN S.t.prior \cup {k} : w[x] = IF x = k THEN old ELSE S.t.prior[x]
      BY <2>2 DEF Assigned, IsMap
    <3>. HIDE DEF w
    <3>2. UndoneSource(m, S.t.keys.source, w, b.source)
      BY <1>2, <1>3, <2>2, <3>1 DEF UndoneSource, Has
    <3>. QED BY <3>2 DEF w
  <2>. QED BY <2>1, <2>2
<1>. HIDE DEF p
<1>6. /\ StateTypes(q) /\ q.t = S.t
      /\ \A n \in CacheNames : q.c[n] = IF n = "source" THEN m ELSE S.c[n]
  <2>1. "source" \in CacheNames
    BY DEF CacheNames
  <2>. QED BY <1>2, <2>1, CacheSet
<1>. HIDE DEF q
<1>7. /\ StateTypes(r) /\ r.c = q.c /\ r.t.keys = q.t.keys
      /\ \A n \in TxnNames : r.t[n] = IF n = "prior" THEN p(q.t.prior) ELSE q.t[n]
  <2>1. "prior" \in TxnNames \ {"keys"}
    BY DEF TxnNames
  <2>. DEFINE w == p(q.t.prior)
  <2>. HIDE DEF w
  <2>2. r = [q EXCEPT !.t = [q.t EXCEPT !["prior"] = w]]
    BY DEF w
  <2>3. LET z == [q EXCEPT !.t = [q.t EXCEPT !["prior"] = w]]
        IN  /\ StateTypes(z) /\ z.c = q.c /\ z.t.keys = q.t.keys
            /\ \A n \in TxnNames : z.t[n] = IF n = "prior" THEN w ELSE q.t[n]
    BY <1>6, <2>1, TxnSet
  <2>. HIDE DEF r
  <2>. QED BY <2>2, <2>3 DEF w
<1>. HIDE DEF r
<1>8. /\ r.t.prior = p(S.t.prior) /\ r.t.keys = S.t.keys
      /\ r.t.stack = S.t.stack /\ r.t.value = S.t.value
  BY <1>6, <1>7 DEF TxnNames
<1>9. /\ r.c.source = m /\ r.c.alias = S.c.alias /\ r.c.grant = S.c.grant
      /\ r.c.module = S.c.module /\ r.c.negative = S.c.negative
      /\ r.c.package = S.c.package /\ r.c.resolution = S.c.resolution
  BY <1>6, <1>7 DEF CacheNames
<1>10. Undoable(r, b)
  <2>1. CacheTypes(r.c)
    BY <1>4, <1>7, <1>9 DEF Undoable, CacheTypes, StateTypes
  <2>. QED BY <1>5, <1>7, <1>8, <1>9, <2>1 DEF Undoable
<1>11. SameBut(r, S, "source", m)
  BY <1>8, <1>9 DEF SameBut
<1>. QED BY <1>1, <1>10, <1>11 DEF m

(* Linking a dependency of a module of the transaction can be taken back   *)
(* with the module.                                                        *)
LinkEffect(r, S, u, kind, to) ==
    /\ DOMAIN r.c.module = DOMAIN S.c.module
    /\ \A x \in DOMAIN S.c.module : x # u => r.c.module[x] = S.c.module[x]
    /\ r.c.module[u].version = S.c.module[u].version
    /\ r.c.module[u].deps = Append(S.c.module[u].deps, [kind |-> kind, to |-> to])
    /\ r.c.source = S.c.source /\ r.c.alias = S.c.alias /\ r.c.grant = S.c.grant
    /\ r.t = S.t

(* A dependency that is linked can be undone. *)
LEMMA LinkUndoable ==
    ASSUME NEW S, NEW b, NEW u \in DOMAIN S.c.module, u \in S.t.keys.module,
           NEW kind \in {"import", "require", "resolve"}, NEW to \in Files \cup Synthetics,
           Undoable(S, b)
    PROVE  LET r == WithDependency(S, u, kind, to)
           IN  Undoable(r, b) /\ LinkEffect(r, S, u, kind, to)
<1>. DEFINE old == S.c.module[u]
            l == [kind |-> kind, to |-> to]
            ds == Append(old.deps, l)
            e == [old EXCEPT !.deps = ds]
            m == [S.c.module EXCEPT ![u] = e]
            r == [S EXCEPT !.c = [S.c EXCEPT !["module"] = m]]
<1>1. WithDependency(S, u, kind, to) = r
  BY DEF WithDependency
<1>2. /\ ModuleTypes(S.c.module) /\ StateTypes(S)
      /\ Undone(S.c.module, S.t.keys.module, b.module)
  BY DEF Undoable, CacheTypes
<1>3. old = [version |-> old.version, format |-> old.format, deps |-> old.deps]
      /\ old.deps \in Seq(Links)
  BY <1>2 DEF ModuleTypes, ModuleType
<1>4. ds \in Seq(Links)
  BY <1>3, AppendProperties DEF Links
<1>. HIDE DEF ds
<1>5. e = [version |-> old.version, format |-> old.format, deps |-> ds]
  <2>. HIDE DEF old
  <2>. QED BY <1>3
<1>. HIDE DEF e
<1>6. /\ e = [version |-> e.version, format |-> e.format, deps |-> e.deps]
      /\ e.version = old.version /\ e.deps = ds
  BY <1>5
<1>7. /\ IsMap(m) /\ DOMAIN m = DOMAIN S.c.module
      /\ \A x \in DOMAIN S.c.module : m[x] = IF x = u THEN e ELSE S.c.module[x]
  BY <1>2 DEF ModuleTypes, IsMap
<1>. HIDE DEF m
<1>8. ModuleTypes(m)
  BY <1>2, <1>4, <1>6, <1>7 DEF ModuleTypes, ModuleType
<1>9. Undone(m, S.t.keys.module, b.module)
  BY <1>2, <1>7 DEF Undone
<1>10. /\ StateTypes(r) /\ r.t = S.t
       /\ \A n \in CacheNames : r.c[n] = IF n = "module" THEN m ELSE S.c[n]
  <2>1. "module" \in CacheNames
    BY DEF CacheNames
  <2>. QED BY <1>2, <2>1, CacheSet
<1>. HIDE DEF r
<1>11. /\ r.c.source = S.c.source /\ r.c.alias = S.c.alias /\ r.c.grant = S.c.grant
       /\ r.c.module = m /\ r.c.negative = S.c.negative
       /\ r.c.package = S.c.package /\ r.c.resolution = S.c.resolution
  BY <1>10 DEF CacheNames
<1>12. Undoable(r, b)
  <2>1. CacheTypes(r.c)
    BY <1>8, <1>10, <1>11 DEF Undoable, CacheTypes, StateTypes
  <2>. QED BY <1>9, <1>10, <1>11, <2>1 DEF Undoable
<1>13. LinkEffect(r, S, u, kind, to)
  BY <1>6, <1>7, <1>10, <1>11 DEF LinkEffect, ds
<1>. QED BY <1>1, <1>12, <1>13

(* The rollback of a transaction that can be undone brings the caches back. *)
LEMMA MapUndone ==
    ASSUME NEW now, NEW keys, NEW before, IsMap(before), Undone(now, keys, before)
    PROVE  Without(now, keys) = before
BY DEF Without, Restrict, Undone, IsMap

(* rollbackTransaction brings back the caches from before. *)
LEMMA RollbackRestores ==
    ASSUME NEW S, NEW b, Undoable(S, b), CacheTypes(b)
    PROVE  Rollback(S) = b
<1>. DEFINE k == S.t.keys
            w == Without(S.c.source, k.source)
            o == Overridden(w, S.t.prior)
<1>1. o = b.source
  <2>1. UndoneSource(S.c.source, k.source, S.t.prior, b.source) /\ IsMap(b.source)
    BY DEF Undoable, CacheTypes, SourceTypes
  <2>2. /\ DOMAIN w = DOMAIN b.source
        /\ \A x \in DOMAIN b.source : w[x] = S.c.source[x]
    BY <2>1 DEF Without, Restrict, UndoneSource
  <2>. HIDE DEF w, k
  <2>3. /\ DOMAIN o = DOMAIN b.source /\ IsMap(o)
        /\ \A x \in DOMAIN b.source : o[x] = b.source[x]
    BY <2>1, <2>2 DEF Overridden, UndoneSource, IsMap
  <2>. HIDE DEF o
  <2>. QED BY <2>1, <2>3 DEF IsMap
<1>2. Without(S.c.alias, k.alias) = b.alias
  <2>1. Undone(S.c.alias, k.alias, b.alias) /\ IsMap(b.alias)
    BY DEF Undoable, CacheTypes, AliasTypes
  <2>. QED BY <2>1, MapUndone
<1>3. Without(S.c.module, k.module) = b.module
  <2>1. Undone(S.c.module, k.module, b.module) /\ IsMap(b.module)
    BY DEF Undoable, CacheTypes, ModuleTypes
  <2>. QED BY <2>1, MapUndone
<1>4. Without(S.c.package, k.package) = b.package
  <2>1. Undone(S.c.package, k.package, b.package) /\ IsMap(b.package)
    BY DEF Undoable, CacheTypes
  <2>. QED BY <2>1, MapUndone
<1>5. Without(S.c.resolution, k.resolution) = b.resolution
  <2>1. Undone(S.c.resolution, k.resolution, b.resolution) /\ IsMap(b.resolution)
    BY DEF Undoable, CacheTypes, ResolutionTypes
  <2>. QED BY <2>1, MapUndone
<1>6. S.c.grant \ k.grant = b.grant /\ S.c.negative \ k.negative = b.negative
  BY DEF Undoable
<1>7. Rollback(S) = [source |-> o, alias |-> Without(S.c.alias, k.alias),
                     grant |-> S.c.grant \ k.grant,
                     module |-> Without(S.c.module, k.module),
                     negative |-> S.c.negative \ k.negative,
                     package |-> Without(S.c.package, k.package),
                     resolution |-> Without(S.c.resolution, k.resolution)]
  BY DEF Rollback
<1>. HIDE DEF o, k
<1>8. Rollback(S) = [source |-> b.source, alias |-> b.alias, grant |-> b.grant,
                     module |-> b.module, negative |-> b.negative,
                     package |-> b.package, resolution |-> b.resolution]
  BY <1>1, <1>2, <1>3, <1>4, <1>5, <1>6, <1>7
<1>9. b = [n \in CacheNames |-> b[n]]
  BY DEF CacheTypes, CacheFields
<1>. QED BY <1>8, <1>9 DEF CacheNames

-----------------------------------------------------------------------------
(* The stack: one frame returns, changes, or waits for another.            *)

(* The frame on top returns. *)
LEMMA StackReturns ==
    ASSUME NEW s, StackOk(s), s # <<>>, Role(s[1]) # "call"
    PROVE  LET w == Tail(s)
           IN  /\ StackOk(w) /\ w # <<>> /\ Len(w) = Len(s) - 1
               /\ \A i \in 1..Len(w) : i + 1 \in 1..Len(s) /\ w[i] = s[i + 1]
               /\ Role(s[1]) = AwaitsRole(w[1])
               /\ w[1].at = "source" => s[1].purpose = "module"
<1>. DEFINE w == Tail(s)
<1>1. s \in Seq(Frames) /\ Len(s) \in Nat /\ Len(s) >= 1
  BY EmptySeq, LenProperties DEF StackOk
<1>2. /\ w \in Seq(Frames) /\ Len(w) = Len(s) - 1
      /\ \A i \in 1..Len(w) : w[i] = s[i + 1]
  BY <1>1, HeadTailProperties
<1>. HIDE DEF w
<1>3. Len(s) # 1
  BY <1>1 DEF StackOk
<1>4. \A i \in 1..Len(w) : i + 1 \in 1..Len(s) /\ w[i] = s[i + 1]
  BY <1>1, <1>2
<1>5. \A i \in 1..Len(w) : Role(w[i]) = "call" <=> i = Len(w)
  <2>. TAKE i \in 1..Len(w)
  <2>1. Role(s[i + 1]) = "call" <=> i + 1 = Len(s)
    BY <1>4 DEF StackOk
  <2>. QED BY <1>1, <1>2, <1>4, <2>1
<1>6. ASSUME NEW i \in 1..(Len(w) - 1)
      PROVE  /\ Role(w[i]) = AwaitsRole(w[i + 1])
             /\ w[i + 1].at = "source" => w[i].purpose = "module"
  <2>1. /\ i + 1 \in 1..(Len(s) - 1) /\ i \in 1..Len(w) /\ i + 1 \in 1..Len(w)
        /\ (i + 1) + 1 \in 1..Len(s)
    BY <1>1, <1>2
  <2>2. w[i] = s[i + 1] /\ w[i + 1] = s[(i + 1) + 1]
    BY <1>4, <2>1
  <2>3. /\ Role(s[i + 1]) = AwaitsRole(s[(i + 1) + 1])
        /\ s[(i + 1) + 1].at = "source" => s[i + 1].purpose = "module"
    BY <2>1 DEF StackOk
  <2>. QED BY <2>2, <2>3
<1>7. ASSUME NEW i \in 1..Len(w), NEW j \in 1..Len(w), i < j
      PROVE  /\ w[j].at = "analyse" => Role(w[i]) \in {"read", "scope", "format"}
             /\ w[i].at \in WorkingAt /\ w[j].at \in WorkingAt => w[i].url # w[j].url
  <2>1. /\ w[i] = s[i + 1] /\ w[j] = s[j + 1] /\ i + 1 < j + 1
        /\ i + 1 \in 1..Len(s) /\ j + 1 \in 1..Len(s)
    BY <1>4, <1>7, <1>2
  <2>2. /\ s[j + 1].at = "analyse" => Role(s[i + 1]) \in {"read", "scope", "format"}
        /\ s[i + 1].at \in WorkingAt /\ s[j + 1].at \in WorkingAt =>
              s[i + 1].url # s[j + 1].url
    BY <2>1 DEF StackOk
  <2>. QED BY <2>1, <2>2
<1>8. StackOk(w)
  BY <1>2, <1>5, <1>6, <1>7 DEF StackOk
<1>9. w # <<>>
  BY <1>1, <1>2, <1>3
<1>10. /\ Role(s[1]) = AwaitsRole(w[1])
       /\ w[1].at = "source" => s[1].purpose = "module"
  <2>1. 1 \in 1..(Len(s) - 1) /\ 1 \in 1..Len(w)
    BY <1>1, <1>2, <1>3
  <2>2. w[1] = s[1 + 1]
    BY <1>4, <2>1
  <2>3. Role(s[1]) = AwaitsRole(s[1 + 1]) /\ (s[1 + 1].at = "source" => s[1].purpose = "module")
    BY <2>1 DEF StackOk
  <2>. QED BY <2>2, <2>3
<1>. QED BY <1>2, <1>4, <1>8, <1>9, <1>10 DEF w

\* a frame that begins
Begins(g) == g.at \in {"read", "scope", "format", "resolve", "load"}

\* no other frame works on the module of frame f
Alone(f, s) ==
    \A j \in 2..Len(s) : f.at \in WorkingAt /\ s[j].at \in WorkingAt => f.url # s[j].url

(* The frame on top becomes f. *)
LEMMA StackChanges ==
    ASSUME NEW s, StackOk(s), s # <<>>, NEW f \in Frames,
           Role(f) = Role(s[1]), Role(f) # "read", Alone(f, s)
    PROVE  LET w == <<>> \o <<f>> \o Tail(s)
           IN  /\ StackOk(w) /\ w # <<>> /\ Len(w) = Len(s) /\ w[1] = f
               /\ \A i \in 2..Len(w) : i \in 2..Len(s) /\ w[i] = s[i]
<1>. DEFINE w == <<>> \o <<f>> \o Tail(s)
<1>1. s \in Seq(Frames) /\ Len(s) \in Nat /\ Len(s) >= 1
  BY EmptySeq, LenProperties DEF StackOk
<1>2. /\ w \in Seq(Frames) /\ Len(w) = Len(s) /\ w[1] = f
      /\ \A i \in 2..Len(w) : w[i] = s[i]
  <2>1. <<f>> \in Seq(Frames) /\ <<>> \in Seq(Frames) /\ <<>> \o <<f>> = <<f>>
    OBVIOUS
  <2>2. /\ Tail(s) \in Seq(Frames) /\ Len(Tail(s)) = Len(s) - 1
        /\ \A i \in 1..Len(Tail(s)) : Tail(s)[i] = s[i + 1]
    BY <1>1, HeadTailProperties
  <2>. DEFINE z == Tail(s)
  <2>. HIDE DEF z
  <2>3. /\ <<f>> \o z \in Seq(Frames) /\ Len(<<f>> \o z) = 1 + Len(z)
        /\ \A i \in 1..(1 + Len(z)) :
              (<<f>> \o z)[i] = IF i <= 1 THEN f ELSE z[i - 1]
    BY <2>1, <2>2, ConcatProperties DEF z
  <2>4. w = <<f>> \o z
    BY <2>1 DEF z
  <2>5. \A i \in 2..Len(s) : z[i - 1] = s[i]
    BY <1>1, <2>2 DEF z
  <2>. HIDE DEF w
  <2>6. Len(w) = Len(s)
    BY <1>1, <2>2, <2>3, <2>4 DEF z
  <2>7. w[1] = f /\ \A i \in 2..Len(w) : w[i] = z[i - 1]
    BY <1>1, <2>3, <2>4, <2>6
  <2>. QED BY <2>3, <2>4, <2>5, <2>6, <2>7
<1>. HIDE DEF w
<1>3. \A i \in 1..Len(w) : Role(w[i]) = Role(s[i])
  BY <1>1, <1>2
<1>4. \A i \in 1..Len(w) : Role(w[i]) = "call" <=> i = Len(w)
  <2>1. \A i \in 1..Len(s) : Role(s[i]) = "call" <=> i = Len(s)
    BY DEF StackOk
  <2>. QED BY <1>2, <1>3, <2>1
<1>5. ASSUME NEW i \in 1..(Len(w) - 1)
      PROVE  /\ Role(w[i]) = AwaitsRole(w[i + 1])
             /\ w[i + 1].at = "source" => w[i].purpose = "module"
  <2>1. /\ i \in 1..Len(w) /\ i \in 1..(Len(s) - 1) /\ i + 1 \in 2..Len(w)
        /\ i = 1 \/ i \in 2..Len(w)
    BY <1>1, <1>2
  <2>2. /\ Role(s[i]) = AwaitsRole(s[i + 1]) /\ w[i + 1] = s[i + 1]
        /\ s[i + 1].at = "source" => s[i].purpose = "module"
    BY <1>2, <2>1 DEF StackOk
  <2>3. CASE i = 1
    <3>1. s[i + 1].at # "source"
      <4>1. Role(s[1]) # "read"
        OBVIOUS
      <4>2. s[i + 1].at = "source" => AwaitsRole(s[i + 1]) = "read"
        BY DEF AwaitsRole
      <4>. QED BY <2>2, <2>3, <4>1, <4>2
    <3>. QED BY <1>3, <2>1, <2>2, <3>1
  <2>4. CASE i \in 2..Len(w)
    BY <1>2, <2>2, <2>4
  <2>. QED BY <2>1, <2>3, <2>4
<1>6. ASSUME NEW i \in 1..Len(w), NEW j \in 1..Len(w), i < j
      PROVE  /\ w[j].at = "analyse" => Role(w[i]) \in {"read", "scope", "format"}
             /\ w[i].at \in WorkingAt /\ w[j].at \in WorkingAt => w[i].url # w[j].url
  <2>1. j \in 2..Len(w) /\ j \in 2..Len(s) /\ i \in 1..Len(s) /\ j \in 1..Len(s)
    BY <1>1, <1>2, <1>6
  <2>2. w[j] = s[j] /\ Role(w[i]) = Role(s[i])
    BY <1>2, <1>3, <2>1
  <2>3. /\ s[j].at = "analyse" => Role(s[i]) \in {"read", "scope", "format"}
        /\ s[i].at \in WorkingAt /\ s[j].at \in WorkingAt => s[i].url # s[j].url
    BY <1>6, <2>1 DEF StackOk
  <2>4. CASE i = 1
    BY <1>2, <2>1, <2>2, <2>3, <2>4 DEF Alone
  <2>5. CASE i # 1
    <3>1. w[i] = s[i]
      BY <1>1, <1>2, <2>5
    <3>. QED BY <2>2, <2>3, <3>1
  <2>. QED BY <2>4, <2>5
<1>7. StackOk(w)
  BY <1>2, <1>4, <1>5, <1>6 DEF StackOk
<1>8. w # <<>> /\ \A i \in 2..Len(w) : i \in 2..Len(s)
  BY <1>1, <1>2
<1>. QED BY <1>2, <1>7, <1>8 DEF w

\* a stack whose top frame became f and waits for g
AwaitedStack(w, s, f, g) ==
    /\ StackOk(w) /\ w # <<>> /\ Len(w) = Len(s) + 1 /\ w[1] = g /\ w[2] = f
    /\ \A i \in 3..Len(w) : i - 1 \in 2..Len(s) /\ w[i] = s[i - 1]

(* The frame on top becomes f and waits for g. *)
LEMMA StackAwaits ==
    ASSUME NEW s, StackOk(s), s # <<>>, NEW f \in Frames, NEW g \in Frames,
           Role(f) = Role(s[1]), Alone(f, s), Begins(g), Role(g) = AwaitsRole(f),
           f.at = "source" => g.purpose = "module"
    PROVE  AwaitedStack(<<g>> \o <<f>> \o Tail(s), s, f, g)
<1>. DEFINE w == <<g>> \o <<f>> \o Tail(s)
<1>1. s \in Seq(Frames) /\ Len(s) \in Nat /\ Len(s) >= 1
  BY EmptySeq, LenProperties DEF StackOk
<1>2. /\ w \in Seq(Frames) /\ Len(w) = Len(s) + 1 /\ w[1] = g /\ w[2] = f
      /\ \A i \in 3..Len(w) : w[i] = s[i - 1]
  <2>. DEFINE y == <<g>> \o <<f>>
              z == Tail(s)
  <2>1. /\ y \in Seq(Frames) /\ Len(y) = 2 /\ y[1] = g /\ y[2] = f
    OBVIOUS
  <2>2. /\ z \in Seq(Frames) /\ Len(z) = Len(s) - 1
        /\ \A i \in 1..Len(z) : z[i] = s[i + 1]
    BY <1>1, HeadTailProperties
  <2>. HIDE DEF y, z
  <2>3. /\ y \o z \in Seq(Frames) /\ Len(y \o z) = 2 + Len(z)
        /\ \A i \in 1..(2 + Len(z)) : (y \o z)[i] = IF i <= 2 THEN y[i] ELSE z[i - 2]
    <3>1. /\ y \o z \in Seq(Frames) /\ Len(y \o z) = Len(y) + Len(z)
          /\ \A i \in 1..(Len(y) + Len(z)) :
                (y \o z)[i] = IF i <= Len(y) THEN y[i] ELSE z[i - Len(y)]
      BY <2>1, <2>2, ConcatProperties
    <3>. QED BY <2>1, <3>1
  <2>4. w = y \o z
    BY DEF y, z
  <2>. HIDE DEF w
  <2>5. Len(w) = Len(s) + 1 /\ Len(w) \in Nat /\ Len(w) = 2 + Len(z)
    BY <1>1, <2>2, <2>3, <2>4
  <2>6. w[1] = g /\ w[2] = f
    BY <1>1, <2>1, <2>3, <2>4, <2>5
  <2>7. ASSUME NEW i \in 3..Len(w) PROVE w[i] = s[i - 1]
    <3>1. i \in 1..(2 + Len(z)) /\ ~(i <= 2) /\ i - 2 \in 1..Len(z) /\ (i - 2) + 1 = i - 1
      BY <2>5
    <3>2. w[i] = z[i - 2]
      BY <2>3, <2>4, <3>1
    <3>. QED BY <2>2, <3>1, <3>2
  <2>. QED BY <2>3, <2>4, <2>5, <2>6, <2>7
<1>. HIDE DEF w
<1>3. /\ \A i \in 3..Len(w) : i - 1 \in 2..Len(s) /\ i - 1 \in 1..Len(s)
      /\ \A i \in 1..Len(w) : i = 1 \/ i = 2 \/ i \in 3..Len(w)
      /\ 2 \in 1..Len(w) /\ 1 \in 1..Len(w) /\ 1 \in 1..Len(s)
  BY <1>1, <1>2
<1>4. Role(g) \in {"read", "scope", "format", "resolve", "load"}
  BY DEF Begins, Role, WorkingAt, ResolvingAt
<1>5. Role(w[2]) = Role(s[1])
  BY <1>2
<1>6. ASSUME NEW i \in 1..Len(w) PROVE Role(w[i]) = "call" <=> i = Len(w)
  <2>1. CASE i = 1
    BY <1>1, <1>2, <1>4, <2>1
  <2>2. CASE i = 2
    <3>1. Role(s[1]) = "call" <=> 1 = Len(s)
      BY <1>3 DEF StackOk
    <3>2. i = Len(w) <=> 1 = Len(s)
      <4>1. Len(w) = Len(s) + 1 /\ Len(s) \in Nat
        BY <1>1, <1>2
      <4>2. ASSUME NEW m \in Nat PROVE 2 = m + 1 <=> 1 = m
        OBVIOUS
      <4>. QED BY <2>2, <4>1, <4>2
    <3>3. Role(w[i]) = Role(s[1])
      BY <1>5, <2>2
    <3>. QED BY <3>1, <3>2, <3>3
  <2>3. CASE i \in 3..Len(w)
    <3>1. Role(s[i - 1]) = "call" <=> i - 1 = Len(s)
      BY <1>3, <2>3 DEF StackOk
    <3>. QED BY <1>1, <1>2, <2>3, <3>1
  <2>. QED BY <1>3, <2>1, <2>2, <2>3
<1>7. ASSUME NEW i \in 1..(Len(w) - 1)
      PROVE  /\ Role(w[i]) = AwaitsRole(w[i + 1])
             /\ w[i + 1].at = "source" => w[i].purpose = "module"
  <2>1. CASE i = 1
    BY <1>2, <2>1
  <2>2. CASE i = 2
    <3>1. 1 \in 1..(Len(s) - 1) /\ 3 \in 3..Len(w) /\ 3 - 1 = 1 + 1 /\ 2 + 1 = 3
      BY <1>1, <1>2, <2>2
    <3>2. /\ Role(s[1]) = AwaitsRole(s[1 + 1]) /\ w[3] = s[1 + 1]
          /\ s[1 + 1].at = "source" => s[1].purpose = "module"
      BY <1>2, <3>1 DEF StackOk
    <3>3. w[3].at = "source" => Role(f) = "read"
      BY <3>2 DEF AwaitsRole
    <3>4. Role(f) = "read" => f.at = "read"
      BY DEF Role, Frames, ResolvingAt, WorkingAt
    <3>5. f.at = "read" => AwaitsRole(f) = "nothing"
      BY DEF AwaitsRole
    <3>. QED BY <1>2, <1>4, <2>2, <3>1, <3>2, <3>3, <3>4, <3>5
  <2>3. CASE i \in 3..Len(w)
    <3>1. /\ i - 1 \in 1..(Len(s) - 1) /\ i + 1 \in 3..Len(w) /\ (i + 1) - 1 = (i - 1) + 1
      BY <1>1, <1>2, <2>3
    <3>2. /\ Role(s[i - 1]) = AwaitsRole(s[(i - 1) + 1])
          /\ s[(i - 1) + 1].at = "source" => s[i - 1].purpose = "module"
      BY <3>1 DEF StackOk
    <3>3. w[i] = s[i - 1] /\ w[i + 1] = s[(i - 1) + 1]
      BY <1>2, <2>3, <3>1
    <3>. QED BY <3>2, <3>3
  <2>4. i = 1 \/ i = 2 \/ i \in 3..Len(w)
    BY <1>1, <1>2
  <2>. QED BY <2>1, <2>2, <2>3, <2>4
<1>8. ASSUME NEW i \in 1..Len(w), NEW j \in 1..Len(w), i < j
      PROVE  /\ w[j].at = "analyse" => Role(w[i]) \in {"read", "scope", "format"}
             /\ w[i].at \in WorkingAt /\ w[j].at \in WorkingAt => w[i].url # w[j].url
  <2>1. g.at \notin WorkingAt
    BY DEF Begins, WorkingAt
  <2>2. Role(f) \in {"read", "scope", "format"} => Role(g) \in {"read", "scope", "format"}
    <3>1. CASE Role(f) = "read"
      <4>1. f.at = "read"
        BY <3>1 DEF Role, Frames, ResolvingAt, WorkingAt
      <4>. QED BY <1>4, <4>1 DEF AwaitsRole
    <3>2. CASE Role(f) = "scope"
      <4>1. f.at \in {"scope", "scoped"}
        BY <3>2 DEF Role, Frames, ResolvingAt, WorkingAt
      <4>. QED BY <1>4, <4>1 DEF AwaitsRole
    <3>3. CASE Role(f) = "format"
      <4>1. f.at \in {"format", "formatted"}
        BY <3>3 DEF Role, Frames, ResolvingAt, WorkingAt
      <4>. QED BY <1>4, <4>1 DEF AwaitsRole
    <3>. QED BY <3>1, <3>2, <3>3
  <2>3. CASE j = 2
    <3>1. i = 1 /\ w[i] = g /\ w[j] = f
      BY <1>1, <1>2, <1>8, <2>3
    <3>2. f.at = "analyse" => Role(g) = "format"
      BY DEF AwaitsRole
    <3>. QED BY <2>1, <3>1, <3>2
  <2>4. CASE j \in 3..Len(w)
    <3>1. j - 1 \in 2..Len(s) /\ j - 1 \in 1..Len(s) /\ w[j] = s[j - 1] /\ 1 < j - 1
      BY <1>1, <1>2, <1>3, <2>4
    <3>2. CASE i = 1 \/ i = 2
      <4>1. s[j - 1].at = "analyse" => Role(s[1]) \in {"read", "scope", "format"}
        BY <1>3, <3>1 DEF StackOk
      <4>2. f.at \in WorkingAt /\ s[j - 1].at \in WorkingAt => f.url # s[j - 1].url
        BY <3>1 DEF Alone
      <4>. QED BY <1>2, <2>1, <2>2, <3>1, <3>2, <4>1, <4>2
    <3>3. CASE i \in 3..Len(w)
      <4>1. i - 1 \in 1..Len(s) /\ i - 1 < j - 1 /\ w[i] = s[i - 1]
        BY <1>1, <1>2, <1>3, <1>8, <3>3
      <4>2. /\ s[j - 1].at = "analyse" => Role(s[i - 1]) \in {"read", "scope", "format"}
            /\ s[i - 1].at \in WorkingAt /\ s[j - 1].at \in WorkingAt =>
                  s[i - 1].url # s[j - 1].url
        BY <3>1, <4>1 DEF StackOk
      <4>. QED BY <3>1, <4>1, <4>2
    <3>. QED BY <1>3, <3>2, <3>3
  <2>5. j = 2 \/ j \in 3..Len(w)
    BY <1>1, <1>2, <1>8
  <2>. QED BY <2>3, <2>4, <2>5
<1>9. StackOk(w)
  BY <1>2, <1>6, <1>7, <1>8 DEF StackOk
<1>10. w # <<>>
  BY <1>1, <1>2
<1>11. AwaitedStack(w, s, f, g)
  BY <1>2, <1>3, <1>9, <1>10 DEF AwaitedStack
<1>. QED BY <1>11 DEF w

-----------------------------------------------------------------------------
(* A step of a transaction: the caches first, then the stack.              *)

\* the frames below the top one know what they knew
Below(Q, s) == \A i \in 2..Len(s) : FrameOk(s[i], Q.c, Q.t.keys)

\* a module that is not linked is worked on below the top, or is in W
LinkingBut(Q, s, W) ==
    \A u \in DOMAIN Q.c.module \ Synthetics :
        Linked(Q.c, u) \/ u \in W \/ \E i \in 2..Len(s) : s[i].at \in WorkingAt /\ s[i].url = u

\* the caches after a step, with the stack s that it has not changed yet
Prepared(Q, s, b) ==
    /\ Undoable(Q, b) /\ CachesRelate(Q.c) /\ Q.t.stack = s
    /\ StackOk(s) /\ s # <<>> /\ Below(Q, s)

\* what a frame may return
Fits(f, v, c) ==
    /\ Role(f) = "read" =>
          v = "null" \/ (v \in DOMAIN c.source /\ (f.purpose = "module" => v \in c.grant))
    /\ Role(f) = "resolve" => v \in Files \cup Synthetics
    /\ Role(f) = "load" => v \in DOMAIN c.module

(* The top frame may return what the one below waits for. *)
LEMMA ReturnsKeeps ==
    ASSUME NEW Q, NEW b, NEW s, NEW v, Prepared(Q, s, b), LinkingBut(Q, s, {}),
           Role(s[1]) # "call", Fits(s[1], v, Q.c)
    PROVE  Underway(Returns(Q, v), b)
<1>. DEFINE r == Returns(Q, v)
            w == Tail(s)
<1>1. /\ StackOk(w) /\ w # <<>> /\ Len(w) = Len(s) - 1
      /\ \A i \in 1..Len(w) : i + 1 \in 1..Len(s) /\ w[i] = s[i + 1]
      /\ Role(s[1]) = AwaitsRole(w[1])
      /\ w[1].at = "source" => s[1].purpose = "module"
  BY StackReturns DEF Prepared
<1>0. s \in Seq(Frames) /\ Len(s) \in Nat
  BY LenProperties DEF Prepared, StackOk
<1>2. SameCaches(r, Q) /\ r.t.value = v /\ r.t.stack = w
  BY ReturnsEffect DEF Prepared, Undoable
<1>. HIDE DEF r, w
<1>3. Undoable(r, b)
  BY <1>2, SameUndoable DEF Prepared
<1>4. FramesOk(w, Q.c, Q.t.keys)
  <2>1. ASSUME NEW i \in 1..Len(w) PROVE FrameOk(w[i], Q.c, Q.t.keys)
    <3>1. i + 1 \in 2..Len(s) /\ w[i] = s[i + 1]
      BY <1>0, <1>1
    <3>. QED BY <3>1 DEF Prepared, Below
  <2>. QED BY <2>1 DEF FramesOk
<1>5. Linking(Q.c, w)
  <2>1. ASSUME NEW u \in DOMAIN Q.c.module \ Synthetics, ~Linked(Q.c, u)
        PROVE  \E i \in 1..Len(w) : w[i].at \in WorkingAt /\ w[i].url = u
    <3>1. PICK i \in 2..Len(s) : s[i].at \in WorkingAt /\ s[i].url = u
      BY <2>1 DEF LinkingBut
    <3>2. i - 1 \in 1..Len(w) /\ (i - 1) + 1 = i
      BY <1>0, <1>1
    <3>3. w[i - 1] = s[i]
      BY <1>1, <3>2
    <3>. QED BY <3>1, <3>2, <3>3
  <2>. QED BY <2>1 DEF Linking
<1>6. ValueOk(w[1], v, Q.c)
  BY <1>1 DEF Fits, ValueOk
<1>7. Underway(r, b)
  BY <1>1, <1>2, <1>3, <1>4, <1>5, <1>6 DEF Underway, SameCaches, Prepared
<1>. QED BY <1>7 DEF r

(* The top frame may go on as f. *)
LEMMA ChangesKeeps ==
    ASSUME NEW Q, NEW b, NEW s, NEW f \in Frames, Prepared(Q, s, b),
           LinkingBut(Q, s, IF f.at \in WorkingAt THEN {f.url} ELSE {}),
           Role(f) = Role(s[1]), Role(f) # "read", AwaitsRole(f) = "nothing", Alone(f, s),
           FrameOk(f, Q.c, Q.t.keys)
    PROVE  Underway(Awaits(Q, f, <<>>), b)
<1>. DEFINE r == Awaits(Q, f, <<>>)
            w == <<>> \o <<f>> \o Tail(s)
<1>1. /\ StackOk(w) /\ w # <<>> /\ Len(w) = Len(s) /\ w[1] = f
      /\ \A i \in 2..Len(w) : i \in 2..Len(s) /\ w[i] = s[i]
  BY StackChanges DEF Prepared
<1>0. s \in Seq(Frames) /\ Len(s) \in Nat /\ Len(s) >= 1
  BY EmptySeq, LenProperties DEF Prepared, StackOk
<1>2. SameCaches(r, Q) /\ r.t.stack = w
  BY AwaitsEffect DEF Prepared, Undoable
<1>. HIDE DEF r, w
<1>3. Undoable(r, b)
  BY <1>2, SameUndoable DEF Prepared
<1>4. FramesOk(w, Q.c, Q.t.keys)
  <2>1. ASSUME NEW i \in 1..Len(w) PROVE FrameOk(w[i], Q.c, Q.t.keys)
    <3>1. CASE i = 1
      BY <1>1, <3>1
    <3>2. CASE i # 1
      <4>1. i \in 2..Len(w) /\ i \in 2..Len(s)
        BY <1>0, <1>1, <3>2
      <4>. QED BY <1>1, <4>1 DEF Prepared, Below
    <3>. QED BY <3>1, <3>2
  <2>. QED BY <2>1 DEF FramesOk
<1>5. Linking(Q.c, w)
  <2>1. ASSUME NEW u \in DOMAIN Q.c.module \ Synthetics, ~Linked(Q.c, u)
        PROVE  \E i \in 1..Len(w) : w[i].at \in WorkingAt /\ w[i].url = u
    <3>1. CASE f.at \in WorkingAt /\ f.url = u
      <4>1. 1 \in 1..Len(w)
        BY <1>0, <1>1
      <4>. QED BY <1>1, <3>1, <4>1
    <3>2. CASE ~(f.at \in WorkingAt /\ f.url = u)
      <4>1. PICK i \in 2..Len(s) : s[i].at \in WorkingAt /\ s[i].url = u
        BY <2>1, <3>2 DEF LinkingBut
      <4>2. i \in 2..Len(w) /\ i \in 1..Len(w)
        BY <1>0, <1>1
      <4>. QED BY <1>1, <4>1, <4>2
    <3>. QED BY <3>1, <3>2
  <2>. QED BY <2>1 DEF Linking
<1>6. ValueOk(w[1], r.t.value, Q.c)
  BY <1>1 DEF ValueOk
<1>7. Underway(r, b)
  BY <1>1, <1>2, <1>3, <1>4, <1>5, <1>6 DEF Underway, SameCaches, Prepared
<1>. QED BY <1>7 DEF r

(* The top frame may go on as f and wait for g. *)
LEMMA AwaitsKeeps ==
    ASSUME NEW Q, NEW b, NEW s, NEW f \in Frames, NEW g \in Frames, Prepared(Q, s, b),
           LinkingBut(Q, s, IF f.at \in WorkingAt THEN {f.url} ELSE {}),
           Role(f) = Role(s[1]), Alone(f, s), FrameOk(f, Q.c, Q.t.keys),
           Begins(g), Role(g) = AwaitsRole(f), f.at = "source" => g.purpose = "module"
    PROVE  Underway(Awaits(Q, f, <<g>>), b)
<1>. DEFINE r == Awaits(Q, f, <<g>>)
            w == <<g>> \o <<f>> \o Tail(s)
<1>1. /\ StackOk(w) /\ w # <<>> /\ Len(w) = Len(s) + 1 /\ w[1] = g /\ w[2] = f
      /\ \A i \in 3..Len(w) : i - 1 \in 2..Len(s) /\ w[i] = s[i - 1]
  <2>1. StackOk(s) /\ s # <<>>
    BY DEF Prepared
  <2>2. AwaitedStack(w, s, f, g)
    <3>. HIDE DEF w
    <3>1. AwaitedStack(<<g>> \o <<f>> \o Tail(s), s, f, g)
      BY <2>1, StackAwaits
    <3>. QED BY <3>1 DEF w
  <2>. HIDE DEF w
  <2>. QED BY <2>2 DEF AwaitedStack
<1>0. s \in Seq(Frames) /\ Len(s) \in Nat /\ Len(s) >= 1
  BY EmptySeq, LenProperties DEF Prepared, StackOk
<1>2. SameCaches(r, Q) /\ r.t.stack = w
  BY AwaitsEffect DEF Prepared, Undoable
<1>. HIDE DEF r, w
<1>3. Undoable(r, b)
  BY <1>2, SameUndoable DEF Prepared
<1>4. FramesOk(w, Q.c, Q.t.keys)
  <2>1. ASSUME NEW i \in 1..Len(w) PROVE FrameOk(w[i], Q.c, Q.t.keys)
    <3>1. CASE i = 1
      BY <1>1, <3>1 DEF Begins, FrameOk, WorkingAt
    <3>2. CASE i = 2
      BY <1>1, <3>2
    <3>3. CASE i # 1 /\ i # 2
      <4>1. i \in 3..Len(w) /\ i - 1 \in 2..Len(s)
        BY <1>0, <1>1, <3>3
      <4>. QED BY <1>1, <4>1 DEF Prepared, Below
    <3>. QED BY <3>1, <3>2, <3>3
  <2>. QED BY <2>1 DEF FramesOk
<1>5. Linking(Q.c, w)
  <2>1. ASSUME NEW u \in DOMAIN Q.c.module \ Synthetics, ~Linked(Q.c, u)
        PROVE  \E i \in 1..Len(w) : w[i].at \in WorkingAt /\ w[i].url = u
    <3>1. CASE f.at \in WorkingAt /\ f.url = u
      <4>1. 2 \in 1..Len(w)
        BY <1>0, <1>1
      <4>. QED BY <1>1, <3>1, <4>1
    <3>2. CASE ~(f.at \in WorkingAt /\ f.url = u)
      <4>1. PICK i \in 2..Len(s) : s[i].at \in WorkingAt /\ s[i].url = u
        BY <2>1, <3>2 DEF LinkingBut
      <4>2. i + 1 \in 3..Len(w) /\ i + 1 \in 1..Len(w) /\ (i + 1) - 1 = i
        BY <1>0, <1>1
      <4>3. w[i + 1] = s[i]
        BY <1>1, <4>2
      <4>. QED BY <4>1, <4>2, <4>3
    <3>. QED BY <3>1, <3>2
  <2>. QED BY <2>1 DEF Linking
<1>6. ValueOk(w[1], r.t.value, Q.c)
  BY <1>1 DEF ValueOk, Begins, AwaitsRole
<1>7. Underway(r, b)
  BY <1>1, <1>2, <1>3, <1>4, <1>5, <1>6 DEF Underway, SameCaches, Prepared
<1>. QED BY <1>7 DEF r

-----------------------------------------------------------------------------
(* What the frames below know survives what happens above them.            *)

\* the same modules, and no fewer sources and grants
Grown(Q, S) ==
    /\ DOMAIN S.c.source \subseteq DOMAIN Q.c.source /\ S.c.grant \subseteq Q.c.grant
    /\ Q.c.module = S.c.module /\ Q.t.keys.module = S.t.keys.module
    /\ Q.t.stack = S.t.stack

(* What the frames knew they know when the caches have grown. *)
LEMMA GrownKeeps ==
    ASSUME NEW S, NEW Q, NEW b, Underway(S, b), Grown(Q, S), Undoable(Q, b), CachesRelate(Q.c)
    PROVE  /\ Prepared(Q, S.t.stack, b) /\ FrameOk(S.t.stack[1], Q.c, Q.t.keys)
           /\ \A W : (S.t.stack[1].at \in WorkingAt => S.t.stack[1].url \in W) =>
                        LinkingBut(Q, S.t.stack, W)
<1>. DEFINE s == S.t.stack
<1>0. s \in Seq(Frames) /\ Len(s) \in Nat /\ Len(s) >= 1
  BY EmptySeq, LenProperties DEF Underway, StackOk
<1>1. \A i \in 1..Len(s) : FrameOk(s[i], S.c, S.t.keys)
  BY DEF Underway, FramesOk
<1>2. Linking(S.c, s) /\ StackOk(s) /\ s # <<>>
  BY DEF Underway
<1>3. Q.t.stack = s
  BY DEF Grown
<1>. HIDE DEF s
<1>4. ASSUME NEW i \in 1..Len(s) PROVE FrameOk(s[i], Q.c, Q.t.keys)
  BY <1>1 DEF Grown, FrameOk
<1>5. Below(Q, s) /\ FrameOk(s[1], Q.c, Q.t.keys)
  <2>1. 1 \in 1..Len(s) /\ \A i \in 2..Len(s) : i \in 1..Len(s)
    BY <1>0
  <2>. QED BY <1>4, <2>1 DEF Below
<1>6. ASSUME NEW W, s[1].at \in WorkingAt => s[1].url \in W
      PROVE  LinkingBut(Q, s, W)
  <2>1. ASSUME NEW u \in DOMAIN S.c.module \ Synthetics, ~Linked(S.c, u), u \notin W
        PROVE  \E i \in 2..Len(s) : s[i].at \in WorkingAt /\ s[i].url = u
    <3>1. PICK i \in 1..Len(s) : s[i].at \in WorkingAt /\ s[i].url = u
      BY <1>2, <2>1 DEF Linking
    <3>2. i # 1
      BY <1>6, <2>1, <3>1
    <3>3. i \in 2..Len(s)
      BY <1>0, <3>2
    <3>. QED BY <3>1, <3>3
  <2>. QED BY <2>1 DEF LinkingBut, Linked, Grown
<1>7. Prepared(Q, s, b)
  BY <1>2, <1>3, <1>5 DEF Prepared
<1>. QED BY <1>5, <1>6, <1>7 DEF s

-----------------------------------------------------------------------------
(* The steps of the active transaction                                     *)

\* it goes on, or takes back what it did
Advances == \E R : Underway(R, begun) /\ Goes(R)
TakesBack == \E R : Undoable(R, begun) /\ Rejects(R)

(* A step may let the top frame return. *)
LEMMA MayReturn ==
    ASSUME NEW Q, NEW v, Prepared(Q, txn.stack, begun), LinkingBut(Q, txn.stack, {}),
           Role(Innermost) # "call", Fits(Innermost, v, Q.c), Goes(Returns(Q, v))
    PROVE  Advances
<1>1. Role(txn.stack[1]) # "call" /\ Fits(txn.stack[1], v, Q.c)
  BY DEF Innermost
<1>2. Underway(Returns(Q, v), begun)
  <2>. DEFINE s == txn.stack
  <2>1. Prepared(Q, s, begun) /\ LinkingBut(Q, s, {}) /\ Role(s[1]) # "call" /\ Fits(s[1], v, Q.c)
    BY <1>1
  <2>. HIDE DEF s
  <2>. QED BY <2>1, ReturnsKeeps
<1>. QED BY <1>2 DEF Advances

(* A step may let the top frame go on as f. *)
LEMMA MayChange ==
    ASSUME NEW Q, NEW f \in Frames, Prepared(Q, txn.stack, begun),
           LinkingBut(Q, txn.stack, IF f.at \in WorkingAt THEN {f.url} ELSE {}),
           Role(f) = Role(Innermost), Role(f) # "read", AwaitsRole(f) = "nothing",
           Alone(f, txn.stack), FrameOk(f, Q.c, Q.t.keys), Goes(Awaits(Q, f, <<>>))
    PROVE  Advances
<1>. DEFINE s == txn.stack
<1>1. /\ Prepared(Q, s, begun) /\ Role(f) = Role(s[1]) /\ Alone(f, s)
      /\ LinkingBut(Q, s, IF f.at \in WorkingAt THEN {f.url} ELSE {})
  BY DEF Innermost
<1>. HIDE DEF s
<1>2. Underway(Awaits(Q, f, <<>>), begun)
  BY <1>1, ChangesKeeps
<1>. QED BY <1>2 DEF Advances

(* A step may let the top frame go on as f and wait for g. *)
LEMMA MayAwait ==
    ASSUME NEW Q, NEW f \in Frames, NEW g \in Frames, Prepared(Q, txn.stack, begun),
           LinkingBut(Q, txn.stack, IF f.at \in WorkingAt THEN {f.url} ELSE {}),
           Role(f) = Role(Innermost), Alone(f, txn.stack), FrameOk(f, Q.c, Q.t.keys),
           Begins(g), Role(g) = AwaitsRole(f), f.at = "source" => g.purpose = "module",
           Goes(Awaits(Q, f, <<g>>))
    PROVE  Advances
<1>. DEFINE s == txn.stack
<1>1. /\ Prepared(Q, s, begun) /\ Role(f) = Role(s[1]) /\ Alone(f, s)
      /\ LinkingBut(Q, s, IF f.at \in WorkingAt THEN {f.url} ELSE {})
  BY DEF Innermost
<1>. HIDE DEF s
<1>2. Underway(Awaits(Q, f, <<g>>), begun)
  BY <1>1, AwaitsKeeps
<1>. QED BY <1>2 DEF Advances

(* A step may let the transaction fail. *)
LEMMA MayReject ==
    ASSUME NEW Q, Undoable(Q, begun), Rejects(Q)
    PROVE  TakesBack
BY DEF TakesBack

\* what a step of the active transaction may rely on
Active ==
    /\ ActiveTransaction /\ Underway(Now, begun) /\ Now.c = caches /\ Now.t = txn
    /\ Innermost \in Frames /\ FrameOk(Innermost, caches, txn.keys)
    /\ ValueOk(Innermost, txn.value, caches)
    /\ Undoable(Now, begun) /\ StateTypes(Now) /\ CacheTypes(caches) /\ CachesRelate(caches)
    /\ StackOk(txn.stack) /\ txn.stack # <<>>

(* What the invariant gives a step of the active transaction *)
LEMMA WhileActive ==
    ASSUME ActiveTransaction, Underway(Now, begun)
    PROVE  Active
<1>. DEFINE s == txn.stack
<1>1. Now.c = caches /\ Now.t = txn
  BY DEF Now
<1>2. Undoable(Now, begun) /\ CachesRelate(caches) /\ StackOk(s) /\ s # <<>>
      /\ FramesOk(s, caches, txn.keys) /\ ValueOk(s[1], txn.value, caches)
  BY <1>1 DEF Underway
<1>3. s \in Seq(Frames) /\ Len(s) \in Nat /\ Len(s) >= 1 /\ 1 \in 1..Len(s)
  BY <1>2, EmptySeq, LenProperties DEF StackOk
<1>4. s[1] \in Frames /\ FrameOk(s[1], caches, txn.keys)
  BY <1>2, <1>3 DEF FramesOk
<1>5. StateTypes(Now) /\ CacheTypes(caches)
  BY <1>1, <1>2 DEF Undoable
<1>. QED BY <1>1, <1>2, <1>4, <1>5 DEF Active, Innermost

(* What may run when the caches grew *)
LEMMA GrownPrepared ==
    ASSUME NEW Q, Active, Grown(Q, Now), Undoable(Q, begun), CachesRelate(Q.c)
    PROVE  /\ Prepared(Q, txn.stack, begun) /\ FrameOk(Innermost, Q.c, Q.t.keys)
           /\ Innermost.at \notin WorkingAt => LinkingBut(Q, txn.stack, {})
           /\ LinkingBut(Q, txn.stack, {Innermost.url})
<1>. DEFINE s == txn.stack
            S == Now
<1>1. Underway(S, begun) /\ Grown(Q, S) /\ S.t.stack = s
  BY DEF Active
<1>. HIDE DEF S
<1>2. /\ Prepared(Q, S.t.stack, begun) /\ FrameOk(S.t.stack[1], Q.c, Q.t.keys)
      /\ \A W : (S.t.stack[1].at \in WorkingAt => S.t.stack[1].url \in W) =>
                    LinkingBut(Q, S.t.stack, W)
  BY <1>1, GrownKeeps
<1>3. /\ Prepared(Q, s, begun) /\ FrameOk(s[1], Q.c, Q.t.keys)
      /\ \A W : (s[1].at \in WorkingAt => s[1].url \in W) => LinkingBut(Q, s, W)
  BY <1>1, <1>2
<1>. HIDE DEF s
<1>4. s[1].at \notin WorkingAt => LinkingBut(Q, s, {})
  BY <1>3
<1>5. LinkingBut(Q, s, {s[1].url})
  BY <1>3
<1>. QED BY <1>3, <1>4, <1>5 DEF Innermost, s

(* What may run when the caches are the same *)
LEMMA SamePrepared ==
    ASSUME NEW Q, Active, SameCaches(Q, Now), Q.t.stack = txn.stack
    PROVE  /\ Prepared(Q, txn.stack, begun) /\ FrameOk(Innermost, Q.c, Q.t.keys) /\ Q.c = caches
           /\ Innermost.at \notin WorkingAt => LinkingBut(Q, txn.stack, {})
           /\ LinkingBut(Q, txn.stack, {Innermost.url})
<1>1. Undoable(Q, begun)
  BY SameUndoable DEF Active
<1>2. Grown(Q, Now) /\ CachesRelate(Q.c) /\ Q.c = caches
  BY DEF Active, SameCaches, Grown
<1>. QED BY <1>1, <1>2, GrownPrepared

(* What may run on the caches as they are *)
LEMMA NowPrepared ==
    ASSUME Active
    PROVE  /\ Prepared(Now, txn.stack, begun)
           /\ Innermost.at \notin WorkingAt => LinkingBut(Now, txn.stack, {})
           /\ LinkingBut(Now, txn.stack, {Innermost.url})
<1>1. SameCaches(Now, Now) /\ Now.t.stack = txn.stack
  BY DEF Active, SameCaches
<1>. QED BY <1>1, SamePrepared

-----------------------------------------------------------------------------
(* One lemma for each step of the walk                                     *)

(* Where a frame is tells what it is. *)
LEMMA FrameKinds ==
    ASSUME NEW f \in Frames
    PROVE  /\ f.at = "read" => f \in [at : {"read"}, url : Files, purpose : {"module", "metadata"}]
           /\ f.at = "scope" => f \in [at : {"scope"}, url : Files \cup {"entry"}]
           /\ f.at = "scoped" => f \in [at : {"scoped"}, root : Manifests]
           /\ f.at = "resolve" =>
                 f \in [at : {"resolve"}, spec : Specifiers, to : Files \cup Synthetics,
                        parent : Files \cup {"entry"}, mode : {"import", "require"}]
           /\ f.at \in ResolvingAt =>
                 f \in [at : ResolvingAt, spec : Specifiers, to : Files,
                        parent : Files \cup {"entry"}, mode : {"import", "require"}]
           /\ f.at = "load" => f \in [at : {"load"}, url : Files \cup Synthetics]
           /\ f.at \in {"format", "regranted", "analyse"} =>
                 f \in [at : {"format", "regranted", "analyse"}, url : Files]
           /\ f.at \in {"deps", "target", "loaded"} =>
                 f \in [at : {"deps", "target", "loaded"}, url : Files, i : Nat \ {0}]
           /\ f.at = "typed" => f \in [at : {"typed"}, url : Files, i : Nat \ {0}, to : Files]
           /\ f.at = "call" => f \in [at : {"call"}, op : {"plan", "planned", "load", "resolve"}]
BY DEF Frames, ResolvingAt

(* A frame that works on no module is alone. *)
LEMMA IdleAlone ==
    ASSUME NEW f, NEW s, f.at \notin WorkingAt
    PROVE  Alone(f, s)
BY DEF Alone

(* What canonical URLs are *)
LEMMA CanonicalTypes ==
    ASSUME Active
    PROVE  /\ \A u \in Files \cup Synthetics :
                  /\ Canonical(Now, u) \in Files \cup Synthetics
                  /\ Canonical(Now, u) \notin Synthetics => u \in Files
           /\ \A u \in Files : Canonical(Now, u) \in Files
           /\ \A u : Canonical(Now, u) = CanonicalIn(caches, u)
<1>1. AliasTypes(caches.alias) /\ Now.c = caches
  BY DEF Active, CacheTypes
<1>. QED BY <1>1, LoaderAssumption DEF Canonical, CanonicalIn, Has, AliasTypes

(* createPlan goes on to load what it resolved. *)
LEMMA CallGoesOn ==
    ASSUME Active, Runs("call"), Innermost.op = "plan",
           Goes(Awaits(Now, [at |-> "call", op |-> "planned"], <<Load(txn.value)>>))
    PROVE  Advances
<1>. DEFINE f == [at |-> "call", op |-> "planned"]
            g == Load(txn.value)
<1>1. Innermost.at = "call"
  BY DEF Runs
<1>2. txn.value \in Files \cup Synthetics
  BY <1>1 DEF Active, ValueOk, AwaitsRole
<1>3. /\ f \in Frames /\ f.at \notin WorkingAt /\ Role(f) = "call" /\ AwaitsRole(f) = "load"
      /\ f.at # "source" /\ FrameOk(f, Now.c, Now.t.keys)
  BY DEF Frames, WorkingAt, Role, AwaitsRole, FrameOk, ResolvingAt
<1>4. g \in Frames /\ Begins(g) /\ Role(g) = "load"
  BY <1>2 DEF Load, Frames, Begins, Role, ResolvingAt
<1>5. Role(Innermost) = "call" /\ Innermost.at \notin WorkingAt
  BY <1>1 DEF Role, ResolvingAt, WorkingAt
<1>6. Goes(Awaits(Now, f, <<g>>))
  OBVIOUS
<1>. HIDE DEF f, g
<1>7. Alone(f, txn.stack)
  BY <1>3, IdleAlone
<1>8. Prepared(Now, txn.stack, begun) /\ LinkingBut(Now, txn.stack, {})
  BY <1>5, NowPrepared
<1>. QED BY <1>3, <1>4, <1>5, <1>6, <1>7, <1>8, MayAwait

(* A read that the caches answer *)
LEMMA ReadCachedKeeps ==
    ASSUME Active, ReadCached
    PROVE  Advances \/ TakesBack
<1>. DEFINE u == Innermost.url
            c == Canonical(Now, u)
            Q == AccountSource(Now, c)
<1>1. /\ Innermost.at = "read" /\ u \in Files /\ Role(Innermost) = "read"
      /\ Innermost.purpose \in {"module", "metadata"} /\ Innermost.at \notin WorkingAt
  BY FrameKinds DEF Active, ReadCached, Runs, Role, WorkingAt
<1>2. CASE SourceUsable(Now, u, Innermost.purpose) /\ Goes(Returns(Q, c))
  <2>1. c \in DOMAIN caches.source /\ (Innermost.purpose = "module" => c \in caches.grant)
    <3>1. c = CanonicalIn(caches, u)
      BY CanonicalTypes
    <3>2. /\ c \in DOMAIN caches.source
          /\ Innermost.purpose = "metadata" \/ u \in caches.grant
      BY <1>2 DEF SourceUsable, Has, Active
    <3>. HIDE DEF c, u
    <3>. QED BY <1>1, <3>1, <3>2 DEF Active, CachesRelate
  <2>2. SameCaches(Q, Now) /\ Q.t.stack = txn.stack
    BY AccountSourceEffect DEF Active
  <2>. HIDE DEF Q, c, u
  <2>3. /\ Prepared(Q, txn.stack, begun) /\ LinkingBut(Q, txn.stack, {}) /\ Q.c = caches
    BY <1>1, <2>2, SamePrepared
  <2>4. Fits(Innermost, c, Q.c)
    BY <1>1, <2>1, <2>3 DEF Fits
  <2>5. Role(Innermost) # "call"
    BY <1>1
  <2>. QED BY <1>2, <2>3, <2>4, <2>5, MayReturn
<1>3. CASE Rejects(Now)
  BY <1>3, MayReject DEF Active
<1>4. CASE Goes(Returns(Now, "null"))
  <2>1. Fits(Innermost, "null", Now.c) /\ Role(Innermost) # "call"
    BY <1>1 DEF Fits
  <2>. QED BY <1>1, <1>4, <2>1, NowPrepared, MayReturn
<1>. QED BY <1>2, <1>3, <1>4 DEF ReadCached

(* Caches other than those of sources, aliases, grants and modules do not  *)
(* matter to the others.                                                   *)
LEMMA QuietGrows ==
    ASSUME NEW S, NEW Q, NEW cache \in {"negative", "package", "resolution"}, NEW contents,
           SameBut(Q, S, cache, contents), CachesRelate(S.c)
    PROVE  Grown(Q, S) /\ CachesRelate(Q.c)
<1>1. /\ Q.c.source = S.c.source /\ Q.c.alias = S.c.alias /\ Q.c.grant = S.c.grant
      /\ Q.c.module = S.c.module /\ Q.t.keys.module = S.t.keys.module
      /\ Q.t.stack = S.t.stack
  BY DEF SameBut
<1>2. Grown(Q, S)
  BY <1>1 DEF Grown
<1>3. CachesRelate(Q.c)
  BY <1>1 DEF CachesRelate, CanonicalIn
<1>. QED BY <1>2, <1>3

\* a source was entered, or its restriction changed
SourceAdded(r, S, c) ==
    /\ DOMAIN r.c.source = DOMAIN S.c.source \cup {c}
    /\ \A x \in DOMAIN S.c.source : r.c.source[x].version = S.c.source[x].version
    /\ r.c.alias = S.c.alias /\ r.c.grant = S.c.grant /\ r.c.module = S.c.module
    /\ r.t.keys.module = S.t.keys.module /\ r.t.stack = S.t.stack

(* What the host answered is entered. *)
LEMMA SourceEnters ==
    ASSUME NEW S, NEW b, Undoable(S, b), NEW a \in HostSources, NEW purpose
    PROVE  LET c == a.canonical
               r == IF Has(S.c.source, c) THEN Regranted(S, c, purpose, a)
                    ELSE PublishSource(S, c, [version |-> a.version, restricted |-> a.restricted])
           IN  Undoable(r, b) /\ SourceAdded(r, S, c)
<1>. DEFINE c == a.canonical
            v == [version |-> a.version, restricted |-> a.restricted]
            w == Regranted(S, c, purpose, a)
            p == PublishSource(S, c, v)
<1>1. c \in Files /\ v \in Bytes /\ a.restricted \in BOOLEAN
  BY DEF HostSources, Bytes
<1>2. SourceTypes(S.c.source)
  BY DEF Undoable, CacheTypes
<1>. HIDE DEF c, v
<1>3. CASE ~Has(S.c.source, c)
  <2>1. Undoable(p, b) /\ SameBut(p, S, "source", Assigned(S.c.source, c, v))
    BY <1>1, <1>3, SourceUndoable
  <2>. HIDE DEF p
  <2>2. SourceAdded(p, S, c)
    BY <1>3, <2>1 DEF SourceAdded, SameBut, Assigned, Has
  <2>. QED BY <1>3, <2>1, <2>2 DEF p, c, v
<1>4. CASE Has(S.c.source, c)
  <2>. DEFINE old == S.c.source[c]
              new == IF purpose = "module" THEN [old EXCEPT !.restricted = FALSE]
                     ELSE [old EXCEPT !.restricted = @ \/ a.restricted]
              q == ReplaceSource(S, c, new)
  <2>1. c \in DOMAIN S.c.source /\ old \in Bytes
    BY <1>2, <1>4 DEF SourceTypes, Has
  <2>2. new \in Bytes /\ new.version = old.version
    <3>. HIDE DEF old
    <3>. QED BY <1>1, <2>1 DEF Bytes
  <2>3. w = IF new = old THEN S ELSE q
    BY DEF Regranted
  <2>. HIDE DEF new
  <2>4. Undoable(q, b) /\ SameBut(q, S, "source", Assigned(S.c.source, c, new))
    BY <2>1, <2>2, ReplaceUndoable
  <2>. HIDE DEF q, w
  <2>5. SourceAdded(q, S, c)
    BY <2>1, <2>2, <2>4 DEF SourceAdded, SameBut, Assigned
  <2>6. SourceAdded(S, S, c)
    BY <2>1 DEF SourceAdded
  <2>7. Undoable(w, b) /\ SourceAdded(w, S, c)
    BY <2>3, <2>4, <2>5, <2>6
  <2>. QED BY <1>4, <2>7 DEF w, c
<1>. QED BY <1>3, <1>4

(* A source that is read keeps the caches related. *)
LEMMA ReadRelates ==
    ASSUME NEW o, NEW n, CachesRelate(o), NEW u, NEW c,
           CanonicalIn(o, u) \in DOMAIN o.source => c = CanonicalIn(o, u),
           c # u => c \notin DOMAIN o.alias,
           DOMAIN n.source = DOMAIN o.source \cup {c},
           \A x \in DOMAIN o.source : n.source[x].version = o.source[x].version,
           n.module = o.module, n.grant = o.grant \/ n.grant = o.grant \cup {u, c},
           IF u = c \/ u \in DOMAIN o.alias THEN n.alias = o.alias
           ELSE n.alias = Assigned(o.alias, u, c)
    PROVE  CachesRelate(n)
<1>1. /\ DOMAIN n.alias = IF u = c \/ u \in DOMAIN o.alias THEN DOMAIN o.alias
                          ELSE DOMAIN o.alias \cup {u}
      /\ \A x \in DOMAIN o.alias : n.alias[x] = o.alias[x]
      /\ u # c /\ u \notin DOMAIN o.alias => n.alias[u] = c
  BY DEF Assigned
<1>2. \A x \in DOMAIN o.alias : o.alias[x] \in DOMAIN o.source \ DOMAIN o.alias
  BY DEF CachesRelate
<1>3. \A x \in o.grant : CanonicalIn(o, x) \in DOMAIN o.source \cap o.grant
  BY DEF CachesRelate
<1>4. c \notin DOMAIN n.alias
  BY <1>1, <1>2 DEF CanonicalIn
<1>5. u # c /\ u \notin DOMAIN o.alias => u \notin DOMAIN o.source
  BY DEF CanonicalIn
<1>6. ASSUME NEW x \in DOMAIN n.alias
      PROVE  n.alias[x] \in DOMAIN n.source \ DOMAIN n.alias
  <2>1. CASE x \in DOMAIN o.alias
    BY <1>1, <1>2, <1>5, <2>1
  <2>2. CASE x \notin DOMAIN o.alias
    BY <1>1, <1>4, <2>2
  <2>. QED BY <2>1, <2>2
<1>7. CanonicalIn(n, u) = c
  <2>1. CASE u \in DOMAIN o.alias
    BY <1>1, <1>2, <2>1 DEF CanonicalIn
  <2>2. CASE u \notin DOMAIN o.alias
    BY <1>1, <2>2 DEF CanonicalIn
  <2>. QED BY <2>1, <2>2
<1>8. CanonicalIn(n, c) = c
  BY <1>4 DEF CanonicalIn
<1>9. ASSUME NEW x \in n.grant
      PROVE  CanonicalIn(n, x) \in DOMAIN n.source \cap n.grant
  <2>1. CASE x \in o.grant /\ x # u
    <3>1. CanonicalIn(n, x) = CanonicalIn(o, x)
      BY <1>1, <2>1 DEF CanonicalIn
    <3>. QED BY <1>3, <2>1, <3>1
  <2>2. CASE x = u
    <3>1. CASE n.grant = o.grant
      <4>1. CanonicalIn(o, u) \in DOMAIN o.source \cap o.grant
        BY <1>3, <1>9, <2>2, <3>1
      <4>2. c = CanonicalIn(o, u)
        BY <4>1
      <4>. QED BY <1>7, <2>2, <3>1, <4>1, <4>2
    <3>2. CASE n.grant = o.grant \cup {u, c}
      BY <1>7, <2>2, <3>2
    <3>. QED BY <3>1, <3>2
  <2>3. CASE x = c
    <3>1. CASE n.grant = o.grant
      BY <1>8, <1>9, <2>3, <3>1
    <3>2. CASE n.grant = o.grant \cup {u, c}
      BY <1>8, <2>3, <3>2
    <3>. QED BY <3>1, <3>2
  <2>. QED BY <2>1, <2>2, <2>3, <1>9
<1>10. ASSUME NEW x \in DOMAIN n.module \ Synthetics
       PROVE  /\ x \in DOMAIN n.source \cap n.grant
              /\ n.module[x].version = n.source[x].version
  BY DEF CachesRelate
<1>11. ASSUME NEW x \in DOMAIN n.module, NEW i \in DOMAIN n.module[x].deps
       PROVE  n.module[x].deps[i].kind # "resolve" => n.module[x].deps[i].to \in DOMAIN n.module
  BY DEF CachesRelate
<1>. QED BY <1>6, <1>9, <1>10, <1>11 DEF CachesRelate

(* The host's source enters the caches as a whole, with its grant and its alias. *)
LEMMA SourceIsRead ==
    ASSUME Active, Runs("read"), NEW a \in HostSources,
           IdentityKept(Now, Innermost.url, a.canonical),
           NEW e, Undoable(e, begun), SourceAdded(e, Now, a.canonical),
           NEW g, g = IF Innermost.purpose = "module"
                      THEN PublishModuleGrant(e, Innermost.url, a.canonical) ELSE e
    PROVE  /\ Undoable(g, begun)
           /\ Goes(Returns(PublishAlias(g, Innermost.url, a.canonical), a.canonical)) => Advances
<1>. DEFINE u == Innermost.url
            c == a.canonical
            p == PublishAlias(g, u, c)
<1>1. /\ Innermost.at = "read" /\ u \in Files /\ Role(Innermost) = "read"
      /\ Innermost.purpose \in {"module", "metadata"} /\ Innermost.at \notin WorkingAt
  BY FrameKinds DEF Active, Runs, Role, WorkingAt
<1>2. c \in Files
  BY DEF HostSources
<1>3. /\ Undoable(g, begun) /\ DOMAIN g.c.source = DOMAIN caches.source \cup {c}
      /\ \A x \in DOMAIN caches.source : g.c.source[x].version = caches.source[x].version
      /\ g.c.alias = caches.alias /\ g.c.module = caches.module
      /\ g.t.keys.module = txn.keys.module /\ g.t.stack = txn.stack
      /\ g.c.grant = IF Innermost.purpose = "module" THEN caches.grant \cup {u, c}
                     ELSE caches.grant
  <2>1. /\ DOMAIN e.c.source = DOMAIN caches.source \cup {c}
        /\ \A x \in DOMAIN caches.source : e.c.source[x].version = caches.source[x].version
        /\ e.c.alias = caches.alias /\ e.c.module = caches.module
        /\ e.t.keys.module = txn.keys.module /\ e.t.stack = txn.stack
        /\ e.c.grant = caches.grant
    BY DEF SourceAdded, Active
  <2>2. CASE Innermost.purpose # "module"
    BY <2>1, <2>2
  <2>3. CASE Innermost.purpose = "module"
    <3>1. g = PublishModuleGrant(e, u, c)
      BY <2>3
    <3>. HIDE DEF u, c
    <3>2. Undoable(g, begun) /\ SameBut(g, e, "grant", e.c.grant \cup {u, c})
      BY <1>1, <1>2, <3>1, GrantUndoable
    <3>. QED BY <2>1, <2>3, <3>2 DEF SameBut
  <2>. QED BY <2>2, <2>3
<1>. HIDE DEF u, c
<1>4. /\ Undoable(p, begun)
      /\ IF u = c \/ Has(g.c.alias, u) THEN p = g
         ELSE SameBut(p, g, "alias", Assigned(g.c.alias, u, c))
  BY <1>1, <1>2, <1>3, AliasUndoable
<1>. HIDE DEF p
<1>5. /\ DOMAIN p.c.source = DOMAIN caches.source \cup {c}
      /\ \A x \in DOMAIN caches.source : p.c.source[x].version = caches.source[x].version
      /\ IF u = c \/ u \in DOMAIN caches.alias THEN p.c.alias = caches.alias
         ELSE p.c.alias = Assigned(caches.alias, u, c)
      /\ p.c.module = caches.module
      /\ p.t.keys.module = txn.keys.module /\ p.t.stack = txn.stack
      /\ p.c.grant = IF Innermost.purpose = "module" THEN caches.grant \cup {u, c}
                     ELSE caches.grant
  BY <1>3, <1>4 DEF SameBut, Has
<1>6. /\ CanonicalIn(caches, u) \in DOMAIN caches.source => c = CanonicalIn(caches, u)
      /\ c # u => c \notin DOMAIN caches.alias
  <2>1. IdentityKept(Now, u, c)
    BY DEF u, c
  <2>2. Canonical(Now, u) = CanonicalIn(caches, u)
    BY CanonicalTypes
  <2>. QED BY <2>1, <2>2 DEF IdentityKept, Has, Active
<1>7. CachesRelate(p.c)
  <2>. DEFINE n == p.c
  <2>1. /\ DOMAIN n.source = DOMAIN caches.source \cup {c}
        /\ \A x \in DOMAIN caches.source : n.source[x].version = caches.source[x].version
        /\ IF u = c \/ u \in DOMAIN caches.alias THEN n.alias = caches.alias
           ELSE n.alias = Assigned(caches.alias, u, c)
        /\ n.module = caches.module
        /\ n.grant = caches.grant \/ n.grant = caches.grant \cup {u, c}
        /\ CachesRelate(caches)
    BY <1>5 DEF Active
  <2>. HIDE DEF n
  <2>2. CachesRelate(n)
    BY <1>6, <2>1, ReadRelates
  <2>. QED BY <2>2 DEF n
<1>8. Grown(p, Now)
  BY <1>5 DEF Grown, Active
<1>9. Prepared(p, txn.stack, begun) /\ LinkingBut(p, txn.stack, {})
  BY <1>1, <1>4, <1>7, <1>8, GrownPrepared
<1>10. Fits(Innermost, c, p.c)
  BY <1>1, <1>5 DEF Fits
<1>11. Goes(Returns(p, c)) => Advances
  <2>1. Role(Innermost) # "call"
    BY <1>1
  <2>. QED BY <1>9, <1>10, <2>1, MayReturn
<1>. QED BY <1>3, <1>11 DEF p, u, c

(* A read that the host answers *)
LEMMA ReadHostKeeps ==
    ASSUME Active, NEW a, a \in Answers(Innermost.url, Innermost.purpose), ReadHost(a)
    PROVE  Advances \/ TakesBack
<1>. DEFINE u == Innermost.url
            purpose == Innermost.purpose
            fits == AccountSource(Now, a.canonical)
            entered == IF Has(caches.source, a.canonical)
                       THEN Regranted(fits, a.canonical, purpose, a)
                       ELSE PublishSource(fits, a.canonical,
                                          [version |-> a.version, restricted |-> a.restricted])
            granted == IF purpose = "module" THEN PublishModuleGrant(entered, u, a.canonical)
                       ELSE entered
            q == PublishNegative(Now, <<purpose, u>>)
<1>1. /\ Innermost.at = "read" /\ u \in Files /\ Role(Innermost) = "read" /\ Runs("read")
      /\ purpose \in {"module", "metadata"} /\ Innermost.at \notin WorkingAt
  <2>1. Runs("read")
    BY DEF ReadHost
  <2>. QED BY <2>1, FrameKinds DEF Active, Runs, Role, WorkingAt
<1>2. CASE Rejects(Now)
  BY <1>2, MayReject DEF Active
<1>3. CASE Goes(Returns(q, "null"))
  <2>1. Undoable(q, begun) /\ SameBut(q, Now, "negative", Now.c.negative \cup {<<purpose, u>>})
    BY NegativeUndoable DEF Active
  <2>. HIDE DEF q
  <2>2. Grown(q, Now) /\ CachesRelate(q.c)
    <3>1. CachesRelate(Now.c)
      BY DEF Active
    <3>. QED BY <2>1, <3>1, QuietGrows
  <2>3. Prepared(q, txn.stack, begun) /\ LinkingBut(q, txn.stack, {})
    BY <1>1, <2>1, <2>2, GrownPrepared
  <2>4. Fits(Innermost, "null", q.c) /\ Role(Innermost) # "call"
    BY <1>1 DEF Fits
  <2>. QED BY <1>3, <2>3, <2>4, MayReturn
<1>4. CASE /\ a.kind = "source" /\ IdentityKept(Now, u, a.canonical)
           /\ \/ Goes(Returns(PublishAlias(granted, u, a.canonical), a.canonical))
              \/ Rejects(granted)
  <2>1. a \in HostSources
    BY <1>1, <1>4, LoaderAssumption
  <2>2. Undoable(entered, begun) /\ SourceAdded(entered, Now, a.canonical)
    <3>1. SameCaches(fits, Now) /\ fits.t.stack = Now.t.stack
      BY AccountSourceEffect DEF Active
    <3>. HIDE DEF fits
    <3>2. Undoable(fits, begun)
      BY <3>1, SameUndoable DEF Active
    <3>3. fits.c.source = caches.source
      BY <3>1 DEF SameCaches, Active
    <3>. DEFINE r == IF Has(fits.c.source, a.canonical)
                     THEN Regranted(fits, a.canonical, purpose, a)
                     ELSE PublishSource(fits, a.canonical,
                                        [version |-> a.version, restricted |-> a.restricted])
    <3>4. Undoable(r, begun) /\ SourceAdded(r, fits, a.canonical)
      BY <2>1, <3>2, SourceEnters
    <3>5. entered = r
      BY <3>3
    <3>. HIDE DEF r, entered
    <3>6. SourceAdded(entered, Now, a.canonical)
      BY <3>1, <3>4, <3>5 DEF SourceAdded, SameCaches
    <3>. QED BY <3>4, <3>5, <3>6
  <2>. HIDE DEF entered
  <2>3. /\ Undoable(granted, begun)
        /\ Goes(Returns(PublishAlias(granted, u, a.canonical), a.canonical)) => Advances
    <3>1. granted = IF Innermost.purpose = "module"
                    THEN PublishModuleGrant(entered, Innermost.url, a.canonical) ELSE entered
      OBVIOUS
    <3>. HIDE DEF granted
    <3>2. /\ Undoable(granted, begun)
          /\ Goes(Returns(PublishAlias(granted, Innermost.url, a.canonical), a.canonical)) => Advances
      BY <1>1, <1>4, <2>1, <2>2, <3>1, SourceIsRead
    <3>. QED BY <3>2
  <2>. HIDE DEF granted
  <2>4. Rejects(granted) => TakesBack
    BY <2>3, MayReject
  <2>. QED BY <1>4, <2>3, <2>4
<1>. HIDE DEF granted, q
<1>5. \/ Rejects(Now) \/ Goes(Returns(q, "null"))
      \/ /\ a.kind = "source" /\ IdentityKept(Now, u, a.canonical)
         /\ \/ Goes(Returns(PublishAlias(granted, u, a.canonical), a.canonical))
            \/ Rejects(granted)
  <2>1. a.kind \in {"null", "bad"} \/ a \in HostSources
    BY <1>1, LoaderAssumption
  <2>2. a.kind \in {"null", "bad", "source"}
    BY <2>1 DEF HostSources
  <2>3. CASE a.kind = "null"
    BY <2>3 DEF ReadHost, q
  <2>4. CASE a.kind = "bad"
    BY <2>4 DEF ReadHost
  <2>5. CASE a.kind = "source"
    BY <2>5 DEF ReadHost, granted
  <2>. QED BY <2>2, <2>3, <2>4, <2>5
<1>. QED BY <1>2, <1>3, <1>4, <1>5

(* The frames that a function begins with *)
LEMMA ReadFrame ==
    ASSUME NEW u \in Files, NEW purpose \in {"module", "metadata"}
    PROVE  LET g == Read(u, purpose)
           IN  g \in Frames /\ Begins(g) /\ Role(g) = "read" /\ g.purpose = purpose
<1>. DEFINE g == Read(u, purpose)
<1>1. g \in [at : {"read"}, url : Files, purpose : {"module", "metadata"}] /\ g.purpose = purpose
  BY DEF Read
<1>. HIDE DEF g
<1>2. g \in Frames
  BY <1>1 DEF Frames
<1>3. Begins(g) /\ Role(g) = "read"
  BY <1>1 DEF Begins, Role, ResolvingAt, WorkingAt
<1>. QED BY <1>1, <1>2, <1>3 DEF g

(* findPackageScope begins. *)
LEMMA ScopeFrame ==
    ASSUME NEW u \in Files \cup {"entry"}
    PROVE  LET g == Scope(u)
           IN  g \in Frames /\ Begins(g) /\ Role(g) = "scope"
<1>. DEFINE g == Scope(u)
<1>1. g \in [at : {"scope"}, url : Files \cup {"entry"}]
  BY DEF Scope
<1>. HIDE DEF g
<1>2. g \in Frames
  BY <1>1 DEF Frames
<1>3. Begins(g) /\ Role(g) = "scope"
  BY <1>1 DEF Begins, Role, ResolvingAt, WorkingAt
<1>. QED BY <1>2, <1>3 DEF g

(* loadModule begins. *)
LEMMA LoadFrame ==
    ASSUME NEW u \in Files \cup Synthetics
    PROVE  LET g == Load(u)
           IN  g \in Frames /\ Begins(g) /\ Role(g) = "load"
<1>. DEFINE g == Load(u)
<1>1. g \in [at : {"load"}, url : Files \cup Synthetics]
  BY DEF Load
<1>. HIDE DEF g
<1>2. g \in Frames
  BY <1>1 DEF Frames
<1>3. Begins(g) /\ Role(g) = "load"
  BY <1>1 DEF Begins, Role, ResolvingAt
<1>. QED BY <1>2, <1>3 DEF g

(* moduleFormat begins. *)
LEMMA FormatFrame ==
    ASSUME NEW u \in Files
    PROVE  LET g == [at |-> "format", url |-> u]
           IN  g \in Frames /\ Begins(g) /\ Role(g) = "format"
<1>. DEFINE g == [at |-> "format", url |-> u]
<1>1. g \in [at : {"format", "regranted", "analyse"}, url : Files] /\ g.at = "format"
  OBVIOUS
<1>. HIDE DEF g
<1>2. g \in Frames
  BY <1>1 DEF Frames
<1>3. Begins(g) /\ Role(g) = "format"
  BY <1>1 DEF Begins, Role, ResolvingAt, WorkingAt
<1>. QED BY <1>2, <1>3 DEF g

(* resolveInternal begins. *)
LEMMA ResolveFrame ==
    ASSUME NEW spec \in Specifiers, NEW to \in Files \cup Synthetics,
           NEW parent \in Files \cup {"entry"}, NEW mode \in {"import", "require"}
    PROVE  LET g == Resolve(spec, to, parent, mode)
           IN  g \in Frames /\ Begins(g) /\ Role(g) = "resolve"
<1>. DEFINE g == Resolve(spec, to, parent, mode)
<1>1. g \in [at : {"resolve"}, spec : Specifiers, to : Files \cup Synthetics,
             parent : Files \cup {"entry"}, mode : {"import", "require"}]
  BY DEF Resolve
<1>. HIDE DEF g
<1>2. g \in Frames
  BY <1>1 DEF Frames
<1>3. Begins(g) /\ Role(g) = "resolve"
  BY <1>1 DEF Begins, Role, ResolvingAt, WorkingAt
<1>. QED BY <1>2, <1>3 DEF g

(* The top frame returns, and the caches have grown at most. *)
LEMMA GrownReturns ==
    ASSUME Active, NEW Q, NEW v, Undoable(Q, begun), Grown(Q, Now), CachesRelate(Q.c),
           Innermost.at \notin WorkingAt, Role(Innermost) # "call", Fits(Innermost, v, Q.c),
           Goes(Returns(Q, v))
    PROVE  Advances
<1>1. Prepared(Q, txn.stack, begun) /\ LinkingBut(Q, txn.stack, {})
  BY GrownPrepared
<1>. QED BY <1>1, MayReturn

(* The top frame returns, and the caches are the same. *)
LEMMA NowReturns ==
    ASSUME Active, NEW v, Innermost.at \notin WorkingAt, Role(Innermost) # "call",
           Fits(Innermost, v, caches), Goes(Returns(Now, v))
    PROVE  Advances
<1>1. Prepared(Now, txn.stack, begun) /\ LinkingBut(Now, txn.stack, {}) /\ Now.c = caches
  BY NowPrepared DEF Active
<1>. QED BY <1>1, MayReturn

(* The top frame, which works on no module, waits for another. *)
LEMMA NowAwaits ==
    ASSUME Active, NEW f \in Frames, NEW g \in Frames,
           Innermost.at \notin WorkingAt, f.at \notin WorkingAt,
           Role(f) = Role(Innermost), FrameOk(f, caches, txn.keys), Begins(g),
           Role(g) = AwaitsRole(f), f.at = "source" => g.purpose = "module",
           Goes(Awaits(Now, f, <<g>>))
    PROVE  Advances
<1>1. Prepared(Now, txn.stack, begun) /\ LinkingBut(Now, txn.stack, {})
      /\ Now.c = caches /\ Now.t = txn
  BY NowPrepared DEF Active
<1>2. Alone(f, txn.stack)
  BY IdleAlone
<1>. QED BY <1>1, <1>2, MayAwait

(* The top frame has its resolution entered and returns it. *)
LEMMA NowResolves ==
    ASSUME Active, NEW u \in Files \cup Synthetics, Role(Innermost) = "resolve",
           Innermost.at \notin WorkingAt, Goes(ResolvesTo(Now, Innermost, u))
    PROVE  Advances
<1>. DEFINE k == Key(Innermost)
            Q == PublishResolution(Now, k, u)
<1>1. Goes(Returns(Q, u))
  BY DEF ResolvesTo
<1>2. /\ Undoable(Q, begun)
      /\ Q = Now \/ SameBut(Q, Now, "resolution", Assigned(Now.c.resolution, k, u))
  <2>. HIDE DEF k
  <2>1. Undoable(Now, begun)
    BY DEF Active
  <2>. QED BY <2>1, ResolutionUndoable
<1>. HIDE DEF Q, k
<1>3. Fits(Innermost, u, Q.c) /\ Role(Innermost) # "call"
  BY DEF Fits
<1>4. CASE Q = Now
  BY <1>1, <1>3, <1>4, NowReturns DEF Active
<1>5. CASE SameBut(Q, Now, "resolution", Assigned(Now.c.resolution, k, u))
  <2>1. Grown(Q, Now) /\ CachesRelate(Q.c)
    BY <1>5, QuietGrows DEF Active
  <2>. QED BY <1>1, <1>2, <1>3, <2>1, GrownReturns
<1>. QED BY <1>2, <1>4, <1>5

(* The steps of moduleFormat *)
LEMMA FormatKeeps ==
    ASSUME Active, FormatStep \/ FormatReturns
    PROVE  Advances \/ TakesBack
<1>1. Innermost.at \in {"format", "formatted"}
  BY DEF FormatStep, FormatReturns, Runs
<1>2. /\ Role(Innermost) = "format" /\ Innermost.at \notin WorkingAt
      /\ \A v : Fits(Innermost, v, caches)
  BY <1>1 DEF Role, WorkingAt, Fits, ResolvingAt
<1>3. \A v : Goes(Returns(Now, v)) => Advances
  BY <1>2, NowReturns
<1>4. CASE FormatReturns
  BY <1>3, <1>4 DEF FormatReturns
<1>5. CASE FormatStep
  <2>. DEFINE f == [at |-> "formatted"]
              g == Scope(Innermost.url)
  <2>1. Innermost.url \in Files
    <3>1. Innermost.at = "format"
      BY <1>5 DEF FormatStep, Runs
    <3>. QED BY <3>1, FrameKinds DEF Active
  <2>2. /\ f \in Frames /\ f.at \notin WorkingAt /\ Role(f) = "format" /\ f.at # "source"
        /\ AwaitsRole(f) = "scope" /\ FrameOk(f, caches, txn.keys)
    BY DEF Frames, WorkingAt, Role, AwaitsRole, FrameOk, ResolvingAt
  <2>3. g \in Frames /\ Begins(g) /\ Role(g) = "scope"
    BY <2>1, ScopeFrame
  <2>. HIDE DEF f, g
  <2>4. Goes(Awaits(Now, f, <<g>>)) => Advances
    BY <1>2, <2>2, <2>3, NowAwaits
  <2>. QED BY <1>3, <1>5, <2>4 DEF FormatStep, f, g
<1>. QED BY <1>4, <1>5

(* The package of a file is entered under its root and the URL of its manifest. *)
LEMMA PackageGrows ==
    ASSUME NEW S, NEW Q, NEW b, NEW k, NEW v, Undoable(S, b), CachesRelate(S.c),
           Q = PublishPackage(S, k, v)
    PROVE  Undoable(Q, b) /\ Grown(Q, S) /\ CachesRelate(Q.c)
<1>1. /\ Undoable(Q, b)
      /\ Q = S \/ SameBut(Q, S, "package", Assigned(S.c.package, k, v))
  BY PackageUndoable
<1>2. CASE Q = S
  BY <1>1, <1>2 DEF Grown
<1>3. CASE SameBut(Q, S, "package", Assigned(S.c.package, k, v))
  BY <1>1, <1>3, QuietGrows
<1>. QED BY <1>1, <1>2, <1>3

(* The steps of findPackageScope and readPackage *)
LEMMA ScopeKeeps ==
    ASSUME Active, ScopeRead
    PROVE  Advances \/ TakesBack
<1>1. Innermost.at \in {"scope", "scoped"}
  BY DEF ScopeRead, Runs
<1>2. /\ Role(Innermost) = "scope" /\ Innermost.at \notin WorkingAt
      /\ Role(Innermost) # "call" /\ \A v, c : Fits(Innermost, v, c)
  BY <1>1 DEF Role, WorkingAt, Fits, ResolvingAt
<1>3. \A v : Goes(Returns(Now, v)) => Advances
  BY <1>2, NowReturns
<1>4. CASE /\ Runs("scope")
           /\ Goes(Awaits(Now, [at |-> "scoped", root |-> ScopeOf[Innermost.url]],
                          <<Read(ScopeOf[Innermost.url], "metadata")>>))
  <2>. DEFINE m == ScopeOf[Innermost.url]
              f == [at |-> "scoped", root |-> m]
              g == Read(m, "metadata")
  <2>1. m \in Manifests /\ m \in Files
    <3>1. Innermost.url \in Files \cup {"entry"}
      BY <1>4, FrameKinds DEF Active, Runs
    <3>. QED BY <3>1, LoaderAssumption
  <2>. HIDE DEF m
  <2>2. /\ f \in Frames /\ f.at \notin WorkingAt /\ Role(f) = "scope" /\ f.at # "source"
        /\ AwaitsRole(f) = "read" /\ FrameOk(f, caches, txn.keys)
    BY <2>1 DEF Frames, WorkingAt, Role, AwaitsRole, FrameOk, ResolvingAt
  <2>3. g \in Frames /\ Begins(g) /\ Role(g) = "read"
    BY <2>1, ReadFrame
  <2>. HIDE DEF f, g
  <2>4. Goes(Awaits(Now, f, <<g>>)) => Advances
    BY <1>2, <2>2, <2>3, NowAwaits
  <2>. QED BY <1>4, <2>4 DEF f, g, m
<1>5. CASE Runs("scoped") /\ Rejects(PublishPackage(Now, Innermost.root, "null"))
  <2>. DEFINE Q == PublishPackage(Now, Innermost.root, "null")
  <2>1. Undoable(Q, begun)
    <3>1. Undoable(Now, begun)
      BY DEF Active
    <3>. QED BY <3>1, PackageUndoable
  <2>. HIDE DEF Q
  <2>. QED BY <1>5, <2>1, MayReject DEF Q
<1>6. CASE \E u, type : Goes(Returns(WithManifest(Now, Innermost.root, u, type), type))
  <2>1. PICK u, type : Goes(Returns(WithManifest(Now, Innermost.root, u, type), type))
    BY <1>6
  <2>. DEFINE P == PublishPackage(Now, Innermost.root, type)
              Q == PublishPackage(P, u, type)
  <2>2. Undoable(P, begun) /\ Grown(P, Now) /\ CachesRelate(P.c)
    <3>1. Undoable(Now, begun) /\ CachesRelate(Now.c)
      BY DEF Active
    <3>. QED BY <3>1, PackageGrows
  <2>3. WithManifest(Now, Innermost.root, u, type) = Q
    BY DEF WithManifest
  <2>. HIDE DEF P
  <2>4. Undoable(Q, begun) /\ Grown(Q, P) /\ CachesRelate(Q.c)
    BY <2>2, PackageGrows
  <2>. HIDE DEF Q
  <2>5. Grown(Q, Now)
    BY <2>2, <2>4 DEF Grown
  <2>. QED BY <1>2, <2>1, <2>3, <2>4, <2>5, GrownReturns
<1>7. CASE Rejects(Now)
  BY <1>7, MayReject DEF Active
<1>. QED BY <1>3, <1>4, <1>5, <1>6 DEF ScopeRead

\* the module m is in the cache, and no waiting frame works on it
ModuleIsIn(Q, k, m) ==
    /\ Prepared(Q, txn.stack, begun)
    /\ LinkingBut(Q, txn.stack, IF k \in Synthetics THEN {} ELSE {k})
    /\ k \in DOMAIN Q.c.module \cap Q.t.keys.module /\ Q.c.module[k] = m
    /\ \A j \in 2..Len(txn.stack) :
          txn.stack[j].at \in WorkingAt => txn.stack[j].url # k

(* A module without dependencies is entered from the top of a load. *)
LEMMA ModuleEnters ==
    ASSUME Active, NEW S, SameCaches(S, Now), S.t.stack = txn.stack,
           NEW k \in (Files \cup Synthetics) \ DOMAIN caches.module, NEW m0,
           ModuleType(m0), m0.deps = <<>>,
           k \notin Synthetics => /\ k \in DOMAIN caches.source \cap caches.grant
                                  /\ m0.version = caches.source[k].version,
           Innermost.at \notin WorkingAt, Role(Innermost) = "load",
           NEW Q, Q = PublishModule(S, k, m0)
    PROVE  ModuleIsIn(Q, k, m0)
<1>. DEFINE s == txn.stack
<1>1. /\ Undoable(Q, begun) /\ SameBut(Q, S, "module", Assigned(S.c.module, k, m0))
      /\ Q.t.keys.module = S.t.keys.module \cup {k}
  <2>1. Undoable(S, begun) /\ ~Has(S.c.module, k) /\ k \in Files \cup Synthetics
    <3>1. Undoable(S, begun)
      BY SameUndoable DEF Active
    <3>2. S.c.module = caches.module
      BY DEF SameCaches, Active
    <3>. QED BY <3>1, <3>2 DEF Has
  <2>2. ModuleEntered(Q, S, begun, k, m0)
    BY <2>1, ModuleUndoable
  <2>. QED BY <2>1, <2>2 DEF ModuleEntered
<1>2. /\ Q.c.source = caches.source /\ Q.c.alias = caches.alias /\ Q.c.grant = caches.grant
      /\ DOMAIN Q.c.module = DOMAIN caches.module \cup {k}
      /\ \A x \in DOMAIN caches.module : Q.c.module[x] = caches.module[x]
      /\ Q.c.module[k] = m0
      /\ Q.t.keys.module = txn.keys.module \cup {k} /\ Q.t.stack = s
  <2>1. /\ S.c.source = caches.source /\ S.c.alias = caches.alias /\ S.c.grant = caches.grant
        /\ S.c.module = caches.module /\ S.t.keys.module = txn.keys.module
    BY DEF SameCaches, Active
  <2>2. /\ Q.c.source = caches.source /\ Q.c.alias = caches.alias /\ Q.c.grant = caches.grant
        /\ Q.t.stack = s /\ Q.t.keys.module = txn.keys.module \cup {k}
        /\ Q.c.module = Assigned(caches.module, k, m0)
    BY <1>1, <2>1 DEF SameBut
  <2>. QED BY <2>2 DEF Assigned
<1>3. StackOk(s) /\ s # <<>> /\ s \in Seq(Frames) /\ Len(s) \in Nat /\ Len(s) >= 1
  BY EmptySeq, LenProperties DEF Active, StackOk
<1>4. s[1].at \notin WorkingAt /\ Role(s[1]) = "load" /\ FramesOk(s, caches, txn.keys)
      /\ Linking(caches, s)
  BY DEF Innermost, Active, Underway
<1>. HIDE DEF s
<1>5. ASSUME NEW j \in 2..Len(s)
      PROVE  /\ FrameOk(s[j], Q.c, Q.t.keys)
             /\ s[j].at \in WorkingAt => s[j].url # k
  <2>1. j \in 1..Len(s) /\ 1 \in 1..Len(s) /\ 1 < j
    BY <1>3
  <2>2. s[j].at # "analyse"
    <3>1. s[j].at = "analyse" => Role(s[1]) \in {"read", "scope", "format"}
      BY <1>3, <2>1 DEF StackOk
    <3>. QED BY <1>4, <3>1
  <2>3. FrameOk(s[j], caches, txn.keys)
    BY <1>4, <2>1 DEF FramesOk
  <2>. QED BY <1>2, <2>2, <2>3 DEF FrameOk
<1>6. CachesRelate(Q.c)
  <2>. DEFINE n == Q.c
  <2>1. /\ n.source = caches.source /\ n.alias = caches.alias /\ n.grant = caches.grant
        /\ DOMAIN n.module = DOMAIN caches.module \cup {k}
        /\ \A x \in DOMAIN caches.module : n.module[x] = caches.module[x]
        /\ n.module[k] = m0 /\ CachesRelate(caches)
    BY <1>2 DEF Active
  <2>. HIDE DEF n
  <2>2. /\ \A u \in DOMAIN n.alias : n.alias[u] \in DOMAIN n.source \ DOMAIN n.alias
        /\ \A u \in n.grant : CanonicalIn(n, u) \in DOMAIN n.source \cap n.grant
    BY <2>1 DEF CachesRelate, CanonicalIn
  <2>3. \A u \in DOMAIN n.module \ Synthetics :
            u \in DOMAIN n.source \cap n.grant /\ n.module[u].version = n.source[u].version
    BY <2>1 DEF CachesRelate
  <2>4. ASSUME NEW u \in DOMAIN n.module, NEW i \in DOMAIN n.module[u].deps
        PROVE  n.module[u].deps[i].kind # "resolve" => n.module[u].deps[i].to \in DOMAIN n.module
    <3>1. CASE u = k
      <4>1. n.module[u].deps = <<>> /\ DOMAIN <<>> = {}
        BY <2>1, <3>1
      <4>. QED BY <4>1
    <3>2. CASE u # k
      BY <2>1, <3>2 DEF CachesRelate
    <3>. QED BY <3>1, <3>2
  <2>5. CachesRelate(n)
    BY <2>2, <2>3, <2>4 DEF CachesRelate
  <2>. QED BY <2>5 DEF n
<1>7. ASSUME NEW u \in DOMAIN Q.c.module \ Synthetics, ~Linked(Q.c, u), u # k
      PROVE  \E i \in 2..Len(s) : s[i].at \in WorkingAt /\ s[i].url = u
  <2>1. u \in DOMAIN caches.module \ Synthetics /\ ~Linked(caches, u)
    BY <1>2, <1>7 DEF Linked
  <2>2. PICK i \in 1..Len(s) : s[i].at \in WorkingAt /\ s[i].url = u
    BY <1>4, <2>1 DEF Linking
  <2>3. i # 1
    BY <1>4, <2>2
  <2>4. i \in 2..Len(s)
    BY <1>3, <2>3
  <2>. QED BY <2>2, <2>4
<1>8. Prepared(Q, s, begun)
  <2>1. Below(Q, s)
    BY <1>5 DEF Below
  <2>. QED BY <1>1, <1>2, <1>3, <1>6, <2>1 DEF Prepared
<1>9. LinkingBut(Q, s, IF k \in Synthetics THEN {} ELSE {k})
  BY <1>7 DEF LinkingBut
<1>10. k \in DOMAIN Q.c.module \cap Q.t.keys.module /\ Q.c.module[k] = m0
  BY <1>2
<1>11. \A j \in 2..Len(s) : s[j].at \in WorkingAt => s[j].url # k
  BY <1>5
<1>. QED BY <1>8, <1>9, <1>10, <1>11 DEF ModuleIsIn, s

(* A dependency of the module that the top frame works on is linked. *)
LEMMA LinkEnters ==
    ASSUME Active, Innermost.at \in WorkingAt, NEW kind \in {"import", "require", "resolve"},
           NEW to \in Files \cup Synthetics, kind # "resolve" => to \in DOMAIN caches.module,
           NEW Q, Q = WithDependency(Now, Innermost.url, kind, to)
    PROVE  /\ Prepared(Q, txn.stack, begun) /\ LinkingBut(Q, txn.stack, {Innermost.url})
           /\ Innermost.url \in DOMAIN Q.c.module \cap Q.t.keys.module
           /\ Len(Q.c.module[Innermost.url].deps) = Len(caches.module[Innermost.url].deps) + 1
<1>. DEFINE s == txn.stack
            u == Innermost.url
            old == caches.module[u].deps
            l == [kind |-> kind, to |-> to]
<1>1. u \in DOMAIN caches.module \cap txn.keys.module
  BY DEF Active, FrameOk
<1>. HIDE DEF u
<1>2. Undoable(Q, begun) /\ LinkEffect(Q, Now, u, kind, to)
  <2>1. Undoable(Now, begun) /\ u \in DOMAIN Now.c.module /\ u \in Now.t.keys.module
        /\ Q = WithDependency(Now, u, kind, to)
    BY <1>1 DEF Active, u
  <2>. QED BY <2>1, LinkUndoable
<1>3. /\ Q.c.source = caches.source /\ Q.c.alias = caches.alias /\ Q.c.grant = caches.grant
      /\ DOMAIN Q.c.module = DOMAIN caches.module
      /\ \A x \in DOMAIN caches.module : x # u => Q.c.module[x] = caches.module[x]
      /\ Q.c.module[u].version = caches.module[u].version
      /\ Q.c.module[u].deps = Append(old, l) /\ Q.t = txn /\ Q.t.stack = s
  BY <1>2 DEF LinkEffect, Active
<1>4. StackOk(s) /\ s # <<>> /\ s \in Seq(Frames) /\ Len(s) \in Nat /\ Len(s) >= 1
  BY EmptySeq, LenProperties DEF Active, StackOk
<1>5. /\ s[1].at \in WorkingAt /\ s[1].url = u /\ FramesOk(s, caches, txn.keys)
      /\ Linking(caches, s)
  BY DEF Innermost, Active, Underway, u
<1>6. old \in Seq(Links) /\ l \in Links
  <2>1. ModuleTypes(caches.module)
    BY DEF Active, CacheTypes
  <2>2. old \in Seq(Links)
    BY <1>1, <2>1 DEF ModuleTypes, ModuleType
  <2>. HIDE DEF old
  <2>. QED BY <2>2 DEF Links
<1>7. /\ Len(Append(old, l)) = Len(old) + 1 /\ DOMAIN Append(old, l) = 1..(Len(old) + 1)
      /\ DOMAIN old = 1..Len(old) /\ Len(old) \in Nat
      /\ \A i \in 1..Len(old) : Append(old, l)[i] = old[i]
      /\ Append(old, l)[Len(old) + 1] = l
  <2>. HIDE DEF old, l
  <2>. QED BY <1>6, AppendProperties, LenProperties
<1>. HIDE DEF s
<1>8. ASSUME NEW j \in 2..Len(s)
      PROVE  FrameOk(s[j], Q.c, Q.t.keys)
  <2>1. j \in 1..Len(s) /\ 1 \in 1..Len(s) /\ 1 < j
    BY <1>4
  <2>2. /\ s[j].at # "analyse"
        /\ s[j].at \in WorkingAt => s[j].url # u
    <3>1. /\ s[j].at = "analyse" => Role(s[1]) \in {"read", "scope", "format"}
          /\ s[1].at \in WorkingAt /\ s[j].at \in WorkingAt => s[1].url # s[j].url
      BY <1>4, <2>1 DEF StackOk
    <3>2. Role(s[1]) = "load"
      BY <1>5 DEF Role, WorkingAt, ResolvingAt
    <3>. QED BY <1>5, <3>1, <3>2
  <2>3. FrameOk(s[j], caches, txn.keys)
    BY <1>5, <2>1 DEF FramesOk
  <2>. QED BY <1>3, <2>2, <2>3 DEF FrameOk
<1>9. CachesRelate(Q.c)
  <2>. DEFINE n == Q.c
              d == Append(old, l)
  <2>1. /\ n.source = caches.source /\ n.alias = caches.alias /\ n.grant = caches.grant
        /\ DOMAIN n.module = DOMAIN caches.module
        /\ \A x \in DOMAIN caches.module : x # u => n.module[x] = caches.module[x]
        /\ n.module[u].version = caches.module[u].version
        /\ n.module[u].deps = d /\ CachesRelate(caches)
    BY <1>3 DEF Active
  <2>. HIDE DEF n
  <2>2. /\ \A x \in DOMAIN n.alias : n.alias[x] \in DOMAIN n.source \ DOMAIN n.alias
        /\ \A x \in n.grant : CanonicalIn(n, x) \in DOMAIN n.source \cap n.grant
    BY <2>1 DEF CachesRelate, CanonicalIn
  <2>3. ASSUME NEW x \in DOMAIN n.module \ Synthetics
        PROVE  x \in DOMAIN n.source \cap n.grant /\ n.module[x].version = n.source[x].version
    <3>1. n.module[x].version = caches.module[x].version
      BY <2>1
    <3>. QED BY <2>1, <3>1 DEF CachesRelate
  <2>4. ASSUME NEW x \in DOMAIN n.module, NEW i \in DOMAIN n.module[x].deps
        PROVE  n.module[x].deps[i].kind # "resolve" => n.module[x].deps[i].to \in DOMAIN n.module
    <3>1. CASE x = u
      <4>1. i \in 1..(Len(old) + 1) /\ n.module[x].deps = d
        BY <1>7, <2>1, <3>1
      <4>2. \A y \in 1..Len(old) : old[y].kind # "resolve" => old[y].to \in DOMAIN n.module
        <5>1. \A y \in DOMAIN old : old[y].kind # "resolve" => old[y].to \in DOMAIN caches.module
          BY <1>1, <2>1 DEF CachesRelate
        <5>. QED BY <1>7, <2>1, <5>1
      <4>3. l.kind # "resolve" => l.to \in DOMAIN n.module
        BY <2>1
      <4>. HIDE DEF old, l, d
      <4>4. CASE i = Len(old) + 1
        BY <1>7, <4>1, <4>3, <4>4 DEF d
      <4>5. CASE i # Len(old) + 1
        <5>1. i \in 1..Len(old)
          BY <1>7, <4>1, <4>5
        <5>2. d[i] = old[i]
          BY <1>7, <5>1 DEF d
        <5>. QED BY <4>1, <4>2, <5>1, <5>2
      <4>. QED BY <4>4, <4>5
    <3>2. CASE x # u
      <4>1. n.module[x] = caches.module[x] /\ x \in DOMAIN caches.module
        BY <2>1, <3>2
      <4>. QED BY <2>1, <4>1 DEF CachesRelate
    <3>. QED BY <3>1, <3>2
  <2>5. CachesRelate(n)
    BY <2>2, <2>3, <2>4 DEF CachesRelate
  <2>. QED BY <2>5 DEF n
<1>10. ASSUME NEW x \in DOMAIN Q.c.module \ Synthetics, ~Linked(Q.c, x), x # u
       PROVE  \E i \in 2..Len(s) : s[i].at \in WorkingAt /\ s[i].url = x
  <2>1. x \in DOMAIN caches.module \ Synthetics /\ ~Linked(caches, x)
    BY <1>3, <1>10 DEF Linked
  <2>2. PICK i \in 1..Len(s) : s[i].at \in WorkingAt /\ s[i].url = x
    BY <1>5, <2>1 DEF Linking
  <2>3. i # 1
    BY <1>5, <1>10, <2>2
  <2>4. i \in 2..Len(s)
    BY <1>4, <2>3
  <2>. QED BY <2>2, <2>4
<1>11. Prepared(Q, s, begun)
  <2>1. Below(Q, s)
    BY <1>8 DEF Below
  <2>. QED BY <1>2, <1>3, <1>4, <1>9, <2>1 DEF Prepared
<1>12. LinkingBut(Q, s, {u})
  BY <1>10 DEF LinkingBut
<1>13. u \in DOMAIN Q.c.module \cap Q.t.keys.module
  BY <1>1, <1>3
<1>14. Len(Q.c.module[u].deps) = Len(old) + 1
  BY <1>3, <1>7
<1>. QED BY <1>11, <1>12, <1>13, <1>14 DEF s, u

\* a resolution that waits for a read or for the package
Resolving(h, at) ==
    /\ h \in Frames /\ h.at = at /\ h.at \notin WorkingAt /\ Role(h) = "resolve"
    /\ FrameOk(h, caches, txn.keys) /\ h.at # "source"
    /\ AwaitsRole(h) = IF at = "package" THEN "scope" ELSE "read"

(* A resolution that goes on to wait for a read or for the package *)
LEMMA ResolvingFrame ==
    ASSUME NEW f \in Frames, f.at \in {"resolve"} \cup ResolvingAt, NEW at \in ResolvingAt,
           NEW to \in Files
    PROVE  Resolving([[f EXCEPT !.at = at] EXCEPT !.to = to], at)
<1>. DEFINE h == [[f EXCEPT !.at = at] EXCEPT !.to = to]
<1>1. \/ f \in [at : {"resolve"}, spec : Specifiers, to : Files \cup Synthetics,
                parent : Files \cup {"entry"}, mode : {"import", "require"}]
      \/ f \in [at : ResolvingAt, spec : Specifiers, to : Files,
                parent : Files \cup {"entry"}, mode : {"import", "require"}]
  BY FrameKinds
<1>2. h = [at |-> at, spec |-> f.spec, to |-> to, parent |-> f.parent, mode |-> f.mode]
  <2>. DEFINE e == [f EXCEPT !.at = at]
  <2>1. e = [at |-> at, spec |-> f.spec, to |-> f.to, parent |-> f.parent, mode |-> f.mode]
    BY <1>1
  <2>. HIDE DEF e
  <2>2. [e EXCEPT !.to = to] =
           [at |-> at, spec |-> f.spec, to |-> to, parent |-> f.parent, mode |-> f.mode]
    BY <2>1
  <2>. QED BY <2>2 DEF e
<1>3. /\ h \in [at : ResolvingAt, spec : Specifiers, to : Files,
                parent : Files \cup {"entry"}, mode : {"import", "require"}]
      /\ h.at = at
  BY <1>1, <1>2
<1>. HIDE DEF h
<1>4. h \in Frames
  BY <1>3 DEF Frames
<1>5. h.at \in ResolvingAt
  BY <1>3
<1>6. h.at \notin WorkingAt /\ h.at # "source" /\ FrameOk(h, caches, txn.keys)
  BY <1>5 DEF ResolvingAt, WorkingAt, FrameOk
<1>7. Role(h) = "resolve"
  BY <1>5 DEF ResolvingAt, WorkingAt, Role
<1>8. AwaitsRole(h) = IF at = "package" THEN "scope" ELSE "read"
  BY <1>3, <1>5 DEF ResolvingAt, AwaitsRole
<1>9. Resolving(h, at)
  BY <1>3, <1>4, <1>6, <1>7, <1>8 DEF Resolving
<1>. QED BY <1>9 DEF h

(* Only known URLs are aliases, and they are those of files. *)
LEMMA GrantsOfFiles ==
    ASSUME Active, NEW u, NeedsGrant(Now, u)
    PROVE  u \in Files
BY DEF Active, NeedsGrant, Has, CacheTypes, AliasTypes

(* The steps of resolveInternal *)
LEMMA ResolveKeeps ==
    ASSUME Active, ResolveStep
    PROVE  Advances \/ TakesBack
<1>. DEFINE f == Innermost
            u == caches.resolution[Key(f)]
            R(at, to) == [[f EXCEPT !.at = at] EXCEPT !.to = to]
<1>1. f.at \in {"resolve"} \cup ResolvingAt /\ f \in Frames
  BY DEF ResolveStep, Runs, ResolvingAt, Active
<1>2. /\ Role(f) = "resolve" /\ f.at \notin WorkingAt
  BY <1>1 DEF Role, WorkingAt, ResolvingAt
<1>3. /\ f.at = "resolve" =>
            /\ f.spec \in Specifiers /\ f.to \in Files \cup Synthetics
            /\ f.parent \in Files \cup {"entry"}
      /\ f.at # "resolve" => f.to \in Files
  BY <1>1, FrameKinds
<1>4. ASSUME NEW v \in Files \cup Synthetics, Goes(Returns(Now, v)) PROVE Advances
  <2>1. Fits(f, v, caches) /\ Role(f) # "call"
    BY <1>2 DEF Fits
  <2>. QED BY <1>2, <1>4, <2>1, NowReturns
<1>5. ASSUME NEW v \in Files \cup Synthetics, Goes(ResolvesTo(Now, f, v)) PROVE Advances
  BY <1>2, <1>5, NowResolves
<1>6. ASSUME NEW at \in ResolvingAt \ {"package"}, NEW to \in Files, NEW x \in Files,
             Goes(Awaits(Now, R(at, to), <<Read(x, "module")>>))
      PROVE  Advances
  <2>. DEFINE h == R(at, to)
              g == Read(x, "module")
  <2>1. /\ h \in Frames /\ h.at \notin WorkingAt /\ Role(h) = "resolve"
        /\ FrameOk(h, caches, txn.keys) /\ h.at # "source" /\ AwaitsRole(h) = "read"
    <3>1. Resolving(h, at)
      BY <1>1, <1>6, ResolvingFrame
    <3>. HIDE DEF h
    <3>. QED BY <1>6, <3>1 DEF Resolving, ResolvingAt
  <2>2. g \in Frames /\ Begins(g) /\ Role(g) = "read"
    BY ReadFrame
  <2>3. Goes(Awaits(Now, h, <<g>>))
    BY <1>6
  <2>. HIDE DEF h, g
  <2>. QED BY <1>2, <2>1, <2>2, <2>3, NowAwaits
<1>7. ASSUME NEW to \in Files, NEW x \in Files \cup {"entry"},
             Goes(Awaits(Now, R("package", to), <<Scope(x)>>))
      PROVE  Advances
  <2>. DEFINE h == R("package", to)
              g == Scope(x)
  <2>1. /\ h \in Frames /\ h.at \notin WorkingAt /\ Role(h) = "resolve"
        /\ FrameOk(h, caches, txn.keys) /\ h.at # "source" /\ AwaitsRole(h) = "scope"
    <3>1. "package" \in ResolvingAt
      BY DEF ResolvingAt
    <3>2. Resolving(h, "package")
      BY <1>1, <3>1, ResolvingFrame
    <3>. HIDE DEF h
    <3>. QED BY <3>2 DEF Resolving
  <2>2. g \in Frames /\ Begins(g) /\ Role(g) = "scope"
    BY ScopeFrame
  <2>3. Goes(Awaits(Now, h, <<g>>))
    BY <1>7
  <2>. HIDE DEF h, g
  <2>. QED BY <1>2, <2>1, <2>2, <2>3, NowAwaits
<1>8. CASE Rejects(Now)
  BY <1>8, MayReject DEF Active
<1>9. \A v \in Files \cup Synthetics : Canonical(Now, v) \in Files \cup Synthetics
  BY CanonicalTypes
<1>10. ASSUME NEW at, NEW to \in Files
       PROVE  /\ [f EXCEPT !.at = at, !.to = to] = R(at, to)
              /\ f.to = to => [f EXCEPT !.at = at] = R(at, to)
  <2>1. [f EXCEPT !.at = at, !.to = to] = R(at, to)
    OBVIOUS
  <2>2. ASSUME f.to = to PROVE [f EXCEPT !.at = at] = R(at, to)
    <3>1. \/ f \in [at : {"resolve"}, spec : Specifiers, to : Files \cup Synthetics,
                    parent : Files \cup {"entry"}, mode : {"import", "require"}]
          \/ f \in [at : ResolvingAt, spec : Specifiers, to : Files,
                    parent : Files \cup {"entry"}, mode : {"import", "require"}]
      BY <1>1, FrameKinds
    <3>. HIDE DEF f
    <3>. QED BY <2>2, <3>1
  <2>. QED BY <2>1, <2>2
<1>11. CASE Runs("resolve") /\ Has(caches.resolution, Key(f))
  <2>1. u \in Files \cup Synthetics
    BY <1>11 DEF Active, CacheTypes, ResolutionTypes, Has
  <2>2. CASE NeedsGrant(Now, u)
    <3>1. u \in Files /\ "aliased" \in ResolvingAt \ {"package"}
      BY <2>2, GrantsOfFiles DEF ResolvingAt
    <3>2. Goes(Awaits(Now, [f EXCEPT !.at = "aliased", !.to = u], <<Read(u, "module")>>)) => Advances
      <4>. HIDE DEF u
      <4>. QED BY <1>6, <1>10, <3>1
    <3>. QED BY <1>11, <2>2, <3>2 DEF ResolveStep, Runs
  <2>3. CASE ~NeedsGrant(Now, u)
    <3>1. Goes(Returns(Now, Canonical(Now, u)))
      BY <1>11, <2>3 DEF ResolveStep, Runs
    <3>. QED BY <1>4, <1>9, <2>1, <3>1
  <2>. QED BY <2>2, <2>3
<1>12. CASE Runs("resolve") /\ ~Has(caches.resolution, Key(f))
  <2>1. CASE f.to \in Synthetics
    <3>1. Goes(ResolvesTo(Now, f, f.to))
      BY <1>12, <2>1 DEF ResolveStep, Runs
    <3>. QED BY <1>5, <2>1, <3>1
  <2>2. CASE f.to \notin Synthetics
    <3>1. f.to \in Files /\ f.parent \in Files \cup {"entry"} /\ f.spec \in Specifiers
      BY <1>3, <1>12, <2>2 DEF Runs
    <3>2. Goes(Awaits(Now, [f EXCEPT !.at = f.spec],
                 <<IF f.spec = "relative" THEN Read(f.to, "module") ELSE Scope(f.parent)>>))
      BY <1>12, <2>2 DEF ResolveStep, Runs
    <3>3. [f EXCEPT !.at = f.spec] = R(f.spec, f.to)
      BY <1>10, <3>1
    <3>4. CASE f.spec = "relative"
      <4>1. "relative" \in ResolvingAt \ {"package"}
        BY DEF ResolvingAt
      <4>2. Goes(Awaits(Now, R("relative", f.to), <<Read(f.to, "module")>>))
        BY <3>2, <3>3, <3>4
      <4>. HIDE DEF R, f
      <4>. QED BY <1>6, <3>1, <4>1, <4>2
    <3>5. CASE f.spec = "package"
      <4>1. Goes(Awaits(Now, R("package", f.to), <<Scope(f.parent)>>))
        BY <3>2, <3>3, <3>5
      <4>. HIDE DEF R, f
      <4>. QED BY <1>7, <3>1, <4>1
    <3>. QED BY <3>1, <3>4, <3>5 DEF Specifiers
  <2>. QED BY <2>1, <2>2
<1>13. CASE Runs("relative")
  <2>1. txn.value = "null" \/ txn.value \in Files
    <3>1. txn.value = "null" \/ txn.value \in DOMAIN caches.source
      BY <1>13 DEF Active, ValueOk, AwaitsRole, Runs
    <3>. QED BY <3>1 DEF Active, CacheTypes, SourceTypes
  <2>2. IF txn.value = "null" THEN Rejects(Now) ELSE Goes(ResolvesTo(Now, f, txn.value))
    BY <1>13 DEF ResolveStep, Runs
  <2>. QED BY <1>5, <1>8, <2>1, <2>2
<1>14. CASE Runs("package")
  <2>1. f.to \in Files
    BY <1>3, <1>14 DEF Runs
  <2>2. Goes(ResolvesTo(Now, f, Canonical(Now, f.to))) => Advances
    BY <1>5, <1>9, <2>1
  <2>3. Goes(Awaits(Now, [f EXCEPT !.at = "targeted"], <<Read(f.to, "module")>>)) => Advances
    <3>1. "targeted" \in ResolvingAt \ {"package"}
      BY DEF ResolvingAt
    <3>2. [f EXCEPT !.at = "targeted"] = R("targeted", f.to)
      BY <1>10, <2>1
    <3>. HIDE DEF R, f
    <3>. QED BY <1>6, <2>1, <3>1, <3>2
  <2>4. \/ Rejects(Now)
        \/ Goes(Awaits(Now, [f EXCEPT !.at = "targeted"], <<Read(f.to, "module")>>))
        \/ Goes(ResolvesTo(Now, f, Canonical(Now, f.to)))
    BY <1>14 DEF ResolveStep, Runs
  <2>. QED BY <1>8, <2>2, <2>3, <2>4
<1>15. CASE Runs("targeted") \/ Runs("aliased")
  <2>1. f.to \in Files
    BY <1>3, <1>15 DEF Runs
  <2>2. \/ Rejects(Now) \/ Goes(ResolvesTo(Now, f, Canonical(Now, f.to)))
        \/ Goes(Returns(Now, Canonical(Now, f.to)))
    BY <1>15 DEF ResolveStep, Runs
  <2>. QED BY <1>4, <1>5, <1>8, <1>9, <2>1, <2>2
<1>. QED BY <1>11, <1>12, <1>13, <1>14, <1>15 DEF ResolveStep

(* The budget of modules leaves the caches as they are. *)
LEMMA AccountedModule ==
    ASSUME Active, NEW u, NEW S, S = AccountModule(Now, u)
    PROVE  /\ SameCaches(S, Now) /\ S.t.stack = txn.stack /\ Prepared(S, txn.stack, begun)
           /\ S.c = caches /\ S.t.keys = txn.keys
           /\ Innermost.at \notin WorkingAt => LinkingBut(S, txn.stack, {})
<1>1. SameCaches(S, Now) /\ S.t.stack = txn.stack
  BY AccountModuleEffect DEF Active
<1>2. S.t.keys = txn.keys
  BY <1>1 DEF SameCaches, Active
<1>. QED BY <1>1, <1>2, SamePrepared

(* The steps of loadModule *)
LEMMA LoadKeeps ==
    ASSUME Active, LoadStep
    PROVE  Advances \/ TakesBack
<1>. DEFINE f == Innermost
<1>1. f.at \in {"load", "regranted", "source"} /\ f \in Frames
  BY DEF LoadStep, Runs, Active
<1>2. Role(f) = "load" /\ f.at \notin WorkingAt /\ Role(f) # "call"
  BY <1>1 DEF Role, WorkingAt, ResolvingAt
<1>3. CASE Rejects(Now)
  BY <1>3, MayReject DEF Active
<1>4. ASSUME NEW u, u \in DOMAIN caches.module, Goes(Returns(AccountModule(Now, u), u))
      PROVE  Advances
  <2>. DEFINE S == AccountModule(Now, u)
  <2>1. Prepared(S, txn.stack, begun) /\ LinkingBut(S, txn.stack, {}) /\ S.c = caches
    BY <1>2, AccountedModule
  <2>. HIDE DEF S
  <2>2. Fits(f, u, S.c)
    BY <1>2, <1>4, <2>1 DEF Fits
  <2>. QED BY <1>2, <1>4, <2>1, <2>2, MayReturn DEF S
<1>5. ASSUME NEW S, NEW h \in Frames, NEW x \in Files,
             S.c = caches, S.t.keys = txn.keys, Prepared(S, txn.stack, begun),
             LinkingBut(S, txn.stack, {}), h.at \in {"regranted", "source"},
             FrameOk(h, caches, txn.keys), Goes(Awaits(S, h, <<Read(x, "module")>>))
      PROVE  Advances
  <2>. DEFINE g == Read(x, "module")
  <2>1. Role(h) = "load" /\ AwaitsRole(h) = "read" /\ h.at \notin WorkingAt
    BY <1>5 DEF Role, AwaitsRole, WorkingAt, ResolvingAt
  <2>2. g \in Frames /\ Begins(g) /\ Role(g) = "read" /\ g.purpose = "module"
    BY ReadFrame
  <2>3. Alone(h, txn.stack)
    BY <2>1, IdleAlone
  <2>4. Goes(Awaits(S, h, <<g>>)) /\ FrameOk(h, S.c, S.t.keys)
    BY <1>5
  <2>. HIDE DEF g
  <2>. QED BY <1>2, <1>5, <2>1, <2>2, <2>3, <2>4, MayAwait
<1>6. CASE Runs("load")
  <2>. DEFINE x == f.url
              u == Canonical(Now, x)
              S == AccountModule(Now, u)
  <2>1. x \in Files \cup Synthetics
    BY <1>6, FrameKinds DEF Active, Runs
  <2>2. u \in Files \cup Synthetics /\ (u \notin Synthetics => x \in Files /\ u \in Files)
    BY <2>1, CanonicalTypes
  <2>. HIDE DEF x, u
  <2>3. CASE Has(caches.module, u)
    <3>. DEFINE h == [at |-> "regranted", url |-> u]
    <3>1. u \notin Synthetics =>
             h \in Frames /\ h.at = "regranted" /\ FrameOk(h, caches, txn.keys)
      BY <2>2, <2>3 DEF Frames, FrameOk, WorkingAt, Has
    <3>2. /\ S.c = caches /\ S.t.keys = txn.keys /\ Prepared(S, txn.stack, begun)
          /\ LinkingBut(S, txn.stack, {})
      BY <1>2, AccountedModule
    <3>. HIDE DEF S, h
    <3>3. u \notin Synthetics /\ Goes(Awaits(S, h, <<Read(x, "module")>>)) => Advances
      BY <1>5, <2>2, <3>1, <3>2
    <3>4. Goes(Returns(S, u)) => Advances
      BY <1>4, <2>3 DEF Has, S
    <3>5. \/ Rejects(Now) \/ Goes(Returns(S, u))
          \/ u \notin Synthetics /\ Goes(Awaits(S, h, <<Read(x, "module")>>))
      BY <1>6, <2>3 DEF LoadStep, Runs, S, u, x, h
    <3>. QED BY <1>3, <3>3, <3>4, <3>5
  <2>4. CASE ~Has(caches.module, u) /\ u \in Synthetics
    <3>. DEFINE m == [version |-> 0, format |-> "synthetic", deps |-> <<>>]
                Q == PublishModule(S, u, m)
    <3>1. ModuleType(m) /\ m.deps = <<>>
      BY DEF ModuleType
    <3>2. SameCaches(S, Now) /\ S.t.stack = txn.stack
      BY AccountedModule
    <3>. HIDE DEF S, m
    <3>3. u \in (Files \cup Synthetics) \ DOMAIN caches.module
      BY <2>4 DEF Has
    <3>4. /\ Prepared(Q, txn.stack, begun) /\ LinkingBut(Q, txn.stack, {})
          /\ u \in DOMAIN Q.c.module
      <4>. HIDE DEF Q
      <4>1. Q = PublishModule(S, u, m)
        BY DEF Q
      <4>2. /\ Prepared(Q, txn.stack, begun)
            /\ LinkingBut(Q, txn.stack, IF u \in Synthetics THEN {} ELSE {u})
            /\ u \in DOMAIN Q.c.module \cap Q.t.keys.module /\ Q.c.module[u] = m
        <5>1. u \notin Synthetics => /\ u \in DOMAIN caches.source \cap caches.grant
                                     /\ m.version = caches.source[u].version
          BY <2>4
        <5>2. Innermost.at \notin WorkingAt /\ Role(Innermost) = "load"
          BY <1>2
        <5>3. ModuleIsIn(Q, u, m)
          BY <3>1, <3>2, <3>3, <4>1, <5>1, <5>2, ModuleEnters
        <5>. QED BY <5>3 DEF ModuleIsIn
      <4>. QED BY <2>4, <4>2
    <3>. HIDE DEF Q
    <3>5. Fits(f, u, Q.c)
      BY <1>2, <3>4 DEF Fits
    <3>6. Goes(Returns(Q, u)) => Advances
      BY <1>2, <3>4, <3>5, MayReturn
    <3>7. Rejects(Now) \/ Goes(Returns(Q, u))
      BY <1>6, <2>4 DEF LoadStep, Runs, S, u, x, Q, m
    <3>. QED BY <1>3, <3>6, <3>7
  <2>5. CASE ~Has(caches.module, u) /\ u \notin Synthetics
    <3>. DEFINE h == [at |-> "source"]
    <3>1. h \in Frames /\ h.at = "source" /\ FrameOk(h, caches, txn.keys)
      BY DEF Frames, FrameOk, WorkingAt
    <3>2. /\ Now.c = caches /\ Now.t.keys = txn.keys /\ Prepared(Now, txn.stack, begun)
          /\ LinkingBut(Now, txn.stack, {})
      BY <1>2, NowPrepared DEF Active
    <3>3. Goes(Awaits(Now, h, <<Read(x, "module")>>))
      BY <1>6, <2>5 DEF LoadStep, Runs, u, x
    <3>. HIDE DEF h
    <3>. QED BY <1>5, <2>2, <2>5, <3>1, <3>2, <3>3
  <2>. QED BY <2>3, <2>4, <2>5
<1>7. CASE Runs("regranted")
  <2>1. f.url \in DOMAIN caches.module
    BY <1>7 DEF Active, FrameOk, Runs
  <2>2. Fits(f, f.url, caches)
    BY <1>2, <2>1 DEF Fits
  <2>3. Goes(Returns(Now, f.url)) => Advances
    BY <1>2, <2>2, NowReturns
  <2>. QED BY <1>3, <1>7, <2>3 DEF LoadStep, Runs
<1>8. CASE Runs("source")
  <2>. DEFINE u == txn.value
              S == AccountModule(Now, u)
  <2>1. u # "null" => u \in DOMAIN caches.source \cap caches.grant /\ u \in Files
    <3>1. u # "null" => u \in DOMAIN caches.source \cap caches.grant
      BY <1>8 DEF Active, ValueOk, AwaitsRole, Runs
    <3>. QED BY <3>1 DEF Active, CacheTypes, SourceTypes
  <2>2. CASE u = "null" \/ ~ModuleFits(Now, u)
    <3>1. Rejects(Now)
      BY <1>8, <2>2 DEF LoadStep, Runs
    <3>. QED BY <1>3, <3>1
  <2>3. CASE u # "null" /\ ModuleFits(Now, u) /\ Has(caches.module, u)
    <3>1. Goes(Returns(S, u))
      BY <1>8, <2>3 DEF LoadStep, Runs
    <3>. QED BY <1>4, <2>3, <3>1 DEF Has
  <2>4. CASE u # "null" /\ ModuleFits(Now, u) /\ ~Has(caches.module, u)
    <3>. DEFINE h == [at |-> "analyse", url |-> u]
                g == [at |-> "format", url |-> u]
    <3>1. Goes(Awaits(S, h, <<g>>))
      BY <1>8, <2>4 DEF LoadStep, Runs
    <3>2. /\ S.c = caches /\ S.t.keys = txn.keys /\ Prepared(S, txn.stack, begun)
          /\ LinkingBut(S, txn.stack, {})
      BY <1>2, AccountedModule
    <3>. HIDE DEF S
    <3>3. /\ h \in Frames /\ h.at = "analyse" /\ h.at \notin WorkingAt
          /\ FrameOk(h, caches, txn.keys)
      BY <2>1, <2>4 DEF Frames, FrameOk, WorkingAt, Has
    <3>4. Role(h) = "load" /\ AwaitsRole(h) = "format" /\ h.at # "source"
      BY <3>3 DEF Role, AwaitsRole, ResolvingAt
    <3>5. g \in Frames /\ Begins(g) /\ Role(g) = "format"
      BY <2>1, <2>4, FormatFrame
    <3>. HIDE DEF h, g
    <3>6. Alone(h, txn.stack) /\ FrameOk(h, S.c, S.t.keys)
      BY <3>2, <3>3, IdleAlone
    <3>. QED BY <1>2, <3>1, <3>2, <3>3, <3>4, <3>5, <3>6, MayAwait
  <2>. QED BY <2>2, <2>3, <2>4
<1>. QED BY <1>6, <1>7, <1>8 DEF LoadStep

(* The loop over the dependencies begins. *)
LEMMA AnalyseKeeps ==
    ASSUME Active, Analyse
    PROVE  Advances \/ TakesBack
<1>. DEFINE u == Innermost.url
            m == [version |-> caches.source[u].version, format |-> txn.value, deps |-> <<>>]
            Q == PublishModule(Now, u, m)
            h == Deps(u, 1, "deps")
<1>1. /\ Innermost.at = "analyse" /\ u \in Files
      /\ u \in (DOMAIN caches.source \cap caches.grant) \ DOMAIN caches.module
  <2>1. Innermost.at = "analyse"
    BY DEF Analyse, Runs
  <2>2. u \in Files
    BY <2>1, FrameKinds DEF Active
  <2>. QED BY <2>1, <2>2 DEF Active, FrameOk
<1>2. Role(Innermost) = "load" /\ Innermost.at \notin WorkingAt
  BY <1>1 DEF Role, WorkingAt, ResolvingAt
<1>3. Rejects(Now) \/ Goes(Awaits(Q, h, <<>>))
  BY DEF Analyse
<1>4. ModuleType(m) /\ m.deps = <<>> /\ m.version = caches.source[u].version
  BY DEF ModuleType
<1>. HIDE DEF m, u
<1>5. ModuleIsIn(Q, u, m)
  <2>. HIDE DEF Q
  <2>1. /\ SameCaches(Now, Now) /\ Now.t.stack = txn.stack
        /\ u \in (Files \cup Synthetics) \ DOMAIN caches.module
    BY <1>1 DEF Active, SameCaches
  <2>2. Q = PublishModule(Now, u, m)
    BY DEF Q
  <2>3. u \notin Synthetics => /\ u \in DOMAIN caches.source \cap caches.grant
                               /\ m.version = caches.source[u].version
    BY <1>1, <1>4
  <2>. QED BY <1>2, <1>4, <2>1, <2>2, <2>3, ModuleEnters
<1>. HIDE DEF Q
<1>6. /\ h \in Frames /\ h.at = "deps" /\ h.at \in WorkingAt /\ h.url = u /\ h.i = 1
  <2>1. /\ h \in [at : {"deps", "target", "loaded"}, url : Files, i : Nat \ {0}]
        /\ h.at = "deps" /\ h.url = u /\ h.i = 1
    BY <1>1 DEF Deps
  <2>. HIDE DEF h
  <2>. QED BY <2>1 DEF Frames, WorkingAt
<1>. HIDE DEF h
<1>7. Role(h) = "load" /\ AwaitsRole(h) = "nothing"
  BY <1>6 DEF Role, AwaitsRole, WorkingAt, ResolvingAt
<1>8. FrameOk(h, Q.c, Q.t.keys)
  <2>1. Len(Q.c.module[u].deps) = 0 /\ u \in DOMAIN Q.c.module \cap Q.t.keys.module
    BY <1>4, <1>5 DEF ModuleIsIn
  <2>2. Imports[u] \in Seq(Dependencies) /\ Len(Imports[u]) \in Nat
    BY <1>1, LoaderAssumption, LenProperties
  <2>3. 1 <= Len(Imports[u]) + 1
    BY <2>2
  <2>. QED BY <1>6, <2>1, <2>3 DEF FrameOk, WorkingAt
<1>9. Alone(h, txn.stack)
  BY <1>5, <1>6 DEF Alone, ModuleIsIn
<1>10. LinkingBut(Q, txn.stack, {u}) /\ Prepared(Q, txn.stack, begun)
  BY <1>1, <1>5, LoaderAssumption DEF ModuleIsIn
<1>11. Goes(Awaits(Q, h, <<>>)) => Advances
  BY <1>2, <1>6, <1>7, <1>8, <1>9, <1>10, MayChange
<1>. QED BY <1>3, <1>11, MayReject DEF Active

(* No other frame works on the module of the top one. *)
LEMMA WorksAlone ==
    ASSUME Active, Innermost.at \in WorkingAt, NEW f, f.url = Innermost.url
    PROVE  Alone(f, txn.stack)
<1>. DEFINE s == txn.stack
<1>0. StackOk(s) /\ s # <<>>
  BY DEF Active
<1>1. StackOk(s) /\ s \in Seq(Frames) /\ Len(s) \in Nat /\ Len(s) >= 1
  <2>. HIDE DEF s
  <2>. QED BY <1>0, EmptySeq, LenProperties DEF StackOk
<1>2. s[1].at \in WorkingAt /\ f.url = s[1].url
  BY DEF Innermost
<1>. HIDE DEF s
<1>3. ASSUME NEW j \in 2..Len(s) PROVE s[j].at \in WorkingAt => f.url # s[j].url
  <2>1. j \in 1..Len(s) /\ 1 \in 1..Len(s) /\ 1 < j
    BY <1>1
  <2>. QED BY <1>1, <1>2, <2>1 DEF StackOk
<1>4. Alone(f, s)
  BY <1>3 DEF Alone
<1>. QED BY <1>4 DEF s

(* The loop goes on with the next dependency once one is linked. *)
LEMMA DependencyLinked ==
    ASSUME Active, Innermost.at \in {"target", "loaded", "typed"},
           NEW kind \in {"import", "require", "resolve"}, NEW to \in Files \cup Synthetics,
           kind # "resolve" => to \in DOMAIN caches.module,
           Goes(Awaits(WithDependency(Now, Innermost.url, kind, to),
                       Deps(Innermost.url, Innermost.i + 1, "deps"), <<>>))
    PROVE  Advances
<1>. DEFINE f == Innermost
            u == f.url
            Q == WithDependency(Now, u, kind, to)
            h == Deps(u, f.i + 1, "deps")
<1>1. /\ f.at \in WorkingAt /\ Role(f) = "load"
  BY DEF WorkingAt, Role, ResolvingAt
<1>2. u \in Files /\ f.i \in Nat \ {0}
  BY FrameKinds DEF Active
<1>3. f.i = Len(caches.module[u].deps) + 1 /\ f.i <= Len(Imports[u])
  <2>1. /\ f.i = Len(caches.module[u].deps) + 1
        /\ f.i <= Len(Imports[u]) + 0
    BY <1>1 DEF Active, FrameOk
  <2>2. Len(Imports[u]) \in Nat
    BY <1>2, LoaderAssumption, LenProperties
  <2>. DEFINE n == Len(Imports[u])
              i == f.i
  <2>3. i <= n
    <3>1. n \in Nat /\ i \in Nat /\ i <= n + 0
      BY <1>2, <2>1, <2>2
    <3>. HIDE DEF n, i
    <3>. QED BY <3>1
  <2>. QED BY <2>1, <2>3
<1>4. /\ Prepared(Q, txn.stack, begun) /\ LinkingBut(Q, txn.stack, {u})
      /\ u \in DOMAIN Q.c.module \cap Q.t.keys.module
      /\ Len(Q.c.module[u].deps) = Len(caches.module[u].deps) + 1
  <2>1. Q = WithDependency(Now, Innermost.url, kind, to)
    OBVIOUS
  <2>. HIDE DEF Q
  <2>. QED BY <1>1, <2>1, LinkEnters
<1>. HIDE DEF Q
<1>5. /\ h \in Frames /\ h.at = "deps" /\ h.at \in WorkingAt /\ h.url = u /\ h.i = f.i + 1
  <2>1. /\ h \in [at : {"deps", "target", "loaded"}, url : Files, i : Nat \ {0}]
        /\ h.at = "deps" /\ h.url = u /\ h.i = f.i + 1
    BY <1>2 DEF Deps
  <2>. HIDE DEF h
  <2>. QED BY <2>1 DEF Frames, WorkingAt
<1>6. Goes(Awaits(Q, h, <<>>))
  BY DEF Q
<1>. HIDE DEF h
<1>7. Role(h) = "load" /\ AwaitsRole(h) = "nothing"
  BY <1>5 DEF Role, AwaitsRole, WorkingAt, ResolvingAt
<1>8. FrameOk(h, Q.c, Q.t.keys)
  <2>1. Len(Imports[u]) \in Nat
    BY <1>2, LoaderAssumption, LenProperties
  <2>2. f.i + 1 <= Len(Imports[u]) + 1
    BY <1>2, <1>3, <2>1
  <2>3. h.i = Len(Q.c.module[u].deps) + 1
    BY <1>3, <1>4, <1>5
  <2>. QED BY <1>4, <1>5, <2>2, <2>3 DEF FrameOk, WorkingAt
<1>9. Alone(h, txn.stack)
  BY <1>1, <1>5, WorksAlone
<1>. QED BY <1>1, <1>4, <1>5, <1>6, <1>7, <1>8, <1>9, MayChange

(* A dependency is resolved, loaded, or has its format looked for. *)
LEMMA DependencyAwaits ==
    ASSUME Active, Innermost.at \in WorkingAt, NEW h \in Frames, NEW g \in Frames,
           h.at \in {"target", "loaded", "typed"}, h.url = Innermost.url,
           h.i = Innermost.i, h.i <= Len(Imports[h.url]),
           h.at = "typed" => Imports[h.url][h.i].kind = "resolve",
           Begins(g), Role(g) = AwaitsRole(h), Goes(Awaits(Now, h, <<g>>))
    PROVE  Advances
<1>1. Role(h) = "load" /\ h.at \in WorkingAt /\ h.at # "source" /\ Role(Innermost) = "load"
  BY DEF Role, WorkingAt, ResolvingAt
<1>2. FrameOk(h, caches, txn.keys)
  <2>1. /\ h.url \in DOMAIN caches.module \cap txn.keys.module
        /\ h.i = Len(caches.module[h.url].deps) + 1
    BY DEF Active, FrameOk
  <2>2. h.i <= Len(Imports[h.url]) + (IF h.at = "deps" THEN 1 ELSE 0)
    <3>1. h.url \in Files /\ h.i \in Nat
      BY FrameKinds
    <3>2. Len(Imports[h.url]) \in Nat
      BY <3>1, LoaderAssumption, LenProperties
    <3>. DEFINE n == Len(Imports[h.url])
                i == h.i
    <3>3. i <= n + 0
      <4>1. n \in Nat /\ i \in Nat /\ i <= n
        BY <3>1, <3>2
      <4>. HIDE DEF n, i
      <4>. QED BY <4>1
    <3>. QED BY <3>3
  <2>. QED BY <2>1, <2>2 DEF FrameOk
<1>3. /\ Prepared(Now, txn.stack, begun) /\ LinkingBut(Now, txn.stack, {h.url})
      /\ Now.c = caches /\ Now.t = txn
  BY NowPrepared DEF Active
<1>4. Alone(h, txn.stack)
  BY WorksAlone
<1>5. FrameOk(h, Now.c, Now.t.keys)
  BY <1>2, <1>3
<1>. QED BY <1>1, <1>3, <1>4, <1>5, MayAwait

(* The steps of the loop over the dependencies *)
LEMMA DependencyKeeps ==
    ASSUME Active, DependencyStep
    PROVE  Advances \/ TakesBack
<1>. DEFINE f == Innermost
            u == f.url
            d == Imports[u][f.i]
            v == txn.value
            next == Deps(u, f.i + 1, "deps")
            mode == IF d.kind = "import" THEN "import" ELSE "require"
<1>1. f.at \in WorkingAt /\ Role(f) = "load"
  <2>1. f.at \in WorkingAt
    BY DEF DependencyStep, Runs, WorkingAt
  <2>. QED BY <2>1 DEF WorkingAt, Role, ResolvingAt
<1>2. u \in Files /\ f.i \in Nat \ {0}
  BY <1>1, FrameKinds DEF Active, WorkingAt
<1>3. /\ u \in DOMAIN caches.module /\ f.i = Len(caches.module[u].deps) + 1
      /\ f.i <= Len(Imports[u]) + (IF f.at = "deps" THEN 1 ELSE 0)
      /\ Imports[u] \in Seq(Dependencies) /\ Len(Imports[u]) \in Nat
      /\ caches.module[u].deps \in Seq(Links) /\ Len(caches.module[u].deps) \in Nat
  <2>1. /\ u \in DOMAIN caches.module /\ f.i = Len(caches.module[u].deps) + 1
        /\ f.i <= Len(Imports[u]) + (IF f.at = "deps" THEN 1 ELSE 0)
    BY <1>1 DEF Active, FrameOk
  <2>2. caches.module[u].deps \in Seq(Links)
    BY <2>1 DEF Active, CacheTypes, ModuleTypes, ModuleType
  <2>. QED BY <1>2, <2>1, <2>2, LoaderAssumption, LenProperties
<1>4. f.i <= Len(Imports[u]) => d \in Dependencies
  BY <1>2, <1>3, ElementOfSeq
<1>5. d \in Dependencies =>
         /\ d.kind \in {"import", "require", "resolve"} /\ d.spec \in Specifiers
         /\ d.to \in Files \cup Synthetics
  <2>. HIDE DEF d
  <2>. QED BY DEF Dependencies
<1>6. ASSUME NEW at \in {"target", "loaded"}, f.i <= Len(Imports[u])
      PROVE  LET h == Deps(u, f.i, at)
             IN  h \in Frames /\ h.at = at /\ h.url = u /\ h.i = f.i
  <2>. DEFINE h == Deps(u, f.i, at)
  <2>1. /\ h \in [at : {"deps", "target", "loaded"}, url : Files, i : Nat \ {0}]
        /\ h.at = at /\ h.url = u /\ h.i = f.i
    BY <1>2, <1>6 DEF Deps
  <2>. HIDE DEF h
  <2>2. h \in Frames
    BY <2>1 DEF Frames
  <2>. QED BY <2>1, <2>2 DEF h
<1>7. CASE Runs("deps") /\ f.i > Len(Imports[u]) /\ Goes(Returns(Now, u))
  <2>1. Linked(Now.c, u)
    <3>1. f.i = Len(Imports[u]) + 1
      <4>. DEFINE n == Len(Imports[u])
                  i == f.i
      <4>1. n \in Nat /\ i \in Nat /\ i <= n + 1 /\ i > n
        BY <1>2, <1>3, <1>7 DEF Runs
      <4>2. i = n + 1
        <5>. HIDE DEF n, i
        <5>. QED BY <4>1
      <4>. QED BY <4>2
    <3>2. Len(caches.module[u].deps) = Len(Imports[u])
      BY <1>3, <3>1
    <3>. QED BY <3>2 DEF Linked, Active
  <2>2. LinkingBut(Now, txn.stack, {}) /\ Prepared(Now, txn.stack, begun)
    <3>1. LinkingBut(Now, txn.stack, {u}) /\ Prepared(Now, txn.stack, begun)
      BY NowPrepared
    <3>. QED BY <2>1, <3>1 DEF LinkingBut
  <2>3. Fits(f, u, Now.c) /\ Role(f) # "call"
    BY <1>1, <1>3 DEF Fits, Active
  <2>. QED BY <1>7, <2>2, <2>3, MayReturn
<1>8. CASE /\ Runs("deps") /\ f.i <= Len(Imports[u])
           /\ Goes(Awaits(Now, Deps(u, f.i, "target"), <<Resolve(d.spec, d.to, u, mode)>>))
  <2>. DEFINE h == Deps(u, f.i, "target")
              g == Resolve(d.spec, d.to, u, mode)
  <2>1. /\ d.spec \in Specifiers /\ d.to \in Files \cup Synthetics
        /\ mode \in {"import", "require"} /\ u \in Files \cup {"entry"}
    BY <1>2, <1>4, <1>5, <1>8
  <2>2. h \in Frames /\ h.at = "target" /\ h.url = u /\ h.i = f.i
    BY <1>6, <1>8
  <2>. HIDE DEF d, mode
  <2>3. g \in Frames /\ Begins(g) /\ Role(g) = "resolve"
    BY <2>1, ResolveFrame
  <2>4. Goes(Awaits(Now, h, <<g>>))
    BY <1>8
  <2>. HIDE DEF h, g
  <2>5. AwaitsRole(h) = "resolve"
    BY <2>2 DEF AwaitsRole, ResolvingAt
  <2>. QED BY <1>1, <1>8, <2>2, <2>3, <2>4, <2>5, DependencyAwaits
<1>9. ASSUME f.at # "deps" PROVE f.i <= Len(Imports[u]) /\ d \in Dependencies
  BY <1>2, <1>3, <1>4, <1>9
<1>10. CASE Runs("target")
  <2>1. f.at = "target" /\ f.i <= Len(Imports[u]) /\ d \in Dependencies
    BY <1>9, <1>10 DEF Runs
  <2>2. v \in Files \cup Synthetics
    BY <2>1 DEF Active, ValueOk, AwaitsRole
  <2>3. CASE d.kind # "resolve"
    <3>. DEFINE h == Deps(u, f.i, "loaded")
                g == Load(v)
    <3>1. h \in Frames /\ h.at = "loaded" /\ h.url = u /\ h.i = f.i
      BY <1>6, <2>1
    <3>2. g \in Frames /\ Begins(g) /\ Role(g) = "load"
      BY <2>2, LoadFrame
    <3>3. Goes(Awaits(Now, h, <<g>>))
      BY <1>10, <2>3 DEF DependencyStep, Runs
    <3>. HIDE DEF h, g
    <3>4. AwaitsRole(h) = "load"
      BY <3>1 DEF AwaitsRole, ResolvingAt
    <3>. QED BY <1>1, <2>1, <3>1, <3>2, <3>3, <3>4, DependencyAwaits
  <2>4. CASE d.kind = "resolve" /\ v \in Synthetics
    <3>1. Goes(Awaits(WithDependency(Now, u, d.kind, v), next, <<>>))
      BY <1>10, <2>4 DEF DependencyStep, Runs
    <3>. QED BY <2>1, <2>2, <2>4, <3>1, DependencyLinked
  <2>5. CASE d.kind = "resolve" /\ v \notin Synthetics
    <3>. DEFINE h == [at |-> "typed", url |-> u, i |-> f.i, to |-> v]
                g == [at |-> "format", url |-> v]
    <3>1. /\ h \in [at : {"typed"}, url : Files, i : Nat \ {0}, to : Files]
          /\ h.at = "typed" /\ h.url = u /\ h.i = f.i
      BY <1>2, <2>2, <2>5
    <3>2. g \in Frames /\ Begins(g) /\ Role(g) = "format"
      BY <2>2, <2>5, FormatFrame
    <3>3. Goes(Awaits(Now, h, <<g>>))
      BY <1>10, <2>5 DEF DependencyStep, Runs
    <3>. HIDE DEF h, g
    <3>4. AwaitsRole(h) = "format" /\ h \in Frames
      BY <3>1 DEF AwaitsRole, ResolvingAt, Frames
    <3>. QED BY <1>1, <2>1, <2>5, <3>1, <3>2, <3>3, <3>4, DependencyAwaits
  <2>. QED BY <2>3, <2>4, <2>5
<1>11. CASE Runs("loaded")
  <2>1. f.at = "loaded" /\ d \in Dependencies
    BY <1>9, <1>11 DEF Runs
  <2>2. v \in DOMAIN caches.module
    BY <2>1 DEF Active, ValueOk, AwaitsRole
  <2>3. v \in Files \cup Synthetics
    BY <2>2 DEF Active, CacheTypes, ModuleTypes
  <2>4. Goes(Awaits(WithDependency(Now, u, d.kind, v), next, <<>>)) => Advances
    BY <1>5, <2>1, <2>2, <2>3, DependencyLinked
  <2>5. Rejects(Now) \/ Goes(Awaits(WithDependency(Now, u, d.kind, v), next, <<>>))
    BY <1>11 DEF DependencyStep, Runs
  <2>. QED BY <2>4, <2>5, MayReject DEF Active
<1>12. CASE Runs("typed")
  <2>1. f.at = "typed" /\ d \in Dependencies /\ d.kind = "resolve" /\ f.to \in Files
    BY <1>9, <1>12, FrameKinds DEF Runs, Active, FrameOk
  <2>2. Goes(Awaits(WithDependency(Now, u, d.kind, f.to), next, <<>>))
    BY <1>12 DEF DependencyStep, Runs
  <2>. QED BY <2>1, <2>2, DependencyLinked
<1>. QED BY <1>7, <1>8, <1>10, <1>11, <1>12 DEF DependencyStep

-----------------------------------------------------------------------------
(* From the steps to the invariant                                         *)

LEMMA AdvanceKeeps ==
    ASSUME LoaderInv, ActiveTransaction, Advances
    PROVE  LoaderInv'
<1>1. PICK R : Underway(R, begun) /\ Goes(R)
  BY DEF Advances
<1>2. R = [c |-> R.c, t |-> R.t] /\ R.t.stack # <<>>
  BY <1>1 DEF Underway, Undoable, StateTypes
<1>3. caches' = R.c /\ txn' = R.t /\ evaluation' = evaluation /\ begun' = begun
  BY <1>1 DEF Goes
<1>4. [c |-> caches', t |-> txn'] = R
  BY <1>2, <1>3
<1>5. Underway([c |-> caches', t |-> txn'], begun')
  BY <1>1, <1>3, <1>4
<1>6. txn'.stack # <<>>
  BY <1>2, <1>3
<1>7. Whole(begun) /\ DOMAIN evaluation \subseteq DOMAIN begun.module
  BY DEF LoaderInv
<1>8. Whole(begun') /\ DOMAIN evaluation' \subseteq DOMAIN begun'.module
  BY <1>3, <1>7
<1>. QED BY <1>5, <1>6, <1>8 DEF LoaderInv, ActiveTransaction, Now, FailedLeavesNoTrace

(* A transaction that failed brings back caches that are whole. *)
LEMMA TakeBackKeeps ==
    ASSUME LoaderInv, ActiveTransaction, TakesBack
    PROVE  LoaderInv'
<1>1. PICK R : Undoable(R, begun) /\ Rejects(R)
  BY DEF TakesBack
<1>2. Whole(begun) /\ DOMAIN evaluation \subseteq DOMAIN begun.module
  BY DEF LoaderInv
<1>3. Rollback(R) = begun
  <2>1. CacheTypes(begun)
    BY <1>2 DEF Whole
  <2>. QED BY <1>1, <2>1, RollbackRestores
<1>4. /\ caches' = begun /\ begun' = begun /\ evaluation' = evaluation
      /\ txn' = NoTransaction
  BY <1>1, <1>3 DEF Rejects
<1>5. txn'.stack = <<>>
  BY <1>4 DEF NoTransaction
<1>6. Whole(caches') /\ DOMAIN evaluation' \subseteq DOMAIN caches'.module /\ caches' = begun'
  BY <1>2, <1>4
<1>. QED BY <1>5, <1>6 DEF LoaderInv, ActiveTransaction, FailedLeavesNoTrace

(* The stack that a public call begins with *)
LEMMA FirstStack ==
    ASSUME NEW g \in Frames, NEW h \in Frames, Begins(g), h.at = "call",
           Role(g) = AwaitsRole(h)
    PROVE  LET w == <<g>> \o <<h>>
           IN  StackOk(w) /\ w # <<>> /\ Len(w) = 2 /\ w[1] = g /\ w[2] = h
<1>. DEFINE w == <<g>> \o <<h>>
<1>1. w \in Seq(Frames) /\ Len(w) = 2 /\ w[1] = g /\ w[2] = h
  OBVIOUS
<1>. HIDE DEF w
<1>2. Role(h) = "call" /\ h.at # "source" /\ h.at # "analyse" /\ h.at \notin WorkingAt
  BY DEF Role, WorkingAt, ResolvingAt
<1>3. Role(g) # "call"
  BY DEF Begins, Role, WorkingAt, ResolvingAt
<1>4. \A i \in 1..Len(w) : i = 1 \/ i = 2
  BY <1>1
<1>5. \A i \in 1..Len(w) : Role(w[i]) = "call" <=> i = Len(w)
  BY <1>1, <1>2, <1>3, <1>4
<1>6. ASSUME NEW i \in 1..(Len(w) - 1)
      PROVE  /\ Role(w[i]) = AwaitsRole(w[i + 1])
             /\ w[i + 1].at = "source" => w[i].purpose = "module"
  <2>1. i = 1 /\ i + 1 = 2
    BY <1>1
  <2>. QED BY <1>1, <1>2, <2>1
<1>7. ASSUME NEW i \in 1..Len(w), NEW j \in 1..Len(w), i < j
      PROVE  /\ w[j].at = "analyse" => Role(w[i]) \in {"read", "scope", "format"}
             /\ w[i].at \in WorkingAt /\ w[j].at \in WorkingAt => w[i].url # w[j].url
  <2>1. j = 2
    BY <1>1, <1>7
  <2>. QED BY <1>1, <1>2, <2>1
<1>8. StackOk(w) /\ w # <<>>
  BY <1>1, <1>5, <1>6, <1>7 DEF StackOk
<1>. QED BY <1>1, <1>8 DEF w

\* a transaction that waits with the stack w and has done nothing
Fresh(S, c, w) ==
    /\ Undoable(S, c) /\ S.c = c /\ S.t.stack = w /\ S.t.value = "none"
    /\ S.t.keys = NoKeys

(* A transaction that has done nothing can be undone. *)
LEMMA FreshUndoable ==
    ASSUME NEW c, CacheTypes(c), NEW w,
           NEW S, S = [c |-> c, t |-> [NoTransaction EXCEPT !.stack = w]]
    PROVE  Fresh(S, c, w)
<1>. DEFINE t == [NoTransaction EXCEPT !.stack = w]
<1>1. /\ t.stack = w /\ t.value = "none" /\ t.keys = NoKeys /\ t.prior = <<>>
      /\ t = [n \in TxnNames |-> t[n]]
  BY DEF NoTransaction, TxnNames
<1>. HIDE DEF t
<1>2. S = [c |-> c, t |-> t]
  BY DEF t
<1>3. S.c = c /\ S.t = t /\ S = [c |-> S.c, t |-> S.t]
  BY <1>2
<1>4. /\ CacheFields(NoKeys) /\ NoKeys.source = {} /\ NoKeys.alias = {} /\ NoKeys.grant = {}
      /\ NoKeys.module = {} /\ NoKeys.negative = {} /\ NoKeys.package = {}
      /\ NoKeys.resolution = {}
  BY DEF NoKeys, CacheFields, CacheNames
<1>5. IsMap(<<>>) /\ DOMAIN <<>> = {}
  BY DEF IsMap
<1>6. StateTypes(S)
  BY <1>1, <1>3, <1>4 DEF StateTypes, CacheTypes
<1>7. UndoneSource(c.source, {}, <<>>, c.source)
  BY <1>5 DEF UndoneSource
<1>8. /\ Undone(c.alias, {}, c.alias) /\ Undone(c.module, {}, c.module)
      /\ Undone(c.package, {}, c.package) /\ Undone(c.resolution, {}, c.resolution)
  BY DEF Undone
<1>9. Undoable(S, c)
  BY <1>1, <1>3, <1>4, <1>6, <1>7, <1>8 DEF Undoable
<1>. QED BY <1>1, <1>3, <1>9 DEF Fresh

(* A transaction begins on caches that are whole. *)
LEMMA BeginKeeps ==
    ASSUME LoaderInv, NEW r \in LoaderCalls, BeginTransaction(r)
    PROVE  LoaderInv'
<1>. DEFINE g == IF r.op = "load" THEN Load(r.to) ELSE Resolve(r.spec, r.to, "entry", "import")
            h == [at |-> "call", op |-> r.op]
            w == <<g>> \o <<h>>
            S == [c |-> caches, t |-> [NoTransaction EXCEPT !.stack = w]]
<1>1. r \in Requests
  BY LoaderAssumption
<1>2. /\ Whole(caches) /\ DOMAIN evaluation \subseteq DOMAIN caches.module
  BY DEF LoaderInv, BeginTransaction
<1>3. /\ r.op \in {"plan", "resolve", "load"} /\ r.spec \in Specifiers
      /\ r.to \in Files \cup Synthetics
  BY <1>1 DEF Requests
<1>4. h \in Frames /\ h.at = "call" /\ h.op = r.op
  BY <1>3 DEF Frames
<1>5. g \in Frames /\ Begins(g) /\ Role(g) = AwaitsRole(h)
  <2>1. AwaitsRole(h) = IF r.op = "load" THEN "load" ELSE "resolve"
    <3>. HIDE DEF h
    <3>. QED BY <1>3, <1>4 DEF AwaitsRole, ResolvingAt
  <2>2. CASE r.op = "load"
    <3>1. Load(r.to) \in Frames /\ Begins(Load(r.to)) /\ Role(Load(r.to)) = "load"
      BY <1>3, LoadFrame
    <3>. QED BY <2>1, <2>2, <3>1
  <2>3. CASE r.op # "load"
    <3>. DEFINE q == Resolve(r.spec, r.to, "entry", "import")
    <3>1. q \in Frames /\ Begins(q) /\ Role(q) = "resolve"
      BY <1>3, ResolveFrame
    <3>. HIDE DEF q
    <3>2. g = q
      BY <2>3 DEF q
    <3>. QED BY <2>1, <2>3, <3>1, <3>2
  <2>. QED BY <2>2, <2>3
<1>6. /\ caches' = caches /\ begun' = caches /\ evaluation' = evaluation
      /\ [c |-> caches', t |-> txn'] = S /\ txn' = [NoTransaction EXCEPT !.stack = w]
  BY DEF BeginTransaction
<1>. HIDE DEF g, h
<1>7. StackOk(w) /\ w # <<>> /\ Len(w) = 2 /\ w[1] = g /\ w[2] = h
  BY <1>4, <1>5, FirstStack
<1>. HIDE DEF w
<1>8. /\ Undoable(S, caches) /\ S.c = caches /\ S.t.stack = w /\ S.t.value = "none"
      /\ S.t.keys = NoKeys
  <2>1. CacheTypes(caches)
    BY <1>2 DEF Whole
  <2>2. S = [c |-> caches, t |-> [NoTransaction EXCEPT !.stack = w]]
    OBVIOUS
  <2>. HIDE DEF S
  <2>3. Fresh(S, caches, w)
    BY <2>1, <2>2, FreshUndoable
  <2>. QED BY <2>3 DEF Fresh
<1>. HIDE DEF S
<1>9. Underway(S, caches)
  <2>1. FramesOk(w, caches, NoKeys)
    <3>1. ASSUME NEW i \in 1..Len(w) PROVE FrameOk(w[i], caches, NoKeys)
      <4>1. i = 1 \/ i = 2
        BY <1>7
      <4>2. FrameOk(g, caches, NoKeys)
        BY <1>5 DEF Begins, FrameOk, WorkingAt
      <4>3. FrameOk(h, caches, NoKeys)
        BY <1>4 DEF FrameOk, WorkingAt
      <4>. QED BY <1>7, <4>1, <4>2, <4>3
    <3>. QED BY <3>1 DEF FramesOk
  <2>2. Linking(caches, w) /\ CachesRelate(caches)
    BY <1>2 DEF Whole, Linking
  <2>3. ValueOk(g, "none", caches)
    BY <1>5 DEF Begins, ValueOk, AwaitsRole
  <2>. QED BY <1>7, <1>8, <2>1, <2>2, <2>3 DEF Underway
<1>10. txn'.stack # <<>>
  BY <1>6, <1>7 DEF NoTransaction
<1>11. /\ Underway([c |-> caches', t |-> txn'], begun') /\ Whole(begun')
       /\ DOMAIN evaluation' \subseteq DOMAIN begun'.module
  BY <1>2, <1>6, <1>9
<1>. QED BY <1>10, <1>11 DEF LoaderInv, ActiveTransaction, Now, FailedLeavesNoTrace

(* The caches are whole when nothing waits but the public call. *)
LEMMA CallKeeps ==
    ASSUME LoaderInv, Active, CallContinues
    PROVE  LoaderInv'
<1>1. CASE Innermost.op = "plan"
  <2>1. Advances
    BY <1>1, CallGoesOn DEF CallContinues
  <2>. QED BY <2>1, AdvanceKeeps DEF Active
<1>2. CASE Innermost.op # "plan"
  <2>. DEFINE s == txn.stack
  <2>1. /\ txn' = NoTransaction /\ outcome' = "done" /\ caches' = caches
        /\ evaluation' = evaluation /\ begun' = begun
    BY <1>2 DEF CallContinues
  <2>2. StackOk(s) /\ s # <<>> /\ s[1].at = "call" /\ Linking(caches, s)
    BY DEF Active, Underway, CallContinues, Runs, Innermost
  <2>3. \A u \in DOMAIN caches.module \ Synthetics : Linked(caches, u)
    <3>. HIDE DEF s
    <3>1. s \in Seq(Frames) /\ Len(s) \in Nat /\ Len(s) >= 1 /\ 1 \in 1..Len(s)
      BY <2>2, EmptySeq, LenProperties DEF StackOk
    <3>2. Role(s[1]) = "call"
      BY <2>2 DEF Role, WorkingAt, ResolvingAt
    <3>3. Len(s) = 1
      BY <2>2, <3>1, <3>2 DEF StackOk
    <3>4. \A i \in 1..Len(s) : s[i].at \notin WorkingAt
      BY <2>2, <3>3 DEF WorkingAt
    <3>. QED BY <2>2, <3>4 DEF Linking
  <2>4. Whole(caches)
    BY <2>3 DEF Active, Whole
  <2>5. DOMAIN evaluation \subseteq DOMAIN caches.module
    <3>1. DOMAIN evaluation \subseteq DOMAIN begun.module
      BY DEF LoaderInv, Active
    <3>2. DOMAIN begun.module \subseteq DOMAIN caches.module
      BY DEF Active, Undoable, Undone
    <3>. QED BY <3>1, <3>2
  <2>6. txn'.stack = <<>>
    BY <2>1 DEF NoTransaction
  <2>7. Whole(caches') /\ DOMAIN evaluation' \subseteq DOMAIN caches'.module
    BY <2>1, <2>4, <2>5
  <2>. QED BY <2>1, <2>6, <2>7 DEF LoaderInv, ActiveTransaction, FailedLeavesNoTrace
<1>. QED BY <1>1, <1>2

(* What the engine evaluates is cached. *)
LEMMA EvaluationKeeps ==
    ASSUME LoaderInv, NEW u,
           BeginEvaluation(u) \/ CompleteEvaluation(u) \/ DropEvaluation(u)
    PROVE  LoaderInv'
<1>. DEFINE k == Canonical(Now, u)
<1>1. /\ ~ActiveTransaction /\ MayAccess(u) /\ caches' = caches /\ txn' = txn
      /\ begun' = begun /\ outcome' = outcome
      /\ \/ \E state : evaluation' = Assigned(evaluation, k, state)
         \/ evaluation' = Without(evaluation, {k})
  BY DEF BeginEvaluation, CompleteEvaluation, DropEvaluation, Evaluated
<1>2. k \in DOMAIN caches.module
  BY <1>1 DEF MayAccess, Has
<1>. HIDE DEF k
<1>3. Whole(caches) /\ DOMAIN evaluation \subseteq DOMAIN caches.module /\ FailedLeavesNoTrace
  BY <1>1 DEF LoaderInv
<1>4. DOMAIN evaluation' \subseteq DOMAIN evaluation \cup {k}
  BY <1>1 DEF Assigned, Without, Restrict
<1>5. DOMAIN evaluation' \subseteq DOMAIN caches'.module /\ Whole(caches')
  BY <1>1, <1>2, <1>3, <1>4
<1>6. FailedLeavesNoTrace'
  BY <1>1, <1>3 DEF FailedLeavesNoTrace, ActiveTransaction
<1>7. txn'.stack = <<>>
  BY <1>1 DEF ActiveTransaction
<1>. QED BY <1>5, <1>6, <1>7 DEF LoaderInv, ActiveTransaction

(* Empty caches are whole. *)
LEMMA LoaderStarts ==
    ASSUME LoaderInit
    PROVE  LoaderInv
<1>1. IsMap(<<>>) /\ DOMAIN <<>> = {}
  BY DEF IsMap
<1>2. /\ CacheFields(Empty) /\ Empty.source = <<>> /\ Empty.alias = <<>> /\ Empty.grant = {}
      /\ Empty.module = <<>> /\ Empty.package = <<>> /\ Empty.resolution = <<>>
  BY DEF Empty, CacheFields, CacheNames
<1>3. CacheTypes(Empty)
  BY <1>1, <1>2 DEF CacheTypes, SourceTypes, AliasTypes, ModuleTypes, ResolutionTypes
<1>4. CachesRelate(Empty) /\ \A u \in DOMAIN Empty.module \ Synthetics : Linked(Empty, u)
  BY <1>1, <1>2 DEF CachesRelate
<1>5. Whole(Empty)
  BY <1>3, <1>4 DEF Whole
<1>6. txn.stack = <<>> /\ caches = Empty /\ evaluation = <<>> /\ outcome = "none"
  BY DEF LoaderInit, NoTransaction
<1>7. DOMAIN evaluation \subseteq DOMAIN caches.module
  BY <1>1, <1>2, <1>6
<1>. QED BY <1>5, <1>6, <1>7 DEF LoaderInv, ActiveTransaction, FailedLeavesNoTrace

(* Every step of the loader keeps its invariant. *)
LEMMA LoaderKeeps ==
    ASSUME LoaderInv, [LoaderNext]_loaderVars
    PROVE  LoaderInv'
<1>1. CASE UNCHANGED loaderVars
  BY <1>1 DEF LoaderInv, loaderVars, ActiveTransaction, Now, FailedLeavesNoTrace
<1>2. ASSUME NEW r \in LoaderCalls, BeginTransaction(r) PROVE LoaderInv'
  BY <1>2, BeginKeeps
<1>3. ASSUME NEW u, BeginEvaluation(u) \/ CompleteEvaluation(u) \/ DropEvaluation(u)
      PROVE  LoaderInv'
  BY <1>3, EvaluationKeeps
<1>4. CASE ActiveTransaction
  <2>1. Active
    BY <1>4, WhileActive DEF LoaderInv
  <2>2. Advances \/ TakesBack => LoaderInv'
    BY <1>4, AdvanceKeeps, TakeBackKeeps
  <2>3. CASE CallContinues
    BY <2>1, <2>3, CallKeeps
  <2>4. CASE ReadCached
    BY <2>1, <2>2, <2>4, ReadCachedKeeps
  <2>5. CASE ScopeRead
    BY <2>1, <2>2, <2>5, ScopeKeeps
  <2>6. CASE ResolveStep
    BY <2>1, <2>2, <2>6, ResolveKeeps
  <2>7. CASE LoadStep
    BY <2>1, <2>2, <2>7, LoadKeeps
  <2>8. ASSUME NEW a \in Answers(Innermost.url, Innermost.purpose), ReadHost(a)
        PROVE  LoaderInv'
    BY <2>1, <2>2, <2>8, ReadHostKeeps
  <2>9. CASE FormatStep \/ FormatReturns
    BY <2>1, <2>2, <2>9, FormatKeeps
  <2>10. CASE Analyse
    BY <2>1, <2>2, <2>10, AnalyseKeeps
  <2>11. CASE DependencyStep
    BY <2>1, <2>2, <2>11, DependencyKeeps
  <2>12. CASE LoaderRest
    BY <1>4, <2>12 DEF LoaderRest
  <2>. QED BY <1>1, <1>2, <1>3, <2>3, <2>4, <2>5, <2>6, <2>7, <2>8, <2>9, <2>10, <2>11, <2>12
           DEF LoaderNext
<1>5. CASE ~ActiveTransaction
  <2>1. \A pc : ~Runs(pc)
    BY <1>5 DEF Runs
  <2>2. /\ ~CallContinues /\ ~ReadCached /\ ~ScopeRead /\ ~ResolveStep /\ ~LoadStep
        /\ ~FormatStep /\ ~FormatReturns /\ ~Analyse /\ ~DependencyStep
    BY <2>1 DEF CallContinues, ReadCached, ScopeRead, ResolveStep, LoadStep, FormatStep,
                FormatReturns, Analyse, DependencyStep
  <2>3. LoaderRest => UNCHANGED loaderVars
    BY DEF LoaderRest
  <2>. QED BY <1>1, <1>2, <1>3, <2>1, <2>2, <2>3 DEF LoaderNext
<1>. QED BY <1>4, <1>5

(* The invariant says that loads are whole. *)
LEMMA LoaderImplies ==
    ASSUME LoaderInv
    PROVE  LoadsAreWhole
<1>1. CASE ActiveTransaction
  <2>1. Active
    BY <1>1, WhileActive DEF LoaderInv
  <2>2. DOMAIN evaluation \subseteq DOMAIN begun.module
    BY <1>1 DEF LoaderInv
  <2>3. DOMAIN begun.module \subseteq DOMAIN caches.module
    BY <2>1 DEF Active, Undoable, Undone
  <2>. QED BY <1>1, <2>2, <2>3 DEF LoadsAreWhole, FailedLeavesNoTrace, CachesAgree
<1>2. CASE ~ActiveTransaction
  <2>1. Whole(caches) /\ DOMAIN evaluation \subseteq DOMAIN caches.module /\ FailedLeavesNoTrace
    BY <1>2 DEF LoaderInv
  <2>2. ASSUME NEW u \in DOMAIN caches.module \ Synthetics
        PROVE  /\ Has(caches.source, u) /\ u \in caches.grant
               /\ caches.module[u].version = caches.source[u].version
               /\ Len(caches.module[u].deps) = Len(Imports[u])
    BY <2>1 DEF Whole, CachesRelate, Linked, Has
  <2>3. ASSUME NEW u \in DOMAIN caches.module, NEW i \in DOMAIN caches.module[u].deps
        PROVE  caches.module[u].deps[i].kind # "resolve" =>
                   caches.module[u].deps[i].to \in DOMAIN caches.module
    BY <2>1 DEF Whole, CachesRelate
  <2>4. ASSUME NEW u \in DOMAIN caches.alias
        PROVE  Has(caches.source, caches.alias[u]) /\ ~Has(caches.alias, caches.alias[u])
    BY <2>1 DEF Whole, CachesRelate, Has
  <2>. QED BY <2>1, <2>2, <2>3, <2>4 DEF LoadsAreWhole, CachesAgree
<1>. QED BY <1>1, <1>2

(* In every state of the loader its invariant holds: what is written       *)
(* while a transaction is active can be undone, and every frame of the     *)
(* walk knows what it relies on.                                           *)
THEOREM LoaderInvariance == LoaderSpec => []LoaderInv
<1>1. LoaderInit => LoaderInv
  BY LoaderStarts
<1>2. LoaderInv /\ [LoaderNext]_loaderVars => LoaderInv'
  BY LoaderKeeps
<1>. QED BY <1>1, <1>2, PTL DEF LoaderSpec

(* A load is all or nothing, whatever the files, their dependencies and    *)
(* the host's answers are (runTransaction, rollbackTransaction).           *)
THEOREM LoadsWhole == LoaderSpec => []LoadsAreWhole
<1>1. LoaderInv => LoadsAreWhole
  BY LoaderImplies
<1>. QED BY <1>1, LoaderInvariance, PTL

-----------------------------------------------------------------------------
(* The engine gates.                                                       *)

FrameStates == {"none", "queued", "open", "returned", "waiting", "done"}

GateType ==
    [status : {"idle", "leased", "released"}, rev : 0 .. MaxGraph,
     aborted : BOOLEAN, closed : BOOLEAN, denial : BOOLEAN,
     frame : [GateFrames -> FrameStates], called : SUBSET GateFrames,
     raw : [GateFrames -> {"none", "allow", "deny"}], decision : {"none", "allow", "deny"}]

\* a frame is done, and allowed
Allows(e, k) == e.frame[k] = "done" /\ e.raw[k] = "allow"

\* what the frames of a gate know of each other: a frame was started by the
\* next() of the one before it, a denial anywhere is remembered, and a frame
\* allows only after the one it started
Chained(e) ==
    /\ \A k \in e.called : k + 1 \in GateFrames /\ e.frame[k] # "none" /\ e.frame[k + 1] # "none"
    /\ \A k \in GateFrames : k # 0 /\ e.frame[k] # "none" => k - 1 \in e.called
    /\ ~e.denial => \A k \in GateFrames : e.frame[k] = "done" => e.raw[k] = "allow"
    /\ \A k \in e.called : Allows(e, k) => Allows(e, k + 1)

\* next() starts nothing any more
Over(e) == e.closed \/ \A k \in GateFrames : e.frame[k] = "none"

GateOk(e) ==
    /\ e \in GateType
    /\ Chained(e)
    /\ e.status # "leased" => ~FramesActive(e) /\ Over(e)
    /\ e.decision # "none" => Over(e)
    /\ e.decision = "allow" => \A k \in GateFrames : e.frame[k] = "none" \/ Allows(e, k)
    /\ e.decision = "allow" => e.frame[0] = "done"

Holders(r) == {g \in Gates : gates[g].status = "leased" /\ gates[g].rev = r}

\* a lease for every gate in use, and none on a graph that is drained
Leases ==
    /\ graph \in 0 .. MaxGraph /\ DOMAIN drained = 0 .. MaxGraph
    /\ leases \in [0 .. MaxGraph -> Nat]
    /\ \A r \in 0 .. MaxGraph : leases[r] = Cardinality(Holders(r))
    /\ \A r \in 0 .. MaxGraph : drained[r] # "none" => r < graph
    /\ \A r \in 0 .. MaxGraph : drained[r] = "resolved" => leases[r] = 0

Inv ==
    /\ DOMAIN gates = Gates
    /\ \A g \in Gates : GateOk(gates[g])
    /\ Leases

-----------------------------------------------------------------------------
(* A gate.                                                                 *)

LEMMA FramesExist == 0 \in GateFrames /\ GateFrames \subseteq Nat
BY GateAssumption DEF GateFrames

LEMMA NoGateOk == GateOk(NoGate)
<1>1. NoGate \in GateType
    BY GateAssumption DEF NoGate, GateType, FrameStates
<1>2. \A k \in GateFrames : NoGate.frame[k] = "none"
    BY DEF NoGate
<1>3. NoGate.called = {} /\ NoGate.decision = "none"
    BY DEF NoGate
<1>4. Chained(NoGate)
    BY <1>2, <1>3 DEF Chained
<1>5. ~FramesActive(NoGate) /\ Over(NoGate)
    BY <1>2 DEF FramesActive, Over
<1> QED BY <1>1, <1>3, <1>4, <1>5 DEF GateOk

(* When the first frame allows, every frame that was started has allowed:  *)
(* the first one that has not would follow one that has.                   *)
LEMMA FirstAllowsAll ==
    ASSUME NEW e, Chained(e), Allows(e, 0)
    PROVE  \A k \in GateFrames : e.frame[k] = "none" \/ Allows(e, k)
<1> DEFINE T == {k \in GateFrames : e.frame[k] # "none" /\ ~Allows(e, k)}
<1>1. SUFFICES ASSUME T # {} PROVE FALSE
    OBVIOUS
<1>2. T \in SUBSET Nat
    BY FramesExist
<1>3. PICK m \in T : \A k \in T : m <= k
    <2> HIDE DEF T
    <2> QED BY <1>1, <1>2, SmallestExists
<1>4. m \in GateFrames /\ m \in Nat /\ m # 0 /\ e.frame[m] # "none" /\ ~Allows(e, m)
    BY <1>2, <1>3
<1>5. m - 1 \in e.called
    BY <1>4 DEF Chained
<1>6. m - 1 \in GateFrames
    BY <1>4, GateAssumption DEF GateFrames
<1>7. m - 1 \notin T
    BY <1>3, <1>4
<1>8. e.frame[m - 1] # "none"
    BY <1>5 DEF Chained
<1>9. Allows(e, m - 1)
    BY <1>6, <1>7, <1>8
<1>10. (m - 1) + 1 = m
    BY <1>4
<1>11. Allows(e, m)
    BY <1>5, <1>9, <1>10 DEF Chained
<1> QED BY <1>4, <1>11

\* Only a gate in use has frames that are not over.
LEMMA ActiveIsLeased ==
    ASSUME NEW e, GateOk(e), NEW k \in GateFrames,
           e.frame[k] \in {"queued", "open", "returned", "waiting"}
    PROVE  e.status = "leased" /\ e.decision # "allow"
BY DEF GateOk, FramesActive, Allows

(* A frame ends, with a denial or with what its handler and the frame it   *)
(* started allow.                                                          *)
LEMMA FrameEndsOk ==
    ASSUME NEW e, GateOk(e), NEW k \in GateFrames, NEW decision \in {"allow", "deny"},
           e.frame[k] \in {"queued", "open", "returned", "waiting"},
           decision = "allow" => ~e.denial /\ (k \in e.called => e.frame[k + 1] = "done")
    PROVE  GateOk(FrameEnds(e, k, decision))
<1> DEFINE n == FrameEnds(e, k, decision)
<1>1. e.status = "leased" /\ e.decision # "allow"
    BY ActiveIsLeased
<1>2. e \in GateType /\ Chained(e) /\ (e.decision # "none" => Over(e))
    BY DEF GateOk
<1>3. n \in GateType
    BY <1>2 DEF FrameEnds, GateType, FrameStates
<1>4. /\ n.status = e.status /\ n.decision = e.decision /\ n.called = e.called
      /\ n.closed = e.closed /\ (n.denial <=> e.denial \/ decision = "deny")
      /\ n.frame = [e.frame EXCEPT ![k] = "done"] /\ n.raw = [e.raw EXCEPT ![k] = decision]
    BY <1>2 DEF FrameEnds, GateType
<1>5. /\ \A j \in GateFrames : n.frame[j] = IF j = k THEN "done" ELSE e.frame[j]
      /\ \A j \in GateFrames : n.raw[j] = IF j = k THEN decision ELSE e.raw[j]
      /\ n.called \subseteq GateFrames
    BY <1>2, <1>4 DEF GateType
<1> HIDE DEF n
<1>6. Chained(n)
    <2>1. \A j \in n.called : j + 1 \in GateFrames /\ n.frame[j] # "none" /\ n.frame[j + 1] # "none"
        BY <1>2, <1>4, <1>5 DEF Chained
    <2>2. \A j \in GateFrames : j # 0 /\ n.frame[j] # "none" => j - 1 \in n.called
        BY <1>2, <1>4, <1>5 DEF Chained
    <2>3. ~n.denial => \A j \in GateFrames : n.frame[j] = "done" => n.raw[j] = "allow"
        BY <1>2, <1>4, <1>5 DEF Chained
    <2>4. ASSUME NEW j \in n.called, Allows(n, j) PROVE Allows(n, j + 1)
        <3>0. j \in GateFrames /\ j + 1 \in GateFrames /\ j \in e.called
            BY <2>1, <1>4, <1>5
        <3>1. CASE j = k
            <4>1. decision = "allow" /\ ~e.denial /\ e.frame[k + 1] = "done"
                BY <3>1, <2>4, <3>0, <1>5 DEF Allows
            <4>2. e.raw[k + 1] = "allow" /\ k + 1 # k
                BY <4>1, <3>0, <3>1, <1>2, FramesExist DEF Chained
            <4> QED BY <3>0, <3>1, <4>1, <4>2, <1>5 DEF Allows
        <3>2. CASE j # k
            <4>1. Allows(e, j)
                BY <3>0, <3>2, <2>4, <1>5 DEF Allows
            <4>2. Allows(e, j + 1)
                BY <3>0, <4>1, <1>2 DEF Chained
            <4>3. j + 1 # k
                BY <4>2 DEF Allows
            <4> QED BY <3>0, <4>2, <4>3, <1>5 DEF Allows
        <3> QED BY <3>1, <3>2
    <2> QED BY <2>1, <2>2, <2>3, <2>4 DEF Chained
<1>7. n.decision # "none" => Over(n)
    BY <1>1, <1>2, <1>4 DEF Over
<1>8. GateOk(n)
    BY <1>1, <1>3, <1>4, <1>6, <1>7 DEF GateOk
<1> QED BY <1>8 DEF n

SameDecisions(n, e, k) == \A j \in GateFrames : j # k => n.raw[j] = e.raw[j]

\* A frame goes on without ending; what is a denial stays one.
LEMMA FrameMovesOk ==
    ASSUME NEW e, GateOk(e), NEW k \in GateFrames, NEW s \in {"open", "returned", "waiting"},
           NEW n \in GateType,
           e.frame[k] \in {"queued", "open", "returned"},
           n.status = e.status, n.decision = e.decision, n.called = e.called,
           n.closed = e.closed, n.denial = e.denial,
           n.frame = [e.frame EXCEPT ![k] = s],
           SameDecisions(n, e, k)
    PROVE  GateOk(n)
<1>1. e.status = "leased" /\ e.decision # "allow"
    BY ActiveIsLeased
<1>2. e \in GateType /\ Chained(e) /\ (e.decision # "none" => Over(e))
    BY DEF GateOk
<1>3. /\ \A j \in GateFrames : n.frame[j] = IF j = k THEN s ELSE e.frame[j]
      /\ n.called \subseteq GateFrames
      /\ \A j \in GateFrames : j # k => n.raw[j] = e.raw[j]
    BY <1>2 DEF GateType, SameDecisions
<1>4. Chained(n)
    <2>1. \A j \in n.called : j + 1 \in GateFrames /\ n.frame[j] # "none" /\ n.frame[j + 1] # "none"
        BY <1>2, <1>3 DEF Chained
    <2>2. \A j \in GateFrames : j # 0 /\ n.frame[j] # "none" => j - 1 \in n.called
        BY <1>2, <1>3 DEF Chained
    <2>3. ~n.denial => \A j \in GateFrames : n.frame[j] = "done" => n.raw[j] = "allow"
        BY <1>2, <1>3 DEF Chained
    <2>4. ASSUME NEW j \in n.called, Allows(n, j) PROVE Allows(n, j + 1)
        <3>1. j \in GateFrames /\ j + 1 \in GateFrames /\ j # k
            BY <2>1, <2>4, <1>3 DEF Allows
        <3>2. Allows(e, j + 1)
            BY <3>1, <2>4, <1>2, <1>3 DEF Chained, Allows
        <3>3. j + 1 # k
            BY <3>2 DEF Allows
        <3> QED BY <3>1, <3>2, <3>3, <1>3 DEF Allows
    <2> QED BY <2>1, <2>2, <2>3, <2>4 DEF Chained
<1>5. n.decision # "none" => Over(n)
    BY <1>1, <1>2 DEF Over
<1> QED BY <1>1, <1>4, <1>5 DEF GateOk

LEMMA DenialOk ==
    ASSUME NEW e, GateOk(e)
    PROVE  GateOk([e EXCEPT !.denial = TRUE])
<1> DEFINE n == [e EXCEPT !.denial = TRUE]
<1>1. /\ n \in GateType
      /\ n.status = e.status /\ n.decision = e.decision /\ n.called = e.called
      /\ n.closed = e.closed /\ n.denial = TRUE /\ n.frame = e.frame /\ n.raw = e.raw
    BY DEF GateOk, GateType
<1> HIDE DEF n
<1>2. Chained(n)
    BY <1>1 DEF GateOk, Chained, Allows
<1>3. (FramesActive(n) <=> FramesActive(e)) /\ (Over(n) <=> Over(e))
    BY <1>1 DEF FramesActive, Over
<1>4. GateOk(n)
    BY <1>1, <1>2, <1>3 DEF GateOk, Allows
<1> QED BY <1>4 DEF n

\* What closes or aborts a lease leaves its frames alone.
LEMMA ClosingOk ==
    ASSUME NEW e, GateOk(e), NEW n \in GateType,
           n.status = e.status, n.called = e.called, n.frame = e.frame, n.raw = e.raw,
           e.closed => n.closed, e.denial => n.denial,
           n.decision = e.decision \/ n.closed,
           n.decision = "allow" => Allows(e, 0)
    PROVE  GateOk(n)
<1>1. Chained(n)
    BY DEF GateOk, Chained, Allows
<1>2. (FramesActive(n) <=> FramesActive(e)) /\ (Over(e) => Over(n))
    BY DEF FramesActive, Over
<1>3. n.decision # "none" => Over(n)
    BY <1>2 DEF GateOk, Over
<1>4. n.decision = "allow" => \A k \in GateFrames : e.frame[k] = "none" \/ Allows(e, k)
    BY FirstAllowsAll DEF GateOk
<1>5. n.decision = "allow" => n.frame[0] = "done"
    BY DEF Allows
<1> QED BY <1>1, <1>2, <1>3, <1>4, <1>5 DEF GateOk, Allows

-----------------------------------------------------------------------------
(* The operations on a gate in use.                                        *)

\* what an operation of a gate does to everything: its record and no lease
Updates(g, e) ==
    /\ UpdateGate(g, e)
    /\ GateOk(e) /\ e.status = gates[g].status /\ e.rev = gates[g].rev

LEMMA FrameRunsOk ==
    ASSUME Inv, NEW g \in Gates, NEW k \in GateFrames, FrameRuns(g, k)
    PROVE  \E e : Updates(g, e)
<1> DEFINE e == gates[g]
<1>1. GateOk(e) /\ e.frame[k] = "queued"
    BY DEF Inv, FrameRuns
<1>2. e \in GateType
    BY <1>1 DEF GateOk
<1>3. CASE Stopped(e) \/ k >= HandlersOf(e.rev)
    <2>1. UpdateGate(g, FrameEnds(e, k, "deny"))
        BY <1>3 DEF FrameRuns
    <2>2. GateOk(FrameEnds(e, k, "deny"))
        BY <1>1, FrameEndsOk
    <2>3. FrameEnds(e, k, "deny").status = e.status /\ FrameEnds(e, k, "deny").rev = e.rev
        BY <1>2 DEF FrameEnds, GateType
    <2> QED BY <2>1, <2>2, <2>3 DEF Updates
<1>4. CASE ~(Stopped(e) \/ k >= HandlersOf(e.rev))
    <2> DEFINE n == [e EXCEPT !.frame[k] = "open"]
    <2>1. UpdateGate(g, n)
        BY <1>4 DEF FrameRuns
    <2>2. /\ n \in GateType
          /\ n.status = e.status /\ n.decision = e.decision /\ n.called = e.called
          /\ n.closed = e.closed /\ n.denial = e.denial /\ n.raw = e.raw /\ n.rev = e.rev
          /\ n.frame = [e.frame EXCEPT ![k] = "open"]
        BY <1>2 DEF GateType, FrameStates
    <2>3. GateOk(n)
        <3>1. SameDecisions(n, e, k)
            BY <2>2 DEF SameDecisions
        <3> HIDE DEF n, e
        <3> QED BY <1>1, <2>2, <3>1, FrameMovesOk
    <2> QED BY <2>1, <2>2, <2>3 DEF Updates
<1> QED BY <1>3, <1>4

\* A next() either starts the frame below, which was never started, or is a
\* denial.
LEMMA GateNextOk ==
    ASSUME Inv, NEW g \in Gates, NEW k \in GateFrames, GateNext(g, k)
    PROVE  \E e : Updates(g, e)
<1> DEFINE e == gates[g]
<1>1. GateOk(e) /\ k < HandlersOf(e.rev)
    BY DEF Inv, GateNext
<1>2. e \in GateType /\ Chained(e)
    BY <1>1 DEF GateOk
<1>3. CASE Stopped(e) \/ e.frame[k] = "done" \/ k \in e.called
    <2>1. UpdateGate(g, [e EXCEPT !.denial = TRUE])
        BY <1>3 DEF GateNext
    <2>2. [e EXCEPT !.denial = TRUE].status = e.status /\ [e EXCEPT !.denial = TRUE].rev = e.rev
        BY <1>2 DEF GateType
    <2>3. GateOk([e EXCEPT !.denial = TRUE])
        BY <1>1, DenialOk
    <2> QED BY <2>1, <2>2, <2>3 DEF Updates
<1>4. CASE ~(Stopped(e) \/ e.frame[k] = "done" \/ k \in e.called)
    <2> DEFINE n == [e EXCEPT !.called = @ \cup {k}, !.frame[k + 1] = "queued"]
    <2>1. UpdateGate(g, n)
        BY <1>4 DEF GateNext
    <2>2. k \in Nat /\ k + 1 \in GateFrames
        BY <1>1, GateAssumption DEF HandlersOf, GateFrames
    <2>3. /\ n \in GateType
          /\ n.status = e.status /\ n.decision = e.decision /\ n.called = e.called \cup {k}
          /\ n.closed = e.closed /\ n.denial = e.denial /\ n.raw = e.raw /\ n.rev = e.rev
          /\ n.frame = [e.frame EXCEPT ![k + 1] = "queued"]
        BY <1>2, <2>2 DEF GateType, FrameStates
    <2>4. \A j \in GateFrames : n.frame[j] = IF j = k + 1 THEN "queued" ELSE e.frame[j]
        BY <1>2, <2>3 DEF GateType
    <2>5. e.frame[k] \in {"open", "returned", "waiting"} /\ ~e.closed
        BY <1>4 DEF GateNext, Stopped
    <2>6. e.status = "leased" /\ e.decision = "none"
        BY <1>1, <2>5, ActiveIsLeased DEF GateOk, Over
    <2>7. e.frame[k + 1] = "none"
        BY <1>2, <1>4, <2>2 DEF Chained
    <2>8. Chained(n)
        <3> HIDE DEF n, e
        <3>0. n.called \subseteq GateFrames
            BY <2>3 DEF GateType
        <3>1. \A j \in n.called : j + 1 \in GateFrames /\ n.frame[j] # "none" /\ n.frame[j + 1] # "none"
            BY <1>2, <2>2, <2>3, <2>4, <2>5, <3>0 DEF Chained
        <3>2. \A j \in GateFrames : j # 0 /\ n.frame[j] # "none" => j - 1 \in n.called
            BY <1>2, <2>2, <2>3, <2>4 DEF Chained
        <3>3. ~n.denial => \A j \in GateFrames : n.frame[j] = "done" => n.raw[j] = "allow"
            BY <1>2, <2>3, <2>4 DEF Chained
        <3>4. ASSUME NEW j \in n.called, Allows(n, j) PROVE Allows(n, j + 1)
            <4>1. j \in GateFrames /\ j + 1 \in GateFrames
                BY <3>0, <3>1
            <4>2. j # k /\ Allows(e, j)
                BY <3>4, <4>1, <2>2, <2>3, <2>4, <2>5 DEF Allows
            <4>3. Allows(e, j + 1)
                BY <4>2, <2>3, <1>2 DEF Chained
            <4> QED BY <4>1, <4>3, <2>3, <2>4, <2>7 DEF Allows
        <3> QED BY <3>1, <3>2, <3>3, <3>4 DEF Chained
    <2>9. GateOk(n)
        <3>1. n.status = "leased" /\ n.decision = "none" /\ n \in GateType
            BY <2>3, <2>6
        <3> HIDE DEF n
        <3> QED BY <3>1, <2>8 DEF GateOk
    <2> QED BY <2>1, <2>3, <2>9 DEF Updates
<1> QED BY <1>3, <1>4

LEMMA HandlerReturnsOk ==
    ASSUME Inv, NEW g \in Gates, NEW k \in GateFrames, NEW decision \in {"allow", "deny"},
           HandlerReturns(g, k, decision)
    PROVE  \E e : Updates(g, e)
<1> DEFINE e == gates[g]
           n == [e EXCEPT !.frame[k] = "returned", !.raw[k] = decision]
<1>1. GateOk(e) /\ e.frame[k] = "open" /\ UpdateGate(g, n)
    BY DEF Inv, HandlerReturns
<1>2. e \in GateType
    BY <1>1 DEF GateOk
<1>3. /\ n \in GateType
      /\ n.status = e.status /\ n.decision = e.decision /\ n.called = e.called
      /\ n.closed = e.closed /\ n.denial = e.denial /\ n.rev = e.rev
      /\ n.frame = [e.frame EXCEPT ![k] = "returned"]
      /\ SameDecisions(n, e, k)
    BY <1>2 DEF GateType, FrameStates, SameDecisions
<1>4. GateOk(n)
    <2> HIDE DEF n, e
    <2> QED BY <1>1, <1>3, FrameMovesOk
<1> QED BY <1>1, <1>3, <1>4 DEF Updates

\* An ending with the decision of FrameResumes or FrameJoins.
LEMMA EndsOk ==
    ASSUME Inv, NEW g \in Gates, NEW k \in GateFrames, NEW decision \in {"allow", "deny"},
           gates[g].frame[k] \in {"queued", "open", "returned", "waiting"},
           decision = "allow" => /\ ~gates[g].denial
                                 /\ k \in gates[g].called => gates[g].frame[k + 1] = "done",
           UpdateGate(g, FrameEnds(gates[g], k, decision))
    PROVE  \E e : Updates(g, e)
<1> DEFINE e == gates[g]
<1>1. GateOk(e) /\ e \in GateType
    BY DEF Inv, GateOk
<1>2. GateOk(FrameEnds(e, k, decision))
    BY <1>1, FrameEndsOk
<1>3. FrameEnds(e, k, decision).status = e.status /\ FrameEnds(e, k, decision).rev = e.rev
    BY <1>1 DEF FrameEnds, GateType
<1> QED BY <1>2, <1>3 DEF Updates

LEMMA FrameResumesOk ==
    ASSUME Inv, NEW g \in Gates, NEW k \in GateFrames, FrameResumes(g, k)
    PROVE  \E e : Updates(g, e)
<1> DEFINE e == gates[g]
<1>1. GateOk(e) /\ e.frame[k] = "returned"
    BY DEF Inv, FrameResumes
<1>2. CASE Stopped(e) \/ e.raw[k] = "deny" \/ e.denial
    BY <1>1, <1>2, EndsOk DEF FrameResumes
<1>3. CASE ~(Stopped(e) \/ e.raw[k] = "deny" \/ e.denial) /\ k \notin e.called
    BY <1>1, <1>3, EndsOk DEF FrameResumes
<1>4. CASE ~(Stopped(e) \/ e.raw[k] = "deny" \/ e.denial) /\ k \in e.called
    <2> DEFINE n == [e EXCEPT !.frame[k] = "waiting"]
    <2>1. UpdateGate(g, n)
        BY <1>4 DEF FrameResumes
    <2>2. /\ n \in GateType
          /\ n.status = e.status /\ n.decision = e.decision /\ n.called = e.called
          /\ n.closed = e.closed /\ n.denial = e.denial /\ n.raw = e.raw /\ n.rev = e.rev
          /\ n.frame = [e.frame EXCEPT ![k] = "waiting"]
        BY <1>1 DEF GateOk, GateType, FrameStates
    <2>3. GateOk(n)
        <3>1. SameDecisions(n, e, k)
            BY <2>2 DEF SameDecisions
        <3> HIDE DEF n, e
        <3> QED BY <1>1, <2>2, <3>1, FrameMovesOk
    <2> QED BY <2>1, <2>2, <2>3 DEF Updates
<1> QED BY <1>2, <1>3, <1>4

LEMMA FrameJoinsOk ==
    ASSUME Inv, NEW g \in Gates, NEW k \in GateFrames, FrameJoins(g, k)
    PROVE  \E e : Updates(g, e)
<1> DEFINE e == gates[g]
<1>1. e.frame[k] = "waiting" /\ e.frame[k + 1] = "done"
    BY DEF FrameJoins
<1>2. CASE Stopped(e) \/ e.denial
    BY <1>1, <1>2, EndsOk DEF FrameJoins
<1>3. CASE ~(Stopped(e) \/ e.denial)
    BY <1>1, <1>3, EndsOk DEF FrameJoins
<1> QED BY <1>2, <1>3

LEMMA DecideOk ==
    ASSUME Inv, NEW g \in Gates, Decide(g)
    PROVE  \E e : Updates(g, e)
<1> DEFINE e == gates[g]
           d == IF e.frame[0] = "done" THEN e.raw[0] ELSE "deny"
           n == [e EXCEPT !.decision = d, !.closed = TRUE, !.aborted = @ \/ d = "deny"]
<1>1. GateOk(e) /\ e.decision = "none" /\ UpdateGate(g, n)
    BY DEF Inv, Decide
<1>2. e \in GateType /\ d \in {"none", "allow", "deny"}
    BY <1>1, FramesExist DEF GateOk, GateType
<1>3. d = "allow" => Allows(e, 0)
    BY DEF Allows
<1>4. /\ n \in GateType
      /\ n.status = e.status /\ n.called = e.called /\ n.frame = e.frame /\ n.raw = e.raw
      /\ n.closed = TRUE /\ n.denial = e.denial /\ n.decision = d /\ n.rev = e.rev
    <2> HIDE DEF d
    <2> QED BY <1>2 DEF GateType
<1>5. GateOk(n)
    <2> HIDE DEF n, e, d
    <2> QED BY <1>1, <1>3, <1>4, ClosingOk
<1> QED BY <1>1, <1>4, <1>5 DEF Updates

LEMMA CancelledOk ==
    ASSUME NEW e, GateOk(e), e.decision = "none"
    PROVE  GateOk(Cancelled(e)) /\ Cancelled(e).status = e.status /\ Cancelled(e).rev = e.rev
<1> DEFINE n == Cancelled(e)
<1>1. /\ n \in GateType
      /\ n.status = e.status /\ n.called = e.called /\ n.frame = e.frame /\ n.raw = e.raw
      /\ n.closed = TRUE /\ n.denial = TRUE /\ n.decision = e.decision /\ n.rev = e.rev
    BY DEF GateOk, GateType, Cancelled
<1>2. GateOk(n)
    <2> HIDE DEF n
    <2> QED BY <1>1, ClosingOk
<1> QED BY <1>1, <1>2

LEMMA CancelGateOk ==
    ASSUME Inv, NEW g \in Gates, CancelGate(g)
    PROVE  \E e : Updates(g, e)
BY CancelledOk DEF Inv, CancelGate, Updates

-----------------------------------------------------------------------------
(* The leases and the invariant.                                           *)

LEMMA HoldersFinite == \A r : IsFiniteSet(Holders(r)) /\ Cardinality(Holders(r)) \in Nat
BY GateAssumption, FS_Subset, FS_CardinalityType DEF Holders

\* Gates that keep their status and graph keep the leases as they are.
LEMMA SameHolders ==
    ASSUME Leases, UNCHANGED <<graph, leases, drained>>,
           \A h \in Gates : gates'[h].status = gates[h].status /\ gates'[h].rev = gates[h].rev
    PROVE  Leases'
<1>1. \A r : Holders(r)' = Holders(r)
    BY DEF Holders
<1> QED BY <1>1 DEF Leases

LEMMA InitInv == GateInit => Inv
<1> SUFFICES ASSUME GateInit PROVE Inv
    OBVIOUS
<1>1. DOMAIN gates = Gates /\ \A g \in Gates : GateOk(gates[g])
    BY NoGateOk DEF GateInit
<1>2. \A r : Holders(r) = {}
    BY DEF GateInit, Holders, NoGate
<1>3. Leases
    BY <1>2, FS_EmptySet, GateAssumption DEF Leases, GateInit
<1> QED BY <1>1, <1>3 DEF Inv

LEMMA UpdatesInv ==
    ASSUME Inv, NEW g \in Gates, NEW e, Updates(g, e)
    PROVE  Inv'
<1>1. /\ gates' = [gates EXCEPT ![g] = e] /\ DOMAIN gates = Gates
      /\ UNCHANGED <<graph, leases, drained>>
    BY DEF Inv, Updates, UpdateGate
<1>2. \A h \in Gates : gates'[h] = IF h = g THEN e ELSE gates[h]
    BY <1>1
<1>3. \A h \in Gates : GateOk(gates'[h])
    BY <1>2 DEF Inv, Updates
<1>4. Leases'
    BY <1>1, <1>2, SameHolders DEF Inv, Updates
<1> QED BY <1>1, <1>3, <1>4 DEF Inv

LEMMA OpensInv ==
    ASSUME Inv, NEW g \in Gates, GateOpens(g)
    PROVE  Inv'
<1> DEFINE n == [NoGate EXCEPT !.status = "leased", !.rev = graph, !.frame[0] = "queued"]
<1>1. /\ gates' = [gates EXCEPT ![g] = n] /\ DOMAIN gates = Gates
      /\ leases' = [leases EXCEPT ![graph] = @ + 1]
      /\ UNCHANGED <<graph, drained>>
      /\ gates[g].status = "idle" /\ graph \in 0 .. MaxGraph
    BY DEF Inv, GateOpens, Leases
<1>2. /\ n \in GateType
      /\ n.status = "leased" /\ n.rev = graph /\ n.called = {} /\ n.decision = "none"
      /\ \A k \in GateFrames : n.frame[k] = IF k = 0 THEN "queued" ELSE "none"
    BY <1>1, FramesExist DEF NoGate, GateType, FrameStates
<1>3. GateOk(n)
    <2> HIDE DEF n
    <2>1. Chained(n)
        BY <1>2 DEF Chained
    <2> QED BY <1>2, <2>1 DEF GateOk
<1>4. \A h \in Gates : gates'[h] = IF h = g THEN n ELSE gates[h]
    BY <1>1
<1>5. \A h \in Gates : GateOk(gates'[h])
    BY <1>3, <1>4 DEF Inv
<1>q. PICK q \in 0 .. MaxGraph : q = graph
    BY <1>1
<1>6. /\ Holders(q)' = Holders(q) \cup {g} /\ g \notin Holders(q)
      /\ \A r \in 0 .. MaxGraph : r # q => Holders(r)' = Holders(r)
    <2> HIDE DEF n
    <2> QED BY <1>1, <1>2, <1>4, <1>q DEF Holders
<1>7. Cardinality(Holders(q)') = Cardinality(Holders(q)) + 1
    BY <1>6, HoldersFinite, FS_AddElement
<1>8. Leases'
    <2>1. /\ leases \in [0 .. MaxGraph -> Nat]
          /\ \A r \in 0 .. MaxGraph : leases[r] = Cardinality(Holders(r))
          /\ \A r \in 0 .. MaxGraph : drained[r] # "none" => r < graph
          /\ \A r \in 0 .. MaxGraph : drained[r] = "resolved" => leases[r] = 0
          /\ DOMAIN drained = 0 .. MaxGraph
        BY DEF Inv, Leases
    <2>2. \A r \in 0 .. MaxGraph : leases'[r] = IF r = q THEN leases[r] + 1 ELSE leases[r]
        BY <1>1, <1>q, <2>1
    <2>3. \A r \in 0 .. MaxGraph : leases'[r] = Cardinality(Holders(r)')
        <3> SUFFICES ASSUME NEW r \in 0 .. MaxGraph PROVE leases'[r] = Cardinality(Holders(r)')
            OBVIOUS
        <3>1. CASE r = q
            BY <3>1, <1>7, <2>1, <2>2
        <3>2. CASE r # q
            <4>1. Holders(r)' = Holders(r)
                BY <3>2, <1>6
            <4> QED BY <3>2, <4>1, <2>1, <2>2
        <3> QED BY <3>1, <3>2
    <2>4. drained[q] # "resolved"
        BY <1>q, <2>1, GateAssumption
    <2>5. leases' \in [0 .. MaxGraph -> Nat]
        BY <1>1, <2>1
    <2> QED BY <1>1, <1>q, <2>1, <2>2, <2>3, <2>4, <2>5 DEF Leases
<1> QED BY <1>1, <1>5, <1>8 DEF Inv

LEMMA RefusedInv ==
    ASSUME Inv, NEW g \in Gates, GateRefused(g)
    PROVE  Inv'
<1> DEFINE n == [NoGate EXCEPT !.status = "released", !.decision = "deny"]
<1>1. /\ gates' = [gates EXCEPT ![g] = n] /\ DOMAIN gates = Gates
      /\ UNCHANGED <<graph, leases, drained>>
      /\ gates[g].status = "idle"
    BY DEF Inv, GateRefused, UpdateGate
<1>2. /\ n \in GateType
      /\ n.status = "released" /\ n.called = {} /\ n.decision = "deny"
      /\ \A k \in GateFrames : n.frame[k] = "none"
    BY NoGateOk DEF NoGate, GateOk, GateType
<1>3. GateOk(n)
    <2> HIDE DEF n
    <2>1. Chained(n) /\ ~FramesActive(n) /\ Over(n)
        BY <1>2 DEF Chained, FramesActive, Over
    <2> QED BY <1>2, <2>1 DEF GateOk
<1>4. \A h \in Gates : gates'[h] = IF h = g THEN n ELSE gates[h]
    BY <1>1
<1>5. \A h \in Gates : GateOk(gates'[h])
    BY <1>3, <1>4 DEF Inv
<1>6. \A r : Holders(r)' = Holders(r)
    <2> HIDE DEF n
    <2> QED BY <1>1, <1>2, <1>4 DEF Holders
<1>7. Leases'
    BY <1>1, <1>6 DEF Inv, Leases
<1> QED BY <1>1, <1>5, <1>7 DEF Inv

LEMMA SettlesInv ==
    ASSUME Inv, NEW g \in Gates, GateSettles(g)
    PROVE  Inv'
<1> DEFINE e == gates[g]
           n == [e EXCEPT !.status = "released"]
<1>1. /\ gates' = [gates EXCEPT ![g] = n] /\ DOMAIN gates = Gates
      /\ leases' = [leases EXCEPT ![e.rev] = @ - 1]
      /\ drained' = [drained EXCEPT ![e.rev] = IF leases[e.rev] = 1 /\ @ = "waiting"
                                               THEN "resolved" ELSE @]
      /\ UNCHANGED graph
      /\ e.status = "leased" /\ e.closed /\ ~FramesActive(e) /\ GateOk(e)
    BY DEF Inv, GateSettles
<1>2. /\ e \in GateType /\ n \in GateType /\ e.rev \in 0 .. MaxGraph
      /\ n.status = "released" /\ n.rev = e.rev /\ n.called = e.called /\ n.closed
      /\ n.decision = e.decision /\ n.frame = e.frame /\ n.raw = e.raw /\ n.denial = e.denial
    BY <1>1 DEF GateOk, GateType
<1>3. GateOk(n)
    <2> HIDE DEF n
    <2>1. Chained(n) /\ ~FramesActive(n) /\ Over(n)
        BY <1>1, <1>2 DEF GateOk, Chained, Allows, FramesActive, Over
    <2> QED BY <1>1, <1>2, <2>1 DEF GateOk, Allows
<1>4. \A h \in Gates : gates'[h] = IF h = g THEN n ELSE gates[h]
    BY <1>1
<1>5. \A h \in Gates : GateOk(gates'[h])
    BY <1>3, <1>4 DEF Inv
<1>q. PICK q \in 0 .. MaxGraph : q = e.rev
    BY <1>2
<1>6. /\ Holders(q)' = Holders(q) \ {g} /\ g \in Holders(q)
      /\ \A r \in 0 .. MaxGraph : r # q => Holders(r)' = Holders(r)
    <2> HIDE DEF n
    <2> QED BY <1>1, <1>2, <1>4, <1>q DEF Holders
<1>7. /\ Cardinality(Holders(q)') = Cardinality(Holders(q)) - 1
      /\ Cardinality(Holders(q)') \in Nat
    <2>1. IsFiniteSet(Holders(q)')
        BY <1>6, HoldersFinite, FS_RemoveElement
    <2> QED BY <1>6, <2>1, HoldersFinite, FS_RemoveElement, FS_CardinalityType
<1>8. Leases'
    <2>1. /\ leases \in [0 .. MaxGraph -> Nat] /\ graph \in 0 .. MaxGraph
          /\ \A r \in 0 .. MaxGraph : leases[r] = Cardinality(Holders(r))
          /\ \A r \in 0 .. MaxGraph : drained[r] # "none" => r < graph
          /\ \A r \in 0 .. MaxGraph : drained[r] = "resolved" => leases[r] = 0
          /\ DOMAIN drained = 0 .. MaxGraph
        BY DEF Inv, Leases
    <2>2. \A r \in 0 .. MaxGraph : leases'[r] = IF r = q THEN leases[r] - 1 ELSE leases[r]
        BY <1>1, <1>q, <2>1
    <2>3. \A r \in 0 .. MaxGraph : leases'[r] = Cardinality(Holders(r)')
        <3> SUFFICES ASSUME NEW r \in 0 .. MaxGraph PROVE leases'[r] = Cardinality(Holders(r)')
            OBVIOUS
        <3>1. CASE r = q
            BY <3>1, <1>7, <2>1, <2>2
        <3>2. CASE r # q
            <4>1. Holders(r)' = Holders(r)
                BY <3>2, <1>6
            <4> QED BY <3>2, <4>1, <2>1, <2>2
        <3> QED BY <3>1, <3>2
    <2>4. leases[q] - 1 \in Nat
        BY <1>7, <2>1
    <2>5. leases' \in [0 .. MaxGraph -> Nat]
        BY <1>1, <1>q, <2>1, <2>4
    <2>6. \A r \in 0 .. MaxGraph :
              drained'[r] = IF r = q /\ leases[q] = 1 /\ drained[q] = "waiting"
                            THEN "resolved" ELSE drained[r]
        BY <1>1, <1>q, <2>1
    <2>7. DOMAIN drained' = 0 .. MaxGraph
        BY <1>1, <2>1
    <2>8. \A r \in 0 .. MaxGraph : drained'[r] # "none" => r < graph
        BY <2>1, <2>6
    <2>9. \A r \in 0 .. MaxGraph : drained'[r] = "resolved" => leases'[r] = 0
        BY <2>1, <2>2, <2>4, <2>6
    <2> QED BY <1>1, <2>1, <2>3, <2>5, <2>7, <2>8, <2>9 DEF Leases
<1> QED BY <1>1, <1>5, <1>8 DEF Inv

LEMMA CloseInv ==
    ASSUME Inv, CloseGates
    PROVE  Inv'
<1> DEFINE closed(e) == [e EXCEPT !.aborted = TRUE]
<1>1. DOMAIN gates' = Gates /\ UNCHANGED <<graph, leases, drained>>
    BY DEF CloseGates
<1>2. ASSUME NEW h \in Gates
      PROVE  /\ GateOk(gates'[h])
             /\ gates'[h].status = gates[h].status /\ gates'[h].rev = gates[h].rev
    <2>1. GateOk(gates[h])
        BY DEF Inv
    <2>2. CASE gates'[h] = gates[h]
        BY <2>1, <2>2
    <2>3. CASE gates[h].decision = "none" /\ gates'[h] = Cancelled(gates[h])
        BY <2>1, <2>3, CancelledOk
    <2>4. CASE gates'[h] = closed(gates[h])
        <3> DEFINE n == closed(gates[h])
        <3>1. /\ n \in GateType
              /\ n.status = gates[h].status /\ n.called = gates[h].called
              /\ n.frame = gates[h].frame /\ n.raw = gates[h].raw /\ n.rev = gates[h].rev
              /\ n.closed = gates[h].closed /\ n.denial = gates[h].denial
              /\ n.decision = gates[h].decision
            BY <2>1 DEF GateOk, GateType
        <3>2. n.decision = "allow" => Allows(gates[h], 0)
            BY <2>1, <3>1, FramesExist DEF GateOk, Allows
        <3>3. GateOk(n)
            <4> HIDE DEF n
            <4> QED BY <2>1, <3>1, <3>2, ClosingOk
        <3> QED BY <2>4, <3>1, <3>3
    <2> QED BY <2>2, <2>3, <2>4 DEF CloseGates, GateInUse
<1>3. Leases'
    BY <1>1, <1>2, SameHolders DEF Inv
<1> QED BY <1>1, <1>2, <1>3 DEF Inv

LEMMA PublishInv ==
    ASSUME Inv, PublishGraph
    PROVE  Inv'
<1>1. \A r : Holders(r)' = Holders(r)
    BY DEF PublishGraph, Holders
<1>2. Leases'
    BY <1>1, GateAssumption DEF Inv, Leases, PublishGraph
<1> QED BY <1>2 DEF Inv, PublishGraph

LEMMA DrainInv ==
    ASSUME Inv, NEW r \in 0 .. MaxGraph, DrainGraph(r)
    PROVE  Inv'
<1>1. \A q : Holders(q)' = Holders(q)
    BY DEF DrainGraph, Holders
<1>2. Leases'
    BY <1>1 DEF Inv, Leases, DrainGraph
<1> QED BY <1>2 DEF Inv, DrainGraph

LEMMA StutterInv ==
    ASSUME Inv, UNCHANGED gateVars
    PROVE  Inv'
<1>1. \A q : Holders(q)' = Holders(q)
    BY DEF gateVars, Holders
<1> QED BY <1>1 DEF Inv, Leases, gateVars

LEMMA GateStepInv ==
    ASSUME Inv, NEW g \in Gates, GateStep(g)
    PROVE  Inv'
<1>1. CASE GateOpens(g)
    BY <1>1, OpensInv
<1>2. CASE GateRefused(g)
    BY <1>2, RefusedInv
<1>3. CASE Decide(g)
    BY <1>3, DecideOk, UpdatesInv
<1>4. CASE GateSettles(g)
    BY <1>4, SettlesInv
<1>5. CASE CancelGate(g)
    BY <1>5, CancelGateOk, UpdatesInv
<1>6. ASSUME NEW k \in GateFrames, FrameRuns(g, k) PROVE Inv'
    BY <1>6, FrameRunsOk, UpdatesInv
<1>7. ASSUME NEW k \in GateFrames, GateNext(g, k) PROVE Inv'
    BY <1>7, GateNextOk, UpdatesInv
<1>8. ASSUME NEW k \in GateFrames, FrameResumes(g, k) PROVE Inv'
    BY <1>8, FrameResumesOk, UpdatesInv
<1>9. ASSUME NEW k \in GateFrames, FrameJoins(g, k) PROVE Inv'
    BY <1>9, FrameJoinsOk, UpdatesInv
<1>10. ASSUME NEW k \in GateFrames, NEW decision \in {"allow", "deny"},
              HandlerReturns(g, k, decision)
       PROVE  Inv'
    BY <1>10, HandlerReturnsOk, UpdatesInv
<1> QED
    BY <1>1, <1>2, <1>3, <1>4, <1>5, <1>6, <1>7, <1>8, <1>9, <1>10 DEF GateStep

LEMMA MoveInv == Inv /\ [GateMove]_gateVars => Inv'
<1> SUFFICES ASSUME Inv, [GateMove]_gateVars PROVE Inv'
    OBVIOUS
<1>1. CASE \E g \in Gates : GateStep(g)
    BY <1>1, GateStepInv
<1>2. CASE \E r \in 0 .. MaxGraph : DrainGraph(r)
    BY <1>2, DrainInv
<1>3. CASE PublishGraph
    BY <1>3, PublishInv
<1>4. CASE CloseGates
    BY <1>4, CloseInv
<1>5. CASE GateRest \/ UNCHANGED gateVars
    BY <1>5, StutterInv DEF GateRest
<1> QED BY <1>1, <1>2, <1>3, <1>4, <1>5 DEF GateMove

(* What every gate and every graph satisfies at any time: the frames of a  *)
(* gate are a chain of next() calls, and the leases count the gates in use *)
(* (dispatchEngineGateV1 and the #inflight map of the registry).           *)
THEOREM GateInvariant == GateSpec => []Inv
<1>1. GateInit => Inv BY InitInv
<1>2. Inv /\ [GateMove]_gateVars => Inv' BY MoveInv
<1> QED BY <1>1, <1>2, PTL DEF GateSpec

(* No allow escapes a gate before every handler that was reached has       *)
(* allowed, and no graph is drained while a frame of it is left, for every *)
(* number of handlers, gates and graphs (engine-gate-dispatch.ts joins the *)
(* downstream frame whether or not its handler awaited next()).            *)
THEOREM GatesFailClosed == GateSpec => []GateFailsClosed
<1>1. Inv => GateFailsClosed
    <2> SUFFICES ASSUME Inv, NEW g \in Gates
                 PROVE  /\ gates[g].decision = "allow" =>
                              /\ gates[g].frame[0] = "done"
                              /\ \A k \in GateFrames :
                                    \/ gates[g].frame[k] = "none"
                                    \/ gates[g].frame[k] = "done" /\ gates[g].raw[k] = "allow"
                        /\ FramesActive(gates[g]) => drained[gates[g].rev] # "resolved"
        BY DEF GateFailsClosed
    <2>1. GateOk(gates[g])
        BY DEF Inv
    <2>2. ASSUME FramesActive(gates[g]) PROVE drained[gates[g].rev] # "resolved"
        <3>1. gates[g].status = "leased" /\ gates[g].rev \in 0 .. MaxGraph
            BY <2>1, <2>2 DEF GateOk, GateType
        <3>2. g \in Holders(gates[g].rev)
            BY <3>1 DEF Holders
        <3>3. Cardinality(Holders(gates[g].rev)) # 0
            BY <3>2, HoldersFinite, FS_EmptySet
        <3> QED BY <3>1, <3>3 DEF Inv, Leases
    <2> QED BY <2>1, <2>2 DEF GateOk, Allows
<1> QED BY <1>1, GateInvariant, PTL

=============================================================================
