-------------------------- MODULE EventLoop_proofs --------------------------
(***************************************************************************)
(* Proofs about EventLoop for every value of its constants.                *)
(***************************************************************************)
EXTENDS EventLoop, WellFoundedInduction, TLAPS

-----------------------------------------------------------------------------
(* The tasks that selection picks exist.                                   *)

(* A non-empty set of naturals has a least element. *)
LEMMA SmallestExists ==
    ASSUME NEW T \in SUBSET Nat, T # {}
    PROVE  \E m \in T : \A k \in T : m <= k
<1>. DEFINE less == {ss \in Nat \X Nat : ss[1] < ss[2]}
<1>1. IsWellFoundedOn(less, Nat)
  BY NatLessThanWellFounded DEF OpToRel
<1>2. PICK m \in T : \A k \in T : ~ (<<k, m>> \in less)
  <2>. HIDE DEF less
  <2>. QED BY <1>1, WFMin
<1>3. \A k \in T : ~(k < m)
  BY <1>2
<1>. QED BY <1>3

(* A non-empty bounded set of naturals has a greatest element. *)
LEMMA GreatestExists ==
    ASSUME NEW T \in SUBSET Nat, T # {}, NEW n \in Nat, \A k \in T : k < n
    PROVE  \E m \in T : \A k \in T : k <= m
<1>. DEFINE D == {n - k : k \in T}
<1>1. D \in SUBSET Nat /\ D # {}
  <2>1. \A k \in T : n - k \in Nat
    OBVIOUS
  <2>. QED BY <2>1
<1>2. PICK d \in D : \A e \in D : d <= e
  <2>. HIDE DEF D
  <2>. QED BY <1>1, SmallestExists
<1>3. PICK m \in T : d = n - m
  OBVIOUS
<1>4. \A k \in T : n - m <= n - k
  BY <1>2, <1>3
<1>. QED BY <1>4

(* takeReadyTask finds an oldest task in a non-empty queue. *)
LEMMA OldestIn ==
    ASSUME NEW S, S # {}, \A t \in S : t.id \in Nat
    PROVE  Oldest(S) \in S /\ \A u \in S : Oldest(S).id <= u.id
<1>. DEFINE T == {t.id : t \in S}
<1>1. T \in SUBSET Nat /\ T # {}
  OBVIOUS
<1>2. PICK m \in T : \A k \in T : m <= k
  <2>. HIDE DEF T
  <2>. QED BY <1>1, SmallestExists
<1>3. \E t \in S : \A u \in S : t.id <= u.id
  BY <1>2
<1>. QED BY <1>3 DEF Oldest

(* The cutoff of a check batch is the id of a waiting immediate. *)
LEMMA NewestIn ==
    ASSUME NEW S, S # {}, NEW n \in Nat, \A t \in S : t.id \in Nat /\ t.id < n
    PROVE  Newest(S) \in S /\ \A u \in S : u.id <= Newest(S).id
<1>. DEFINE T == {t.id : t \in S}
<1>1. T \in SUBSET Nat /\ T # {} /\ \A k \in T : k < n
  OBVIOUS
<1>2. PICK m \in T : \A k \in T : k <= m
  <2>. HIDE DEF T
  <2>. QED BY <1>1, GreatestExists
<1>3. \E t \in S : \A u \in S : u.id <= t.id
  BY <1>2
<1>. QED BY <1>3 DEF Newest

(* takeOrdinaryReadyTask finds a task no other task precedes. *)
LEMMA FirstIn ==
    ASSUME NEW S, S # {}, \A t \in S : t.at \in Nat /\ t.id \in Nat
    PROVE  First(S) \in S /\ \A u \in S : Earlier(First(S), u)
<1>. DEFINE A == {t.at : t \in S}
<1>1. A \in SUBSET Nat /\ A # {}
  OBVIOUS
<1>2. PICK a \in A : \A b \in A : a <= b
  <2>. HIDE DEF A
  <2>. QED BY <1>1, SmallestExists
<1>. DEFINE T == {t.id : t \in {u \in S : u.at = a}}
<1>3. T \in SUBSET Nat /\ T # {}
  BY <1>2
<1>4. PICK m \in T : \A k \in T : m <= k
  <2>. HIDE DEF T
  <2>. QED BY <1>3, SmallestExists
<1>5. PICK t \in S : t.at = a /\ t.id = m
  BY <1>4
<1>6. ASSUME NEW u \in S PROVE Earlier(t, u)
  <2>1. a <= u.at
    BY <1>2
  <2>2. u.at = a => m <= u.id
    BY <1>4
  <2>. QED BY <2>1, <2>2, <1>5 DEF Earlier
<1>. QED BY <1>5, <1>6 DEF First

-----------------------------------------------------------------------------
(* The wakeup createSnapshot computes.                                     *)

(* The timer table has an earliest deadline. *)
LEMMA TimersTyped ==
    ASSUME NEW w \in WorkType, w.timers # {}
    PROVE  /\ First(w.timers) \in w.timers
           /\ First(w.timers).at \in Nat
           /\ \A t \in w.timers : First(w.timers).at <= t.at
<1>1. \A t \in w.timers : t.at \in Nat /\ t.id \in Nat
  BY DEF WorkType
<1>2. First(w.timers) \in w.timers /\ \A u \in w.timers : Earlier(First(w.timers), u)
  BY <1>1, FirstIn
<1>. QED BY <1>1, <1>2 DEF Earlier

(* The wakeup of createSnapshot is typed, is never the undefined one, and  *)
(* serves the queues it is computed from.                                  *)
LEMMA NextWakeupCovers ==
    ASSUME NEW now \in Nat, NEW w \in WorkType
    PROVE  /\ NextWakeup(now, w) \in Wakeups
           /\ NextWakeup(now, w) # Unset
           /\ Covers(NextWakeup(now, w), w, now)
<1>. DEFINE tick == HasRunnableNextTick(w)
            alive == IsAlive(w)
            ready == HasReadyWork(w)
            a == NextWakeup(now, w)
<1>1. CASE ~alive \/ (~ready /\ w.timers = {})
  <2>1. a = NoWakeup
    BY <1>1 DEF NextWakeup
  <2>2. NoWakeup \in Wakeups /\ NoWakeup # Unset /\ NoWakeup.at = -1
    BY DEF NoWakeup, Unset, Wakeups
  <2>. QED BY <1>1, <2>1, <2>2 DEF Covers
<1>2. CASE alive /\ ready
  <2>1. a = [at |-> now, phase |-> IF tick THEN "next-tick" ELSE "event-loop"]
    BY <1>2 DEF NextWakeup
  <2>2. a \in Wakeups /\ a # Unset /\ a.at = now /\ (a.phase = "next-tick" <=> tick)
    BY <2>1 DEF Wakeups, Unset
  <2>. QED BY <1>2, <2>2 DEF Covers
<1>3. CASE alive /\ ~ready /\ w.timers # {}
  <2>. DEFINE due == First(w.timers).at
              at == IF due < now THEN now ELSE due
  <2>0. a = [at |-> at, phase |-> IF tick THEN "next-tick" ELSE "event-loop"]
    BY <1>3 DEF NextWakeup
  <2>1. /\ First(w.timers) \in w.timers
        /\ due \in Nat
        /\ \A t \in w.timers : due <= t.at /\ t.at \in Nat
    BY <1>3, TimersTyped DEF WorkType
  <2>2. at \in Nat /\ due <= at /\ (at = due \/ at = now)
    BY <2>1
  <2>3. a \in Wakeups /\ a # Unset /\ a.at = at
    BY <2>0, <2>2 DEF Wakeups, Unset
  <2>4. \A t \in w.timers : 0 <= a.at /\ (a.at <= t.at \/ a.at <= now)
    BY <2>1, <2>2, <2>3
  <2>5. \E t \in w.timers : t.at <= a.at
    BY <2>1, <2>2, <2>3
  <2>. HIDE DEF at, due
  <2>. QED BY <1>3, <2>3, <2>4, <2>5 DEF Covers
<1>. QED BY <1>1, <1>2, <1>3

-----------------------------------------------------------------------------
(* The inductive invariant.                                                *)

(* WakeupCoversWork holds only between turns: a turn consumes the host's   *)
(* wakeup and guest code arms a new one in its middle.  What survives the  *)
(* steps of a turn is that the loop never believes in a wakeup the host    *)
(* does not have.                                                          *)
WakeupInv ==
    ~disposed =>
        /\ scheduled \in {armed, Unset}
        /\ phase = "none" => Covers(armed, work, lastNow)

Inv ==
    /\ TypeOK
    /\ IndexAgreement
    /\ running < nextId
    /\ TerminatesOnce
    /\ WakeupInv

(* The turn variables of the next state: no other callback started *)
TurnTyped ==
    /\ phase' \in {"none", "task", "drain", "tick", "checkpoint", "finish"}
    /\ selectedTimer' \in Nat
    /\ callbacks' \in 0..MaxCallbacksPerTurn
    /\ running' \in {running, 0}

(* A terminated loop holds nothing, which is typed and well indexed. *)
LEMMA NoWorkTyped ==
    /\ NoWork \in WorkType
    /\ \A n : WellIndexed(NoWork, n)
    /\ NoWork.tasksById = {}
    /\ NoWakeup \in Wakeups
<1>1. NoWork \in WorkType
  BY DEF NoWork, WorkType, NoCutoff
<1>2. \A n : WellIndexed(NoWork, n)
  BY DEF NoWork, WellIndexed, Queued, Ids, Distinct, Apart
<1>. QED BY <1>1, <1>2 DEF NoWork, NoWakeup, Wakeups

(* Every step that ends in finalizeTermination keeps the invariant. *)
LEMMA FinalizeInv ==
    ASSUME Inv, FinalizeTermination, TurnTyped,
           clock' \in Nat, lastNow' \in Nat, nextId' \in {nextId, nextId + 1},
           disposed => UNCHANGED <<nextId>>
    PROVE  Inv' /\ disposed'
<1>0. /\ nextId \in Nat /\ running \in Nat /\ running < nextId
      /\ terminations \in Nat /\ notified \in [Observers -> Nat]
      /\ armed \in Wakeups /\ scheduled \in Wakeups /\ work \in WorkType
      /\ disposed \in BOOLEAN /\ observers \subseteq Observers
  BY DEF Inv, TypeOK
<1>1. nextId' \in Nat /\ running' \in Nat /\ running' < nextId'
  BY <1>0 DEF TurnTyped
<1>2. CASE disposed
  <2>1. work = NoWork /\ UNCHANGED <<work, scheduled, armed, disposed, observers, notified, terminations>>
    BY <1>2 DEF Inv, TerminatesOnce, FinalizeTermination, lifecycle
  <2>2. TypeOK'
    BY <1>0, <1>1, <2>1 DEF TypeOK, TurnTyped
  <2>3. IndexAgreement'
    BY <2>1, NoWorkTyped DEF IndexAgreement
  <2>4. TerminatesOnce'
    BY <2>1 DEF Inv, TerminatesOnce
  <2>5. WakeupInv' /\ disposed'
    BY <1>2, <2>1 DEF WakeupInv
  <2>. QED BY <1>1, <2>2, <2>3, <2>4, <2>5 DEF Inv
<1>3. CASE ~disposed
  <2>1. /\ disposed' = TRUE /\ work' = NoWork /\ scheduled' = NoWakeup
        /\ armed' \in {armed, NoWakeup}
        /\ notified' = [o \in Observers |-> notified[o] + IF o \in observers THEN 1 ELSE 0]
        /\ observers' = {} /\ terminations' = terminations + 1
    BY <1>3 DEF FinalizeTermination
  <2>2. terminations = 0 /\ \A o \in Observers : notified[o] = 0
    BY <1>0, <1>3 DEF Inv, TerminatesOnce
  <2>3. \A o \in Observers : notified[o] + (IF o \in observers THEN 1 ELSE 0) \in 0..1
    BY <2>2
  <2>4. notified' \in [Observers -> Nat] /\ \A o \in Observers : notified'[o] <= 1
    BY <2>1, <2>3
  <2>5. TypeOK'
    BY <1>0, <1>1, <2>1, <2>2, <2>4, NoWorkTyped DEF TypeOK, TurnTyped
  <2>6. IndexAgreement'
    BY <2>1, NoWorkTyped DEF IndexAgreement
  <2>7. TerminatesOnce'
    BY <2>1, <2>2, <2>4 DEF TerminatesOnce
  <2>8. WakeupInv' /\ disposed'
    BY <2>1 DEF WakeupInv
  <2>. QED BY <1>1, <2>5, <2>6, <2>7, <2>8 DEF Inv
<1>. QED BY <1>2, <1>3

(* readNow failing is a termination. *)
LEMMA ReadNowFailsInv ==
    ASSUME Inv, ReadNowFails, TurnTyped, UNCHANGED <<clock, nextId>>
    PROVE  Inv' /\ disposed'
<1>1. clock' \in Nat /\ lastNow' \in Nat
  BY DEF Inv, TypeOK, ReadNowFails
<1>. QED BY <1>1, FinalizeInv DEF ReadNowFails

(* A reconciled wakeup keeps the invariant for any well formed queues w:   *)
(* this is the one place where wakeups are armed.                          *)
LEMMA RequestWakeupInv ==
    ASSUME Inv, ~disposed, NEW w \in WorkType, RequestWakeup(w), TurnTyped,
           clock' = clock, nextId' \in {nextId, nextId + 1},
           WellIndexed(w, nextId'), running' \notin w.tasksById
    PROVE  Inv'
<1>0. /\ nextId \in Nat /\ running \in Nat /\ running < nextId
      /\ clock \in Nat /\ armed \in Wakeups
  BY DEF Inv, TypeOK
<1>1. nextId' \in Nat /\ running' \in Nat /\ running' < nextId'
  BY <1>0 DEF TurnTyped
<1>2. lastNow' = clock /\ lastNow' \in Nat
  BY <1>0 DEF RequestWakeup
<1>. DEFINE wakeup == NextWakeup(clock, w)
<1>3. /\ wakeup \in Wakeups /\ wakeup # Unset
      /\ Covers(wakeup, w, clock)
  BY <1>0, NextWakeupCovers
<1>4. CASE /\ work' = w
           /\ scheduled' = wakeup
           /\ armed' = (IF wakeup = scheduled THEN armed ELSE wakeup)
           /\ UNCHANGED lifecycle
  <2>1. armed' = wakeup
    BY <1>3, <1>4 DEF Inv, WakeupInv
  <2>2. UNCHANGED <<disposed, observers, notified, terminations>>
    BY <1>4 DEF lifecycle
  <2>. HIDE DEF wakeup
  <2>3. TypeOK'
    BY <1>0, <1>1, <1>2, <1>3, <1>4, <2>1, <2>2 DEF TypeOK, TurnTyped, Inv
  <2>4. IndexAgreement'
    BY <1>4 DEF IndexAgreement
  <2>5. TerminatesOnce'
    BY <2>2 DEF Inv, TerminatesOnce
  <2>6. WakeupInv'
    BY <1>2, <1>3, <1>4, <2>1 DEF WakeupInv
  <2>. QED BY <1>1, <2>3, <2>4, <2>5, <2>6 DEF Inv
<1>5. CASE FinalizeTermination
  BY <1>0, <1>2, <1>5, FinalizeInv
<1>. QED BY <1>4, <1>5 DEF RequestWakeup

(* Between turns, in a callback and in a checkpoint: an operation that     *)
(* admits the task nextId.                                                 *)
LEMMA AdmitInv ==
    ASSUME Inv, NEW w \in WorkType, Admit(w), WellIndexed(w, nextId + 1),
           w.tasksById \subseteq work.tasksById \cup {nextId}
    PROVE  Inv'
<1>1. ~disposed /\ UNCHANGED <<clock, phase, selectedTimer, callbacks, running>>
  BY DEF Admit, GuestRuns, turn
<1>2. TurnTyped
  BY <1>1 DEF TurnTyped, Inv, TypeOK
<1>3. CASE ReadNowFails /\ UNCHANGED nextId
  BY <1>1, <1>2, <1>3, ReadNowFailsInv
<1>4. CASE RequestWakeup(w) /\ nextId' = nextId + 1
  <2>1. running' \notin w.tasksById
    BY <1>1 DEF Inv, IndexAgreement, TypeOK
  <2>. QED BY <1>1, <1>2, <1>4, <2>1, RequestWakeupInv
<1>. QED BY <1>3, <1>4 DEF Admit

(* An operation that withdraws or changes work. *)
LEMMA ReconcileInv ==
    ASSUME Inv, NEW w \in WorkType, Reconcile(w), WellIndexed(w, nextId),
           w.tasksById \subseteq work.tasksById
    PROVE  Inv'
<1>1. ~disposed /\ UNCHANGED <<clock, nextId, phase, selectedTimer, callbacks, running>>
  BY DEF Reconcile, GuestRuns, turn
<1>2. TurnTyped
  BY <1>1 DEF TurnTyped, Inv, TypeOK
<1>3. running' \notin w.tasksById
  BY <1>1 DEF Inv, IndexAgreement
<1>4. CASE ReadNowFails
  BY <1>1, <1>2, <1>4, ReadNowFailsInv
<1>5. CASE RequestWakeup(w)
  BY <1>1, <1>2, <1>3, <1>5, RequestWakeupInv
<1>. QED BY <1>4, <1>5 DEF Reconcile

-----------------------------------------------------------------------------
(* What the operations do to the queues.                                   *)

(* What the invariant says of the queues *)
LEMMA InvFacts ==
    ASSUME Inv
    PROVE  /\ work \in WorkType /\ WellIndexed(work, nextId)
           /\ nextId \in Nat /\ 0 < nextId /\ clock \in Nat /\ lastNow \in Nat
           /\ \A t \in Queued(work) \cup work.timers : t.id \in Nat
           /\ \A t \in work.readyTasks \cup work.timers : t.at \in Nat
<1>1. work \in WorkType /\ nextId \in Nat /\ clock \in Nat /\ lastNow \in Nat
      /\ running \in Nat /\ running < nextId
  BY DEF Inv, TypeOK
<1>2. WellIndexed(work, nextId)
  BY DEF Inv, IndexAgreement
<1>. QED BY <1>1, <1>2 DEF WorkType, Queued

(* The record t is new in one of the queues of w, or in its timer table. *)
Gains(w, v, t) ==
    \/ /\ w.immediates = v.immediates \cup {t}
       /\ w.nextTicks = v.nextTicks /\ w.readyTasks = v.readyTasks
       /\ w.timers = v.timers /\ w.tasksById = v.tasksById \cup {t.id}
    \/ /\ w.nextTicks = v.nextTicks \cup {t}
       /\ w.immediates = v.immediates /\ w.readyTasks = v.readyTasks
       /\ w.timers = v.timers /\ w.tasksById = v.tasksById \cup {t.id}
    \/ /\ w.readyTasks = v.readyTasks \cup {t}
       /\ w.immediates = v.immediates /\ w.nextTicks = v.nextTicks
       /\ w.timers = v.timers /\ w.tasksById = v.tasksById \cup {t.id}
    \/ /\ w.timers = v.timers \cup {t}
       /\ w.immediates = v.immediates /\ w.nextTicks = v.nextTicks
       /\ w.readyTasks = v.readyTasks /\ w.tasksById = v.tasksById

(* An admission keeps the index: its id is above all others. *)
LEMMA AddedIndexed ==
    ASSUME NEW n \in Nat, 0 < n, NEW v, NEW w, NEW t, t.id = n,
           WellIndexed(v, n), \A u \in Queued(v) \cup v.timers : u.id \in Nat,
           Gains(w, v, t)
    PROVE  WellIndexed(w, n + 1)
<1>1. \/ Queued(w) = Queued(v) \cup {t} /\ w.timers = v.timers
      \/ Queued(w) = Queued(v) /\ w.timers = v.timers \cup {t}
  BY DEF Gains, Queued
<1>2. w.tasksById = Ids(Queued(w))
  <2>1. v.tasksById = Ids(Queued(v))
    BY DEF WellIndexed
  <2>2. \/ Queued(w) = Queued(v) \cup {t} /\ w.tasksById = v.tasksById \cup {t.id}
        \/ Queued(w) = Queued(v) /\ w.tasksById = v.tasksById
    BY DEF Gains, Queued
  <2>. QED BY <2>1, <2>2 DEF Ids
<1>3. \A u \in Queued(v) \cup v.timers : u.id # n
  BY DEF WellIndexed
<1>4. /\ Distinct(w.immediates) /\ Distinct(w.nextTicks)
      /\ Distinct(w.readyTasks) /\ Distinct(w.timers)
  BY <1>3 DEF WellIndexed, Distinct, Queued, Gains
<1>5. /\ Apart(w.immediates, w.nextTicks) /\ Apart(w.immediates, w.readyTasks)
      /\ Apart(w.nextTicks, w.readyTasks) /\ Apart(Queued(w), w.timers)
  BY <1>1, <1>3 DEF WellIndexed, Apart, Queued, Gains
<1>6. \A x \in Queued(w) \cup w.timers : 0 < x.id /\ x.id < n + 1
  BY <1>1 DEF WellIndexed
<1>. QED BY <1>2, <1>4, <1>5, <1>6 DEF WellIndexed

(* Tasks leave the queues and the index together. *)
LEMMA FewerIndexed ==
    ASSUME NEW n, NEW v, NEW w, WellIndexed(v, n),
           w.immediates \subseteq v.immediates, w.nextTicks \subseteq v.nextTicks,
           w.readyTasks \subseteq v.readyTasks, w.timers \subseteq v.timers,
           w.tasksById = Ids(Queued(w))
    PROVE  WellIndexed(w, n)
  BY DEF WellIndexed, Distinct, Apart, Queued

(* enqueueMacrotask, enqueueIoCallback and completeNativeRequest *)
LEMMA WithReadyTaskInv ==
    ASSUME Inv, NEW ref \in BOOLEAN, NEW io \in BOOLEAN,
           NEW request \in RequestIds \cup {NoRequest}
    PROVE  LET w == WithReadyTask(work, ref, io, request)
           IN /\ w \in WorkType
              /\ WellIndexed(w, nextId + 1)
              /\ w.tasksById = work.tasksById \cup {nextId}
<1>. DEFINE t == [id |-> nextId, at |-> clock, ref |-> ref, io |-> io, request |-> request]
            w == WithReadyTask(work, ref, io, request)
<1>1. t \in [id : Nat, at : Nat, ref : BOOLEAN, io : BOOLEAN,
             request : RequestIds \cup {NoRequest}]
  BY InvFacts
<1>2. w \in WorkType
  BY <1>1, InvFacts DEF WithReadyTask, WorkType
<1>3. Gains(w, work, t) /\ t.id = nextId /\ w.tasksById = work.tasksById \cup {nextId}
  BY InvFacts DEF WithReadyTask, WorkType, Gains
<1>4. WellIndexed(w, nextId + 1)
  <2>. HIDE DEF t, w
  <2>. QED BY <1>3, InvFacts, AddedIndexed
<1>. QED BY <1>2, <1>3, <1>4

(* Delays are rounded and clamped to a natural number, and the period of   *)
(* an interval is never zero.                                              *)
LEMMA DelayTyped ==
    ASSUME NEW v \in Nat, NEW minimum \in Nat, minimum <= MaxTimerDelay
    PROVE  NormalizeDelay(v, minimum) \in Nat /\ minimum <= NormalizeDelay(v, minimum)
<1>1. CeilMs(v) \in Int
  BY OptionAssumption DEF CeilMs
<1>. QED BY <1>1, OptionAssumption DEF NormalizeDelay

(* setTimer *)
LEMMA SetTimerInv ==
    ASSUME Inv, NEW d \in Nat, NEW every \in Nat, NEW ref \in BOOLEAN,
           SetTimer(d, every, ref)
    PROVE  Inv'
<1>. DEFINE t == [id |-> nextId, at |-> clock + NormalizeDelay(d, 0),
                  every |-> every, ref |-> ref]
            w == [work EXCEPT !.timers = @ \cup {t}]
<1>1. NormalizeDelay(d, 0) \in Nat
  BY DelayTyped, OptionAssumption
<1>2. t \in [id : Nat, at : Nat, every : Nat, ref : BOOLEAN] /\ t.id = nextId
  BY <1>1, InvFacts
<1>3. Admit(w)
  BY DEF SetTimer
<1>. HIDE DEF t
<1>4. w \in WorkType
  BY <1>2, InvFacts DEF WorkType
<1>5. Gains(w, work, t) /\ w.tasksById = work.tasksById
  BY InvFacts DEF WorkType, Gains
<1>. HIDE DEF w
<1>7. WellIndexed(w, nextId + 1)
  BY <1>2, <1>5, InvFacts, AddedIndexed
<1>. QED BY <1>3, <1>4, <1>5, <1>7, AdmitInv

(* Every enqueue of the guest keeps the invariant. *)
LEMMA EnqueueInv ==
    ASSUME Inv, EnqueueStep
    PROVE  Inv'
<1>. PICK ref \in Refs :
        \/ EnqueueMacrotask(ref)
        \/ EnqueueIoCallback(ref)
        \/ EnqueueImmediate(ref)
        \/ EnqueueNextTick(ref)
        \/ \E d \in Delays : SetTimeout(d, ref) \/ SetInterval(d, ref)
  BY DEF EnqueueStep
<1>0. ref \in BOOLEAN
  BY InputAssumption
<1>1. CASE EnqueueMacrotask(ref)
  BY <1>0, <1>1, WithReadyTaskInv, AdmitInv DEF EnqueueMacrotask
<1>2. CASE EnqueueIoCallback(ref)
  BY <1>0, <1>2, WithReadyTaskInv, AdmitInv DEF EnqueueIoCallback
<1>. DEFINE t == [id |-> nextId, ref |-> ref]
<1>t. t \in [id : Nat, ref : BOOLEAN] /\ t.id = nextId
  BY <1>0, InvFacts
<1>3. CASE EnqueueImmediate(ref)
  <2>. DEFINE w == [work EXCEPT !.immediates = @ \cup {t}, !.tasksById = @ \cup {nextId}]
  <2>0. Admit(w)
    BY <1>3 DEF EnqueueImmediate
  <2>. HIDE DEF t
  <2>1. w \in WorkType
    BY <1>t, InvFacts DEF WorkType
  <2>2. Gains(w, work, t) /\ w.tasksById = work.tasksById \cup {nextId}
    BY <1>t, InvFacts DEF WorkType, Gains
  <2>. HIDE DEF w
  <2>5. WellIndexed(w, nextId + 1)
    BY <1>t, <2>2, InvFacts, AddedIndexed
  <2>. QED BY <2>0, <2>1, <2>2, <2>5, AdmitInv
<1>4. CASE EnqueueNextTick(ref)
  <2>. DEFINE w == [work EXCEPT !.nextTicks = @ \cup {t}, !.tasksById = @ \cup {nextId}]
  <2>0. Admit(w)
    BY <1>4 DEF EnqueueNextTick
  <2>. HIDE DEF t
  <2>1. w \in WorkType
    BY <1>t, InvFacts DEF WorkType
  <2>2. Gains(w, work, t) /\ w.tasksById = work.tasksById \cup {nextId}
    BY <1>t, InvFacts DEF WorkType, Gains
  <2>. HIDE DEF w
  <2>5. WellIndexed(w, nextId + 1)
    BY <1>t, <2>2, InvFacts, AddedIndexed
  <2>. QED BY <2>0, <2>1, <2>2, <2>5, AdmitInv
<1>5. ASSUME NEW d \in Delays, SetTimeout(d, ref) \/ SetInterval(d, ref)
      PROVE  Inv'
  <2>1. d \in Nat
    BY InputAssumption
  <2>2. NormalizeDelay(d, MinimumInterval) \in Nat
    BY <2>1, DelayTyped, OptionAssumption
  <2>3. \E every \in Nat : SetTimer(d, every, ref)
    BY <1>5, <2>2 DEF SetTimeout, SetInterval
  <2>. QED BY <1>0, <2>1, <2>3, SetTimerInv
<1>. QED BY <1>1, <1>2, <1>3, <1>4, <1>5

(* cancelTask and clearTimer *)
LEMMA WithdrawInv ==
    ASSUME Inv, WithdrawStep
    PROVE  Inv'
<1>. PICK id \in 1..MaxId : CancelTask(id) \/ ClearTimer(id)
  BY DEF WithdrawStep
<1>1. CASE CancelTask(id)
  <2>. DEFINE Without(S) == {t \in S : t.id # id}
              w == [work EXCEPT !.tasksById = @ \ {id}, !.immediates = Without(@),
                                !.readyTasks = Without(@), !.nextTicks = Without(@)]
  <2>0. Reconcile(w)
    BY <1>1 DEF CancelTask
  <2>1. w \in WorkType
    BY InvFacts DEF WorkType
  <2>2. /\ w.immediates = Without(work.immediates)
        /\ w.nextTicks = Without(work.nextTicks)
        /\ w.readyTasks = Without(work.readyTasks)
        /\ w.timers = work.timers
        /\ w.tasksById = work.tasksById \ {id}
    BY InvFacts DEF WorkType
  <2>. HIDE DEF w
  <2>3. Queued(w) = Without(Queued(work))
    BY <2>2 DEF Queued
  <2>4. w.tasksById = Ids(Queued(w))
    BY <2>2, <2>3, InvFacts DEF WellIndexed, Ids
  <2>5. WellIndexed(w, nextId)
    BY <2>2, <2>3, <2>4, InvFacts, FewerIndexed
  <2>. QED BY <2>0, <2>1, <2>2, <2>5, ReconcileInv
<1>2. CASE ClearTimer(id)
  <2>. DEFINE w == [work EXCEPT !.timers = {t \in @ : t.id # id}]
  <2>0. Reconcile(w)
    BY <1>2 DEF ClearTimer
  <2>1. w \in WorkType
    BY InvFacts DEF WorkType
  <2>2. /\ w.timers = {t \in work.timers : t.id # id}
        /\ w.immediates = work.immediates /\ w.nextTicks = work.nextTicks
        /\ w.readyTasks = work.readyTasks /\ w.tasksById = work.tasksById
    BY InvFacts DEF WorkType
  <2>. HIDE DEF w
  <2>3. Queued(w) = Queued(work)
    BY <2>2 DEF Queued
  <2>4. WellIndexed(w, nextId)
    BY <2>2, <2>3, InvFacts, FewerIndexed DEF WellIndexed
  <2>. QED BY <2>0, <2>1, <2>2, <2>4, ReconcileInv
<1>. QED BY <1>1, <1>2

(* A change of the flag of one record keeps the type and the ids. *)
LEMMA SetRefFacts ==
    ASSUME NEW S, NEW id, NEW ref, NEW F, S \subseteq F,
           \A t \in F : [t EXCEPT !.ref = ref] \in F /\ [t EXCEPT !.ref = ref].id = t.id
    PROVE  /\ SetRef(S, id, ref) \subseteq F
           /\ Ids(SetRef(S, id, ref)) = Ids(S)
           /\ \A u \in SetRef(S, id, ref) : \E t \in S :
                 t.id = u.id /\ u = (IF t.id = id THEN [t EXCEPT !.ref = ref] ELSE t)
<1>1. \A u \in SetRef(S, id, ref) : \E t \in S :
          t.id = u.id /\ u = (IF t.id = id THEN [t EXCEPT !.ref = ref] ELSE t)
  BY DEF SetRef
<1>2. SetRef(S, id, ref) \subseteq F
  BY DEF SetRef
<1>3. Ids(SetRef(S, id, ref)) \subseteq Ids(S)
  BY <1>1 DEF Ids
<1>4. ASSUME NEW t \in S PROVE t.id \in Ids(SetRef(S, id, ref))
  <2>. DEFINE u == IF t.id = id THEN [t EXCEPT !.ref = ref] ELSE t
  <2>1. u \in SetRef(S, id, ref) /\ u.id = t.id
    BY DEF SetRef
  <2>. QED BY <2>1 DEF Ids
<1>. QED BY <1>1, <1>2, <1>3, <1>4 DEF Ids

(* Only the native request table changes. *)
LEMMA RequestsInv ==
    ASSUME Inv, NEW r \in RequestIds, NEW ref,
           Reconcile([work EXCEPT !.nativeRequests[r] = RefName(ref)])
    PROVE  Inv'
<1>. DEFINE w == [work EXCEPT !.nativeRequests[r] = RefName(ref)]
<1>1. RefName(ref) \in {"ref", "unref"}
  BY DEF RefName
<1>2. w \in WorkType
  BY <1>1, InvFacts DEF WorkType
<1>3. /\ w.immediates = work.immediates /\ w.nextTicks = work.nextTicks
      /\ w.readyTasks = work.readyTasks /\ w.timers = work.timers
      /\ w.tasksById = work.tasksById
  BY InvFacts DEF WorkType
<1>4. WellIndexed(w, nextId)
  <2>. HIDE DEF w
  <2>1. Queued(w) = Queued(work)
    BY <1>3 DEF Queued
  <2>. QED BY <1>3, <2>1, InvFacts DEF WellIndexed
<1>. HIDE DEF w
<1>5. Reconcile(w)
  BY DEF w
<1>. QED BY <1>2, <1>3, <1>4, <1>5, ReconcileInv

(* refTimer, unrefTimer, refImmediate, unrefImmediate, refNativeRequest    *)
(* and unrefNativeRequest                                                  *)
LEMMA RefInv ==
    ASSUME Inv, RefStep
    PROVE  Inv'
<1>. PICK ref \in Refs :
        \/ \E id \in 1..MaxId : SetTimerRef(id, ref) \/ SetImmediateRef(id, ref)
        \/ \E r \in RequestIds : SetNativeRequestRef(r, ref)
  BY DEF RefStep
<1>0. ref \in BOOLEAN
  BY InputAssumption
<1>1. ASSUME NEW id, SetTimerRef(id, ref) PROVE Inv'
  <2>. DEFINE F == [id : Nat, at : Nat, every : Nat, ref : BOOLEAN]
              S == SetRef(work.timers, id, ref)
              w == [work EXCEPT !.timers = S]
  <2>0. Reconcile(w)
    BY <1>1 DEF SetTimerRef
  <2>1. work.timers \subseteq F
    BY InvFacts DEF WorkType
  <2>2. \A t \in F : [t EXCEPT !.ref = ref] \in F /\ [t EXCEPT !.ref = ref].id = t.id
    BY <1>0
  <2>3. /\ S \subseteq F /\ Ids(S) = Ids(work.timers)
        /\ \A u \in S : \E t \in work.timers :
              t.id = u.id /\ u = (IF t.id = id THEN [t EXCEPT !.ref = ref] ELSE t)
    <3>. HIDE DEF F
    <3>. QED BY <2>1, <2>2, SetRefFacts
  <2>. HIDE DEF S
  <2>4. w \in WorkType
    BY <2>3, InvFacts DEF WorkType
  <2>5. /\ w.timers = S
        /\ w.immediates = work.immediates /\ w.nextTicks = work.nextTicks
        /\ w.readyTasks = work.readyTasks /\ w.tasksById = work.tasksById
    BY InvFacts DEF WorkType
  <2>. HIDE DEF w
  <2>6. Distinct(S)
    BY <2>3, InvFacts DEF WellIndexed, Distinct
  <2>7. Apart(Queued(work), S) /\ \A u \in S : 0 < u.id /\ u.id < nextId
    BY <2>3, InvFacts DEF WellIndexed, Apart
  <2>8. Queued(w) = Queued(work)
    BY <2>5 DEF Queued
  <2>9. WellIndexed(w, nextId)
    BY <2>5, <2>6, <2>7, <2>8, InvFacts DEF WellIndexed
  <2>. QED BY <2>0, <2>4, <2>5, <2>9, ReconcileInv
<1>2. ASSUME NEW id, SetImmediateRef(id, ref) PROVE Inv'
  <2>. DEFINE F == [id : Nat, ref : BOOLEAN]
              S == SetRef(work.immediates, id, ref)
              w == [work EXCEPT !.immediates = S]
  <2>0. Reconcile(w)
    BY <1>2 DEF SetImmediateRef
  <2>1. work.immediates \subseteq F
    BY InvFacts DEF WorkType
  <2>2. \A t \in F : [t EXCEPT !.ref = ref] \in F /\ [t EXCEPT !.ref = ref].id = t.id
    BY <1>0
  <2>3. /\ S \subseteq F /\ Ids(S) = Ids(work.immediates)
        /\ \A u \in S : \E t \in work.immediates :
              t.id = u.id /\ u = (IF t.id = id THEN [t EXCEPT !.ref = ref] ELSE t)
    <3>. HIDE DEF F
    <3>. QED BY <2>1, <2>2, SetRefFacts
  <2>. HIDE DEF S
  <2>4. w \in WorkType
    BY <2>3, InvFacts DEF WorkType
  <2>5. /\ w.immediates = S
        /\ w.timers = work.timers /\ w.nextTicks = work.nextTicks
        /\ w.readyTasks = work.readyTasks /\ w.tasksById = work.tasksById
    BY InvFacts DEF WorkType
  <2>. HIDE DEF w
  <2>6. Distinct(S)
    BY <2>3, InvFacts DEF WellIndexed, Distinct
  <2>7. /\ Apart(S, work.nextTicks) /\ Apart(S, work.readyTasks) /\ Apart(S, work.timers)
        /\ \A u \in S : 0 < u.id /\ u.id < nextId
    BY <2>3, InvFacts DEF WellIndexed, Apart, Queued
  <2>8. w.tasksById = Ids(Queued(w))
    BY <2>3, <2>5, InvFacts DEF WellIndexed, Ids, Queued
  <2>9. Apart(Queued(w), w.timers) /\ \A u \in Queued(w) \cup w.timers : 0 < u.id /\ u.id < nextId
    BY <2>5, <2>7, InvFacts DEF WellIndexed, Apart, Queued
  <2>10. WellIndexed(w, nextId)
    BY <2>5, <2>6, <2>7, <2>8, <2>9, InvFacts DEF WellIndexed
  <2>. QED BY <2>0, <2>4, <2>5, <2>10, ReconcileInv
<1>3. ASSUME NEW r \in RequestIds, SetNativeRequestRef(r, ref) PROVE Inv'
  BY <1>3, RequestsInv DEF SetNativeRequestRef
<1>. QED BY <1>1, <1>2, <1>3

(* registerNativeRequest, completeNativeRequest and cancelNativeRequest *)
LEMMA NativeInv ==
    ASSUME Inv, NativeStep
    PROVE  Inv'
<1>. PICK r \in RequestIds :
        \/ \E ref \in Refs : RegisterNativeRequest(r, ref) \/ CompleteNativeRequest(r, ref)
        \/ CancelNativeRequest(r)
  BY DEF NativeStep
<1>1. ASSUME NEW ref \in Refs, RegisterNativeRequest(r, ref) PROVE Inv'
  BY <1>1, RequestsInv DEF RegisterNativeRequest
<1>2. ASSUME NEW ref \in Refs, CompleteNativeRequest(r, ref) PROVE Inv'
  <2>. DEFINE v == WithReadyTask(work, ref, FALSE, r)
              w == [v EXCEPT !.nativeRequests[r] = "absent"]
  <2>0. Admit(w)
    BY <1>2 DEF CompleteNativeRequest
  <2>1. ref \in BOOLEAN
    BY InputAssumption
  <2>2. v \in WorkType /\ WellIndexed(v, nextId + 1)
        /\ v.tasksById = work.tasksById \cup {nextId}
    BY <2>1, WithReadyTaskInv
  <2>. HIDE DEF v
  <2>3. w \in WorkType
    BY <2>2 DEF WorkType
  <2>4. /\ w.immediates = v.immediates /\ w.nextTicks = v.nextTicks
        /\ w.readyTasks = v.readyTasks /\ w.timers = v.timers
        /\ w.tasksById = v.tasksById
    BY <2>2 DEF WorkType
  <2>. HIDE DEF w
  <2>5. Queued(w) = Queued(v)
    BY <2>4 DEF Queued
  <2>6. WellIndexed(w, nextId + 1)
    BY <2>2, <2>4, <2>5 DEF WellIndexed
  <2>. QED BY <2>0, <2>2, <2>3, <2>4, <2>6, AdmitInv
<1>3. CASE CancelNativeRequest(r)
  <2>. DEFINE dropped == {t \in Active(work, work.readyTasks) : t.request = r}
              w == [work EXCEPT !.nativeRequests[r] = "absent",
                                !.readyTasks = @ \ dropped,
                                !.tasksById = @ \ Ids(dropped)]
  <2>0. Reconcile(w)
    BY <1>3 DEF CancelNativeRequest
  <2>1. dropped \subseteq work.readyTasks
    BY DEF Active
  <2>. HIDE DEF dropped
  <2>2. w \in WorkType
    BY <2>1, InvFacts DEF WorkType
  <2>3. /\ w.immediates = work.immediates /\ w.nextTicks = work.nextTicks
        /\ w.readyTasks = work.readyTasks \ dropped /\ w.timers = work.timers
        /\ w.tasksById = work.tasksById \ Ids(dropped)
    BY InvFacts DEF WorkType
  <2>. HIDE DEF w
  <2>4. Queued(w) = Queued(work) \ dropped
    <3>1. ASSUME NEW t \in dropped PROVE t \notin work.immediates /\ t \notin work.nextTicks
      BY <2>1, InvFacts DEF WellIndexed, Apart
    <3>. QED BY <2>3, <3>1 DEF Queued
  <2>5. \A t \in Queued(work), u \in dropped : t.id = u.id => t = u
    BY <2>1, InvFacts DEF WellIndexed, Apart, Distinct, Queued
  <2>6. w.tasksById = Ids(Queued(w))
    BY <2>3, <2>4, <2>5, InvFacts DEF WellIndexed, Ids
  <2>7. WellIndexed(w, nextId)
    BY <2>3, <2>6, InvFacts, FewerIndexed
  <2>. QED BY <2>0, <2>2, <2>3, <2>7, ReconcileInv
<1>. QED BY <1>1, <1>2, <1>3

(* An interval's next deadline is a natural number. *)
LEMMA AdvancedTyped ==
    ASSUME NEW t \in [id : Nat, at : Nat, every : Nat, ref : BOOLEAN], NEW now \in Nat
    PROVE  /\ Advanced(t, now) \in [id : Nat, at : Nat, every : Nat, ref : BOOLEAN]
           /\ Advanced(t, now).id = t.id
<1>1. CASE t.every = 0 \/ t.at > now
  BY <1>1 DEF Advanced
<1>2. CASE t.every > 0 /\ t.at <= now
  <2>. DEFINE q == (now - t.at) \div t.every
              at == t.at + (q + 1) * t.every
  <2>1. q \in Nat
    BY <1>2
  <2>2. at \in Nat
    <3>. HIDE DEF q
    <3>. QED BY <2>1
  <2>3. Advanced(t, now) = [t EXCEPT !.at = at]
    BY <1>2 DEF Advanced
  <2>. HIDE DEF at
  <2>. QED BY <2>2, <2>3
<1>. QED BY <1>1, <1>2

(* advanceIntervalDeadline changes a deadline and nothing else. *)
LEMMA AdvanceFacts ==
    ASSUME Inv, NEW id, NEW now \in Nat
    PROVE  LET w == AdvanceIntervalDeadline(work, id, now)
           IN w \in WorkType /\ WellIndexed(w, nextId) /\ w.tasksById = work.tasksById
<1>. DEFINE F == [id : Nat, at : Nat, every : Nat, ref : BOOLEAN]
            G(t) == IF t.id = id THEN Advanced(t, now) ELSE t
            S == {G(t) : t \in work.timers}
            w == AdvanceIntervalDeadline(work, id, now)
<1>1. \A t \in work.timers : G(t) \in F /\ G(t).id = t.id
  <2>1. \A t \in work.timers : t \in F
    BY InvFacts DEF WorkType
  <2>. QED BY <2>1, AdvancedTyped
<1>2. w = [work EXCEPT !.timers = S]
  BY DEF AdvanceIntervalDeadline
<1>. HIDE DEF G, w
<1>3. S \subseteq F /\ \A u \in S : \E t \in work.timers : u = G(t) /\ u.id = t.id
  BY <1>1
<1>. HIDE DEF S
<1>4. w \in WorkType
  BY <1>2, <1>3, InvFacts DEF WorkType
<1>5. /\ w.timers = S
      /\ w.immediates = work.immediates /\ w.nextTicks = work.nextTicks
      /\ w.readyTasks = work.readyTasks /\ w.tasksById = work.tasksById
  BY <1>2, InvFacts DEF WorkType
<1>6. Distinct(S)
  BY <1>3, InvFacts DEF WellIndexed, Distinct
<1>7. Apart(Queued(work), S) /\ \A u \in S : 0 < u.id /\ u.id < nextId
  BY <1>3, InvFacts DEF WellIndexed, Apart
<1>8. Queued(w) = Queued(work)
  BY <1>5 DEF Queued
<1>9. WellIndexed(w, nextId)
  BY <1>5, <1>6, <1>7, <1>8, InvFacts DEF WellIndexed
<1>. QED BY <1>4, <1>5, <1>9 DEF w

(* A wakeup serves the queues no less when the clock is read again. *)
LEMMA CoversLater ==
    ASSUME Inv, NEW now \in Nat, lastNow <= now, Covers(armed, work, lastNow)
    PROVE  Covers(armed, work, now)
<1>1. (\A t \in work.timers : t.at \in Nat) /\ lastNow \in Nat
  BY InvFacts DEF WorkType
<1>2. armed.at \in Int
  BY DEF Inv, TypeOK, Wakeups
<1>. QED BY <1>1, <1>2 DEF Covers

(* getCurrentTime, getSnapshot, observers and shutdown *)
LEMMA LifecycleInv ==
    ASSUME Inv, LifecycleStep
    PROVE  Inv'
<1>1. CASE ReadClock
  <2>0. UNCHANGED <<clock, nextId, phase, selectedTimer, callbacks, running>> /\ ~disposed
    BY <1>1 DEF ReadClock, turn, GuestRuns
  <2>1. CASE ReadNowFails
    <3>1. TurnTyped
      BY <2>0 DEF TurnTyped, Inv, TypeOK
    <3>. QED BY <2>0, <2>1, <3>1, ReadNowFailsInv
  <2>2. CASE /\ ClockOk
             /\ lastNow' = clock
             /\ UNCHANGED <<work, scheduled, armed, lifecycle>>
    <3>0. UNCHANGED <<work, scheduled, armed, disposed, observers, notified, terminations>>
      BY <2>2 DEF lifecycle
    <3>1. lastNow <= lastNow' /\ lastNow \in Nat /\ lastNow' \in Nat
      BY <2>2, InvFacts DEF ClockOk
    <3>2. TypeOK'
      BY <2>0, <3>0, <3>1 DEF Inv, TypeOK
    <3>3. IndexAgreement' /\ TerminatesOnce' /\ running' < nextId'
      BY <2>0, <3>0 DEF Inv, IndexAgreement, TerminatesOnce
    <3>4. WakeupInv'
      BY <2>0, <3>0, <3>1, CoversLater DEF Inv, WakeupInv
    <3>. QED BY <3>2, <3>3, <3>4 DEF Inv
  <2>. QED BY <1>1, <2>1, <2>2 DEF ReadClock
<1>2. ASSUME NEW o \in Observers, AddLifecycleObserver(o) \/ DetachLifecycleObserver(o)
      PROVE  Inv'
  <2>1. /\ ~disposed
        /\ UNCHANGED <<clock, armed, lastNow, nextId, work, scheduled, phase, selectedTimer,
                       callbacks, running, disposed, notified, terminations>>
        /\ observers' \in {observers \cup {o}, observers \ {o}}
    BY <1>2 DEF AddLifecycleObserver, DetachLifecycleObserver, GuestRuns, turn
  <2>2. TypeOK'
    BY <2>1 DEF Inv, TypeOK
  <2>3. IndexAgreement' /\ running' < nextId' /\ WakeupInv'
    BY <2>1 DEF Inv, IndexAgreement, WakeupInv
  <2>4. TerminatesOnce'
    BY <2>1 DEF Inv, TerminatesOnce
  <2>. QED BY <2>2, <2>3, <2>4 DEF Inv
<1>3. CASE Shutdown
  <2>1. UNCHANGED <<clock, lastNow, nextId, phase, selectedTimer, callbacks, running>>
    BY <1>3 DEF Shutdown, turn
  <2>2. TurnTyped /\ clock' \in Nat /\ lastNow' \in Nat
    BY <2>1 DEF TurnTyped, Inv, TypeOK
  <2>. QED BY <1>3, <2>1, <2>2, FinalizeInv DEF Shutdown
<1>. QED BY <1>1, <1>2, <1>3 DEF LifecycleStep

-----------------------------------------------------------------------------
(* The turn.                                                               *)

(* A step inside a turn of an active loop: the wakeup may be out of date,  *)
(* the queues stay well formed and a callback that starts has left them.   *)
LEMMA InTurnInv ==
    ASSUME Inv, ~disposed, UNCHANGED lifecycle, UNCHANGED <<clock, nextId>>,
           work' \in WorkType, WellIndexed(work', nextId), lastNow' \in Nat,
           phase' \in {"task", "drain", "tick", "checkpoint", "finish"},
           selectedTimer' \in Nat, callbacks' \in 0..MaxCallbacksPerTurn,
           running' \in Nat, running' < nextId, running' \notin work'.tasksById,
           armed' \in Wakeups, scheduled' \in {armed', Unset}
    PROVE  Inv'
<1>0. UNCHANGED <<disposed, observers, notified, terminations>>
  BY DEF lifecycle
<1>1. Unset \in Wakeups
  BY DEF Unset, Wakeups
<1>2. TypeOK'
  BY <1>0, <1>1 DEF Inv, TypeOK
<1>3. IndexAgreement'
  BY DEF IndexAgreement
<1>4. TerminatesOnce'
  BY <1>0 DEF Inv, TerminatesOnce
<1>5. WakeupInv'
  BY DEF WakeupInv
<1>. QED BY <1>2, <1>3, <1>4, <1>5 DEF Inv

(* The end of a turn of a disposed loop *)
LEMMA DisposedInv ==
    ASSUME Inv, disposed, UNCHANGED <<clock, armed, lastNow, nextId, work, scheduled, lifecycle>>,
           NoTurn
    PROVE  Inv'
<1>0. UNCHANGED <<disposed, observers, notified, terminations>>
  BY DEF lifecycle
<1>1. TypeOK'
  BY <1>0, OptionAssumption DEF Inv, TypeOK, NoTurn
<1>2. work = NoWork
  BY DEF Inv, TerminatesOnce
<1>3. IndexAgreement' /\ running' < nextId'
  BY <1>2, NoWorkTyped, InvFacts DEF IndexAgreement, NoTurn
<1>4. TerminatesOnce' /\ WakeupInv'
  BY <1>0 DEF Inv, TerminatesOnce, WakeupInv
<1>. QED BY <1>1, <1>3, <1>4 DEF Inv

LEMMA NoTurnTyped == NoTurn => TurnTyped
  BY OptionAssumption DEF NoTurn, TurnTyped

(* No task has the id 0. *)
LEMMA ZeroNotQueued ==
    ASSUME NEW w \in WorkType, NEW n \in Nat, WellIndexed(w, n)
    PROVE  0 \notin w.tasksById
  BY DEF WellIndexed, Ids

(* The oldest tick leaves the queue and the index. *)
LEMMA TakeNextTickInv ==
    ASSUME Inv, ~disposed, HasRunnableNextTick(work),
           callbacks < MaxCallbacksPerTurn, TakeNextTick(callbacks + 1),
           UNCHANGED <<clock, lastNow, nextId>>
    PROVE  Inv'
<1>. DEFINE t == Oldest(Active(work, work.nextTicks))
            w == [work EXCEPT !.nextTicks = {u \in @ : u.id > t.id}, !.tasksById = @ \ {t.id}]
<1>1. t \in Active(work, work.nextTicks) /\ \A u \in Active(work, work.nextTicks) : t.id <= u.id
  <2>1. \A u \in Active(work, work.nextTicks) : u.id \in Nat
    BY InvFacts DEF Active, Queued
  <2>. QED BY <2>1, OldestIn DEF HasRunnableNextTick
<1>2. /\ work' = w /\ callbacks' = callbacks + 1 /\ phase' = "tick" /\ running' = t.id
      /\ UNCHANGED <<armed, scheduled, lifecycle, selectedTimer>>
  BY DEF TakeNextTick
<1>. HIDE DEF t
<1>3. w \in WorkType
  BY InvFacts DEF WorkType
<1>4. /\ w.nextTicks = {u \in work.nextTicks : u.id > t.id} /\ w.tasksById = work.tasksById \ {t.id}
      /\ w.immediates = work.immediates /\ w.readyTasks = work.readyTasks
      /\ w.timers = work.timers
  BY InvFacts DEF WorkType
<1>. HIDE DEF w
<1>5. t \in work.nextTicks /\ \A u \in work.nextTicks : t.id <= u.id
  BY <1>1, InvFacts DEF Active, WellIndexed, Ids, Queued
<1>6. t.id \in Nat /\ 0 < t.id /\ t.id < nextId
  BY <1>5, InvFacts DEF WellIndexed, Queued
<1>7. \A u \in work.nextTicks : u = t \/ u.id > t.id
  BY <1>5, <1>6, InvFacts DEF WellIndexed, Distinct, Queued
<1>8. \A u \in work.immediates \cup work.readyTasks : u.id # t.id
  BY <1>5, InvFacts DEF WellIndexed, Apart
<1>9. w.tasksById = Ids(Queued(w))
  BY <1>4, <1>5, <1>6, <1>7, <1>8, InvFacts DEF WellIndexed, Ids, Queued
<1>10. WellIndexed(w, nextId)
  BY <1>4, <1>9, InvFacts, FewerIndexed
<1>11. scheduled' \in {armed', Unset}
  BY <1>2 DEF Inv, WakeupInv
<1>12. running' \notin w.tasksById
  BY <1>2, <1>4
<1>13. callbacks' \in 0..MaxCallbacksPerTurn /\ selectedTimer' \in Nat /\ lastNow' \in Nat
       /\ armed' \in Wakeups
  BY <1>2, OptionAssumption DEF Inv, TypeOK
<1>. QED BY <1>2, <1>3, <1>6, <1>10, <1>11, <1>12, <1>13, InTurnInv

(* A tick returns; it may have disposed the loop. *)
LEMMA EndTickInv ==
    ASSUME Inv, EndTick
    PROVE  Inv'
<1>0. /\ UNCHANGED <<clock, armed, lastNow, nextId, work, scheduled, lifecycle, selectedTimer,
                     callbacks, disposed, observers, notified, terminations>>
      /\ phase' = "drain" /\ running' = 0
  BY DEF EndTick, Drain, lifecycle
<1>1. TypeOK' /\ running' < nextId'
  BY <1>0, InvFacts DEF Inv, TypeOK
<1>2. IndexAgreement'
  BY <1>0, InvFacts, ZeroNotQueued DEF Inv, IndexAgreement
<1>3. TerminatesOnce' /\ WakeupInv'
  BY <1>0 DEF Inv, TerminatesOnce, WakeupInv
<1>. QED BY <1>1, <1>2, <1>3 DEF Inv

(* Every step of a turn keeps the invariant. *)
LEMMA TurnInv ==
    ASSUME Inv, TurnStep
    PROVE  Inv'
<1>0. /\ lastNow \in Nat /\ armed \in Wakeups /\ callbacks \in 0..MaxCallbacksPerTurn
      /\ selectedTimer \in Nat /\ clock \in Nat /\ 0 < nextId
      /\ 0 \notin work.tasksById
  BY InvFacts, ZeroNotQueued DEF Inv, TypeOK
<1>1. CASE EndTask
  <2>1. CASE /\ disposed
             /\ NoTurn
             /\ UNCHANGED <<armed, lastNow, work, scheduled, lifecycle>>
    BY <1>1, <2>1, DisposedInv DEF EndTask
  <2>2. CASE /\ ~disposed /\ selectedTimer = 0
             /\ Drain
             /\ UNCHANGED <<armed, lastNow, work, scheduled, lifecycle,
                            selectedTimer, callbacks>>
    BY <1>0, <1>1, <2>2, InvFacts, InTurnInv DEF EndTask, Drain, Inv, WakeupInv
  <2>3. CASE /\ ~disposed /\ selectedTimer # 0
             /\ ReadNowFails /\ NoTurn
    BY <1>1, <2>3, ReadNowFailsInv, NoTurnTyped DEF EndTask
  <2>4. CASE /\ ~disposed /\ selectedTimer # 0
             /\ ClockOk
             /\ lastNow' = clock
             /\ work' = AdvanceIntervalDeadline(work, selectedTimer, clock)
             /\ Drain
             /\ UNCHANGED <<armed, scheduled, lifecycle, selectedTimer, callbacks>>
    <3>1. work' \in WorkType /\ WellIndexed(work', nextId) /\ work'.tasksById = work.tasksById
      BY <1>0, <2>4, AdvanceFacts
    <3>2. scheduled' \in {armed', Unset}
      BY <2>4 DEF Inv, WakeupInv
    <3>. QED BY <1>0, <1>1, <2>4, <3>1, <3>2, InvFacts, InTurnInv DEF EndTask, Drain
  <2>. QED BY <1>1, <2>1, <2>2, <2>3, <2>4 DEF EndTask
<1>2. CASE DrainNextTick
  <2>1. CASE TurnFails
    BY <1>0, <1>2, <2>1, FinalizeInv, NoTurnTyped DEF DrainNextTick, TurnFails
  <2>2. CASE callbacks < MaxCallbacksPerTurn /\ TakeNextTick(callbacks + 1)
    BY <1>2, <2>2, TakeNextTickInv DEF DrainNextTick
  <2>. QED BY <1>2, <2>1, <2>2 DEF DrainNextTick
<1>3. CASE EndTick
  BY <1>0, <1>3, EndTickInv
<1>4. CASE CallbackThrows
  <2>1. CASE disposed
    BY <1>4, <2>1, DisposedInv DEF CallbackThrows
  <2>2. CASE ~disposed
    BY <1>0, <1>4, <2>2, FinalizeInv, NoTurnTyped DEF CallbackThrows, TurnFails
  <2>. QED BY <2>1, <2>2
<1>5. CASE DrainDone
  <2>1. CASE disposed
    BY <1>5, <2>1, DisposedInv DEF DrainDone
  <2>2. CASE ~disposed
    <3>. DEFINE w == [work EXCEPT !.nextTicks = {}]
    <3>1. w \in WorkType
      BY InvFacts DEF WorkType
    <3>2. /\ w.immediates = work.immediates /\ w.readyTasks = work.readyTasks
          /\ w.timers = work.timers /\ w.nextTicks = {} /\ w.tasksById = work.tasksById
      BY InvFacts DEF WorkType
    <3>3. work' = w /\ work.nextTicks = {}
      <4>1. work.nextTicks = {}
        BY <1>5, <2>2, InvFacts DEF DrainDone, HasRunnableNextTick, Active, WellIndexed, Ids, Queued
      <4>. QED BY <1>5, <2>2, <4>1 DEF DrainDone
    <3>. HIDE DEF w
    <3>4. Queued(w) = Queued(work)
      BY <3>2, <3>3 DEF Queued
    <3>5. WellIndexed(w, nextId)
      BY <3>2, <3>3, <3>4, InvFacts DEF WellIndexed
    <3>6. scheduled' \in {armed', Unset} /\ running' \notin work'.tasksById /\ running' \in Nat
          /\ running' < nextId
      BY <1>5, <2>2, <3>2, <3>3 DEF DrainDone, Inv, WakeupInv, IndexAgreement, TypeOK
    <3>. QED BY <1>0, <1>5, <2>2, <3>1, <3>3, <3>5, <3>6, InTurnInv DEF DrainDone
  <2>. QED BY <2>1, <2>2
<1>6. CASE CheckpointThrows
  BY <1>0, <1>6, FinalizeInv, NoTurnTyped DEF CheckpointThrows, TurnFails
<1>7. CASE FinishTurn
  <2>1. CASE disposed
    BY <1>7, <2>1, DisposedInv DEF FinishTurn
  <2>2. CASE ~disposed /\ ReadNowFails
    BY <1>7, <2>2, ReadNowFailsInv, NoTurnTyped DEF FinishTurn
  <2>3. CASE ~disposed /\ RequestWakeup(AdvanceIntervalDeadline(work, selectedTimer, clock))
    <3>. DEFINE w == AdvanceIntervalDeadline(work, selectedTimer, clock)
    <3>1. w \in WorkType /\ WellIndexed(w, nextId) /\ w.tasksById = work.tasksById
      BY <1>0, AdvanceFacts
    <3>. HIDE DEF w
    <3>2. RequestWakeup(w)
      BY <2>3 DEF w
    <3>3. running' \notin w.tasksById /\ TurnTyped /\ UNCHANGED <<clock, nextId>>
      BY <1>0, <1>7, <3>1, NoTurnTyped DEF FinishTurn, NoTurn
    <3>. QED BY <2>3, <3>1, <3>2, <3>3, RequestWakeupInv
  <2>. QED BY <1>7, <2>1, <2>2, <2>3 DEF FinishTurn
<1>. QED BY <1>1, <1>2, <1>3, <1>4, <1>5, <1>6, <1>7 DEF TurnStep

-----------------------------------------------------------------------------
(* The host.                                                               *)

(* The queues after one task was taken from them, with new cutoffs *)
Takes(w, t, id) ==
    /\ w \in WorkType
    /\ WellIndexed(w, nextId)
    /\ t.id = id /\ id \in Nat /\ 0 < id /\ id < nextId
    /\ id \notin w.tasksById

(* An immediate leaves the array and the index. *)
LEMMA TakeImmediateFacts ==
    ASSUME Inv, NEW t \in work.immediates, NEW c \in Nat \cup {NoCutoff},
           NEW d \in Nat \cup {NoCutoff},
           NEW w, w = [TakeImmediate(work, t) EXCEPT !.immediateCutoff = c, !.ioCutoff = d]
    PROVE  Takes(w, t, t.id)
<1>1. /\ w.immediates = work.immediates \ {t} /\ w.nextTicks = work.nextTicks
      /\ w.readyTasks = work.readyTasks /\ w.timers = work.timers
      /\ w.tasksById = work.tasksById \ {t.id}
  BY InvFacts DEF WorkType, TakeImmediate
<1>2. w \in WorkType
  BY InvFacts DEF WorkType, TakeImmediate
<1>3. t.id \in Nat /\ 0 < t.id /\ t.id < nextId
  BY InvFacts DEF WellIndexed, Queued
<1>4. \A u \in Queued(work) : u = t \/ u.id # t.id
  BY InvFacts DEF WellIndexed, Distinct, Apart, Queued
<1>5. t \notin work.nextTicks /\ t \notin work.readyTasks
  BY InvFacts DEF WellIndexed, Apart
<1>6. w.tasksById = Ids(Queued(w))
  BY <1>1, <1>4, <1>5, InvFacts DEF WellIndexed, Ids, Queued
<1>7. WellIndexed(w, nextId)
  BY <1>1, <1>6, InvFacts, FewerIndexed
<1>. QED BY <1>1, <1>2, <1>3, <1>7 DEF Takes

(* A ready task leaves the array and the index. *)
LEMMA TakeReadyFacts ==
    ASSUME Inv, NEW t \in work.readyTasks, NEW c \in Nat \cup {NoCutoff},
           NEW d \in Nat \cup {NoCutoff},
           NEW w, w = [TakeReady(work, t) EXCEPT !.immediateCutoff = c, !.ioCutoff = d]
    PROVE  Takes(w, t, t.id)
<1>1. /\ w.immediates = work.immediates /\ w.nextTicks = work.nextTicks
      /\ w.readyTasks = work.readyTasks \ {t} /\ w.timers = work.timers
      /\ w.tasksById = work.tasksById \ {t.id}
  BY InvFacts DEF WorkType, TakeReady
<1>2. w \in WorkType
  BY InvFacts DEF WorkType, TakeReady
<1>3. t.id \in Nat /\ 0 < t.id /\ t.id < nextId
  BY InvFacts DEF WellIndexed, Queued
<1>4. \A u \in Queued(work) : u = t \/ u.id # t.id
  BY InvFacts DEF WellIndexed, Distinct, Apart, Queued
<1>5. t \notin work.nextTicks /\ t \notin work.immediates
  BY InvFacts DEF WellIndexed, Apart
<1>6. w.tasksById = Ids(Queued(w))
  BY <1>1, <1>4, <1>5, InvFacts DEF WellIndexed, Ids, Queued
<1>7. WellIndexed(w, nextId)
  BY <1>1, <1>6, InvFacts, FewerIndexed
<1>. QED BY <1>1, <1>2, <1>3, <1>7 DEF Takes

(* A timer is not indexed; a one-shot timer leaves the table. *)
LEMMA TakeTimerFacts ==
    ASSUME Inv, NEW t \in work.timers,
           NEW w, w = [work EXCEPT !.timers = IF t.every = 0 THEN @ \ {t} ELSE @,
                                   !.immediateCutoff = NoCutoff, !.ioCutoff = NoCutoff]
    PROVE  Takes(w, t, t.id)
<1>1. /\ w.immediates = work.immediates /\ w.nextTicks = work.nextTicks
      /\ w.readyTasks = work.readyTasks /\ w.timers \subseteq work.timers
      /\ w.tasksById = work.tasksById
  BY InvFacts DEF WorkType
<1>2. w \in WorkType
  BY InvFacts DEF WorkType, NoCutoff
<1>3. t.id \in Nat /\ 0 < t.id /\ t.id < nextId
  BY InvFacts DEF WellIndexed
<1>4. t.id \notin work.tasksById
  BY InvFacts DEF WellIndexed, Apart, Ids
<1>5. Queued(w) = Queued(work)
  BY <1>1 DEF Queued
<1>6. w.tasksById = Ids(Queued(w))
  BY <1>1, <1>5, InvFacts DEF WellIndexed
<1>7. WellIndexed(w, nextId)
  BY <1>1, <1>6, InvFacts, FewerIndexed
<1>. QED BY <1>1, <1>2, <1>3, <1>4, <1>7 DEF Takes

(* What takeReadyTask does to the queues, whichever task it picks *)
LEMMA TakeReadyTaskFacts ==
    ASSUME Inv, TakeReadyTask
    PROVE  /\ work' \in WorkType /\ WellIndexed(work', nextId)
           /\ phase' \in {"task", "finish"}
           /\ selectedTimer' \in Nat /\ callbacks' \in 0..MaxCallbacksPerTurn
           /\ running' \in Nat /\ running' < nextId /\ running' \notin work'.tasksById
<1>0. /\ work.immediateCutoff \in Nat \cup {NoCutoff} /\ work.ioCutoff \in Nat \cup {NoCutoff}
      /\ nextId - 1 \in Nat
  BY InvFacts DEF WorkType
<1>1. ASSUME NEW t, NEW timer \in Nat, NEW w, Takes(w, t, t.id), Execute(t.id, timer, w)
      PROVE  /\ work' \in WorkType /\ WellIndexed(work', nextId) /\ phase' = "task"
             /\ selectedTimer' \in Nat /\ callbacks' \in 0..MaxCallbacksPerTurn
             /\ running' \in Nat /\ running' < nextId /\ running' \notin work'.tasksById
  BY <1>1, OptionAssumption DEF Takes, Execute
<1>2. CASE ContinueCheck
  <2>. DEFINE t == Oldest(ImmediateBatch(work))
              w == [TakeImmediate(work, t) EXCEPT !.immediateCutoff = work.immediateCutoff,
                                                  !.ioCutoff = work.ioCutoff]
  <2>1. t \in work.immediates
    <3>1. \A u \in ImmediateBatch(work) : u \in work.immediates /\ u.id \in Nat
      BY InvFacts DEF ImmediateBatch, Queued
    <3>2. ImmediateBatch(work) # {}
      BY <1>2 DEF ContinueCheck, InCheck
    <3>. QED BY <3>1, <3>2, OldestIn
  <2>2. w = TakeImmediate(work, t)
    BY InvFacts DEF TakeImmediate, WorkType
  <2>3. Execute(t.id, 0, TakeImmediate(work, t))
    BY <1>2 DEF ContinueCheck
  <2>. HIDE DEF t
  <2>4. Takes(w, t, t.id)
    BY <1>0, <2>1, TakeImmediateFacts
  <2>. HIDE DEF w
  <2>. QED BY <1>1, <2>2, <2>3, <2>4
<1>3. CASE ContinuePoll
  <2>. DEFINE t == Oldest(IoBatch(work))
              v == [TakeReady(work, t) EXCEPT !.immediateCutoff = NoCutoff]
              w == [TakeReady(work, t) EXCEPT !.immediateCutoff = NoCutoff,
                                              !.ioCutoff = work.ioCutoff]
  <2>1. t \in work.readyTasks
    <3>1. \A u \in IoBatch(work) : u \in work.readyTasks /\ u.id \in Nat
      BY InvFacts DEF IoBatch, Active, Queued
    <3>2. IoBatch(work) # {}
      BY <1>3 DEF ContinuePoll, InPoll
    <3>. QED BY <3>1, <3>2, OldestIn
  <2>2. w = v
    BY InvFacts DEF TakeReady, WorkType
  <2>3. Execute(t.id, 0, v)
    BY <1>3 DEF ContinuePoll
  <2>. HIDE DEF t
  <2>4. Takes(w, t, t.id)
    BY <1>0, <2>1, TakeReadyFacts
  <2>. HIDE DEF w, v
  <2>. QED BY <1>1, <2>2, <2>3, <2>4
<1>4. CASE BeginCheck
  <2>. DEFINE t == Oldest(work.immediates)
              n == Newest(work.immediates)
              w == [TakeImmediate(work, t) EXCEPT !.immediateCutoff = n.id,
                                                  !.ioCutoff = NoCutoff]
  <2>0. work.immediates # {} /\ \A u \in work.immediates : u.id \in Nat /\ u.id < nextId
    BY <1>4, InvFacts DEF BeginCheck, CheckDue, WellIndexed, Queued
  <2>1. t \in work.immediates
    BY <2>0, OldestIn
  <2>2. n.id \in Nat
    BY <2>0, InvFacts, NewestIn
  <2>3. Execute(t.id, 0, w)
    BY <1>4 DEF BeginCheck
  <2>. HIDE DEF t, n
  <2>4. Takes(w, t, t.id)
    BY <2>1, <2>2, TakeImmediateFacts
  <2>. HIDE DEF w
  <2>. QED BY <1>1, <2>3, <2>4
<1>5. CASE RunReadyTask
  <2>. DEFINE t == First(Eligible(work, clock))
              d == IF t.io THEN nextId - 1 ELSE NoCutoff
              w == [TakeReady(work, t) EXCEPT !.immediateCutoff = NoCutoff, !.ioCutoff = d]
  <2>1. t \in work.readyTasks /\ Execute(t.id, 0, w)
    BY <1>5 DEF RunReadyTask
  <2>. HIDE DEF t
  <2>2. d \in Nat \cup {NoCutoff}
    BY <1>0
  <2>. HIDE DEF d
  <2>4. Takes(w, t, t.id)
    BY <2>1, <2>2, TakeReadyFacts
  <2>. HIDE DEF w
  <2>. QED BY <1>1, <2>1, <2>4
<1>6. CASE RunTimer
  <2>. DEFINE t == First(Eligible(work, clock))
              w == [work EXCEPT !.timers = IF t.every = 0 THEN @ \ {t} ELSE @,
                                !.immediateCutoff = NoCutoff, !.ioCutoff = NoCutoff]
  <2>1. t \in work.timers /\ Execute(t.id, t.id, w)
    BY <1>6 DEF RunTimer
  <2>. HIDE DEF t
  <2>4. Takes(w, t, t.id)
    BY <2>1, TakeTimerFacts
  <2>5. t.id \in Nat
    BY <2>4 DEF Takes
  <2>. HIDE DEF w
  <2>. QED BY <1>1, <2>1, <2>4, <2>5
<1>7. CASE NothingReady
  <2>. DEFINE w == [work EXCEPT !.immediateCutoff = NoCutoff, !.ioCutoff = NoCutoff]
  <2>1. w \in WorkType
    BY InvFacts DEF WorkType
  <2>2. /\ w.immediates = work.immediates /\ w.nextTicks = work.nextTicks
        /\ w.readyTasks = work.readyTasks /\ w.timers = work.timers
        /\ w.tasksById = work.tasksById
    BY InvFacts DEF WorkType
  <2>3. work' = w /\ phase' = "finish" /\ callbacks' = 0 /\ selectedTimer' = 0 /\ running' = 0
    BY <1>7 DEF NothingReady
  <2>. HIDE DEF w
  <2>4. Queued(w) = Queued(work)
    BY <2>2 DEF Queued
  <2>5. WellIndexed(w, nextId)
    BY <2>2, <2>4, InvFacts DEF WellIndexed
  <2>. QED BY <2>1, <2>2, <2>3, <2>5, InvFacts, ZeroNotQueued, OptionAssumption
<1>. QED BY <1>2, <1>3, <1>4, <1>5, <1>6, <1>7 DEF TakeReadyTask

(* A turn that starts with ticks takes no other task. *)
LEMMA EnterDrainFacts ==
    ASSUME Inv, EnterDrain
    PROVE  /\ work' \in WorkType /\ WellIndexed(work', nextId) /\ phase' = "drain"
           /\ selectedTimer' \in Nat /\ callbacks' \in 0..MaxCallbacksPerTurn
           /\ running' \in Nat /\ running' < nextId /\ running' \notin work'.tasksById
  BY InvFacts, ZeroNotQueued, OptionAssumption DEF EnterDrain, Drain

(* Every step of the host keeps the invariant. *)
LEMMA HostInv ==
    ASSUME Inv, HostStep
    PROVE  Inv'
<1>0. /\ lastNow \in Nat /\ armed \in Wakeups /\ clock \in Nat /\ NoWakeup \in Wakeups
  BY NoWorkTyped DEF Inv, TypeOK
<1>1. CASE RunTurn
  <2>1. CASE ReadNowFails /\ NoTurn
    BY <1>1, <2>1, ReadNowFailsInv, NoTurnTyped DEF RunTurn
  <2>2. CASE /\ ClockOk
             /\ lastNow' = clock
             /\ scheduled' = Unset
             /\ armed' = (IF WakeupDue THEN NoWakeup ELSE armed)
             /\ IF HasRunnableNextTick(work) THEN EnterDrain ELSE TakeReadyTask
             /\ UNCHANGED lifecycle
    <3>1. /\ work' \in WorkType /\ WellIndexed(work', nextId)
          /\ phase' \in {"task", "drain", "finish"}
          /\ selectedTimer' \in Nat /\ callbacks' \in 0..MaxCallbacksPerTurn
          /\ running' \in Nat /\ running' < nextId /\ running' \notin work'.tasksById
      BY <2>2, TakeReadyTaskFacts, EnterDrainFacts
    <3>2. /\ ~disposed /\ UNCHANGED <<clock, nextId>> /\ lastNow' \in Nat
          /\ armed' \in Wakeups /\ scheduled' \in {armed', Unset}
      BY <1>0, <1>1, <2>2 DEF RunTurn
    <3>. QED BY <2>2, <3>1, <3>2, InTurnInv
  <2>. QED BY <1>1, <2>1, <2>2 DEF RunTurn
<1>2. CASE RunNextTickCheckpoint
  <2>1. CASE ReadNowFails /\ NoTurn
    BY <1>2, <2>1, ReadNowFailsInv, NoTurnTyped DEF RunNextTickCheckpoint
  <2>2. CASE /\ lastNow' = clock /\ scheduled' = Unset /\ EnterDrain
             /\ UNCHANGED <<armed, lifecycle>>
    <3>1. /\ ~disposed /\ UNCHANGED <<clock, nextId>> /\ lastNow' \in Nat
          /\ armed' \in Wakeups /\ scheduled' \in {armed', Unset} /\ UNCHANGED lifecycle
      BY <1>0, <1>2, <2>2 DEF RunNextTickCheckpoint
    <3>. QED BY <2>2, <3>1, EnterDrainFacts, InTurnInv
  <2>3. CASE /\ ClockOk /\ lastNow' = clock
             /\ UNCHANGED <<scheduled, work, turn>>
             /\ UNCHANGED <<armed, lifecycle>>
    <3>0. /\ UNCHANGED <<clock, nextId, work, scheduled, armed, phase, selectedTimer, callbacks,
                         running, disposed, observers, notified, terminations>>
          /\ lastNow <= lastNow' /\ lastNow' \in Nat
      BY <1>0, <1>2, <2>3 DEF lifecycle, turn, ClockOk, RunNextTickCheckpoint
    <3>1. TypeOK'
      BY <3>0 DEF Inv, TypeOK
    <3>2. IndexAgreement' /\ TerminatesOnce' /\ running' < nextId'
      BY <3>0 DEF Inv, IndexAgreement, TerminatesOnce
    <3>3. WakeupInv'
      BY <3>0, CoversLater DEF Inv, WakeupInv
    <3>. QED BY <3>1, <3>2, <3>3 DEF Inv
  <2>. QED BY <1>2, <2>1, <2>2, <2>3 DEF RunNextTickCheckpoint
<1>3. CASE LateWakeup
  <2>1. /\ UNCHANGED <<clock, lastNow, nextId, work, scheduled, phase, selectedTimer, callbacks,
                       running, disposed, observers, notified, terminations>>
        /\ disposed /\ armed' = NoWakeup
    BY <1>3 DEF LateWakeup, turn, lifecycle
  <2>2. TypeOK'
    BY <1>0, <2>1 DEF Inv, TypeOK
  <2>. QED BY <2>1, <2>2 DEF Inv, IndexAgreement, TerminatesOnce, WakeupInv
<1>4. CASE ClockAdvances \/ ClockRegresses
  <2>1. /\ UNCHANGED <<armed, lastNow, nextId, work, scheduled, phase, selectedTimer, callbacks,
                       running, disposed, observers, notified, terminations>>
        /\ clock' \in Nat
    BY <1>0, <1>4 DEF ClockAdvances, ClockRegresses, turn, lifecycle
  <2>2. TypeOK'
    BY <2>1 DEF Inv, TypeOK
  <2>. QED BY <2>1, <2>2 DEF Inv, IndexAgreement, TerminatesOnce, WakeupInv
<1>. QED BY <1>1, <1>2, <1>3, <1>4 DEF HostStep

-----------------------------------------------------------------------------
(* The theorems.                                                           *)

(* The initial state of the loop satisfies the invariant. *)
LEMMA InitInv == Init => Inv
<1>. SUFFICES ASSUME Init PROVE Inv
  OBVIOUS
<1>1. Unset \in Wakeups /\ NoWakeup \in Wakeups
  BY DEF Unset, NoWakeup, Wakeups
<1>2. TypeOK
  <2>1. clock \in Nat /\ lastNow \in Nat /\ nextId \in Nat
    BY BoundAssumption DEF Init
  <2>2. armed \in Wakeups /\ scheduled \in Wakeups
    BY <1>1 DEF Init
  <2>3. /\ phase \in {"none", "task", "drain", "tick", "checkpoint", "finish"}
        /\ selectedTimer \in Nat /\ running \in Nat
        /\ callbacks \in 0..MaxCallbacksPerTurn
    BY OptionAssumption DEF Init
  <2>4. disposed \in BOOLEAN /\ observers \subseteq Observers
    BY DEF Init
  <2>5. notified \in [Observers -> Nat] /\ terminations \in Nat
    BY DEF Init
  <2>6. work \in WorkType
    BY NoWorkTyped DEF Init
  <2>. QED BY <2>1, <2>2, <2>3, <2>4, <2>5, <2>6 DEF TypeOK
<1>3. IndexAgreement /\ running < nextId
  BY NoWorkTyped DEF Init, IndexAgreement
<1>4. TerminatesOnce
  BY DEF Init, TerminatesOnce
<1>5. Covers(armed, work, lastNow)
  <2>1. ~IsAlive(NoWork)
    BY DEF IsAlive, NoWork, Active
  <2>2. NoWakeup.at = -1
    BY DEF NoWakeup
  <2>. QED BY <2>1, <2>2 DEF Init, Covers
<1>. QED BY <1>2, <1>3, <1>4, <1>5 DEF Init, Inv, WakeupInv

(* Every step keeps the invariant. *)
LEMMA NextInv == Inv /\ [Next]_vars => Inv'
<1>. SUFFICES ASSUME Inv, [Next]_vars PROVE Inv'
  OBVIOUS
<1>1. CASE EnqueueStep
  BY <1>1, EnqueueInv
<1>2. CASE WithdrawStep
  BY <1>2, WithdrawInv
<1>3. CASE RefStep
  BY <1>3, RefInv
<1>4. CASE NativeStep
  BY <1>4, NativeInv
<1>5. CASE LifecycleStep
  BY <1>5, LifecycleInv
<1>6. CASE TurnStep
  BY <1>6, TurnInv
<1>7. CASE HostStep
  BY <1>7, HostInv
<1>8. CASE UNCHANGED vars
  BY <1>8 DEF vars, turn, lifecycle, Inv, TypeOK, IndexAgreement, TerminatesOnce, WakeupInv
<1>. QED BY <1>1, <1>2, <1>3, <1>4, <1>5, <1>6, <1>7, <1>8 DEF Next

(* The invariant holds in every state of the loop. *)
THEOREM Invariance == Spec => []Inv
  BY InitInv, NextInv, PTL DEF Spec

(* The state of the loop is well typed, and a turn never runs more than    *)
(* maxCallbacksPerTurn callbacks.                                          *)
THEOREM TypeCorrectness == Spec => []TypeOK
<1>1. Inv => TypeOK
  BY DEF Inv
<1>. QED BY <1>1, Invariance, PTL

(* tasksById and the queues agree after every operation, callback, rolled  *)
(* back admission and termination.                                         *)
THEOREM IndexCorrectness == Spec => []IndexAgreement
<1>1. Inv => IndexAgreement
  BY DEF Inv
<1>. QED BY <1>1, Invariance, PTL

(* Whatever the guest, the clock and the port do, a loop at rest has armed *)
(* the wakeup its work needs.                                              *)
THEOREM NoLostWakeup == Spec => []WakeupCoversWork
<1>1. Inv => WakeupCoversWork
  BY DEF Inv, WakeupInv, WakeupCoversWork
<1>. QED BY <1>1, Invariance, PTL

(* The loop terminates at most once and tells each observer at most once. *)
THEOREM TerminationOnce == Spec => []TerminatesOnce
<1>1. Inv => TerminatesOnce
  BY DEF Inv
<1>. QED BY <1>1, Invariance, PTL
-----------------------------------------------------------------------------
(* What a step does to the tasks.                                          *)

(* A callback runs only while a task or a tick does. *)
RunningInTurn == phase \notin {"task", "tick"} => running = 0

(* The ready tasks are in the order of their ids also by the clock they    *)
(* were admitted at, which readNow does not let go back.                   *)
ReadyOrder ==
    /\ \A t \in work.readyTasks : t.at <= lastNow
    /\ \A t, u \in work.readyTasks : u.id < t.id => u.at <= t.at

Inv2 == Inv /\ RunningInTurn /\ ReadyOrder

(* pending and periodic of the ledger *)
Waits(w) == w.tasksById \cup Ids(w.timers)
Repeats(w) == Ids({t \in w.timers : t.every > 0})

(* No task of w is new: it was in v, but for its flag, and for the deadline *)
(* of an interval that was moved on.                                       *)
Moved(t, u) == lastNow' = clock /\ u.at = Advanced(t, clock).at

Keeps(w, v) ==
    /\ w.tasksById \subseteq v.tasksById
    /\ \A u \in w.timers : \E t \in v.timers :
          u.id = t.id /\ u.every = t.every /\ (u.at = t.at \/ Moved(t, u))
    /\ \A u \in w.readyTasks : u \in v.readyTasks

(* A step terminates the loop, admits a task, changes or withdraws some, or *)
(* starts a callback.                                                      *)
StepEnds ==
    /\ FinalizeTermination
    /\ running' \in {running, 0}
    /\ nextId' \in {nextId, nextId + 1}
    /\ disposed => nextId' = nextId

StepAdmits ==
    /\ ~disposed /\ ~disposed'
    /\ nextId' = nextId + 1 /\ running' = running
    /\ lastNow' = clock /\ ClockOk
    /\ \E t : /\ t.id = nextId /\ Gains(work', work, t)
              /\ t \in work'.readyTasks => t.at = clock

StepChanges ==
    /\ disposed' = disposed /\ nextId' = nextId
    /\ lastNow' \in Nat /\ lastNow <= lastNow'
    /\ Keeps(work', work)
    /\ \/ ~disposed /\ running' = running
       \/ /\ running' \in {running, 0}
          /\ Waits(work') = Waits(work) /\ Repeats(work') = Repeats(work)

StepStarts ==
    /\ ~disposed /\ disposed' = disposed /\ nextId' = nextId
    /\ lastNow' \in Nat /\ lastNow <= lastNow'
    /\ Keeps(work', work)
    /\ running = 0 /\ running' \in Waits(work)
    /\ Waits(work') = IF running' \in Repeats(work) THEN Waits(work)
                      ELSE Waits(work) \ {running'}
    /\ \A t, u \in work.readyTasks :
          running' = t.id /\ u.id < t.id => t.io /\ ~u.io

StepKind == StepEnds \/ StepAdmits \/ StepChanges \/ StepStarts

(* Operations that admit a task: enqueue, setTimeout, setInterval and      *)
(* completeNativeRequest.                                                  *)
LEMMA AdmitKind ==
    ASSUME Inv, NEW w, Admit(w), NEW t, t.id = nextId, Gains(w, work, t),
           t \in w.readyTasks => t.at = clock
    PROVE  StepKind
<1>1. ~disposed /\ running' = running
  BY DEF Admit, GuestRuns, turn
<1>2. CASE ReadNowFails /\ UNCHANGED nextId
  BY <1>1, <1>2 DEF ReadNowFails, StepKind, StepEnds
<1>3. CASE RequestWakeup(w) /\ nextId' = nextId + 1
  <2>1. CASE FinalizeTermination
    BY <1>1, <1>3, <2>1 DEF StepKind, StepEnds
  <2>2. CASE work' = w /\ UNCHANGED lifecycle
    BY <1>1, <1>3, <2>2 DEF RequestWakeup, lifecycle, StepKind, StepAdmits
  <2>. QED BY <1>3, <2>1, <2>2 DEF RequestWakeup
<1>. QED BY <1>2, <1>3 DEF Admit

(* Operations that withdraw or change tasks *)
LEMMA ReconcileKind ==
    ASSUME Inv, NEW w, Reconcile(w), Keeps(w, work)
    PROVE  StepKind
<1>1. ~disposed /\ running' = running /\ nextId' = nextId
  BY DEF Reconcile, GuestRuns, turn
<1>2. CASE ReadNowFails
  BY <1>1, <1>2 DEF ReadNowFails, StepKind, StepEnds
<1>3. CASE RequestWakeup(w)
  <2>1. CASE FinalizeTermination
    BY <1>1, <1>3, <2>1 DEF StepKind, StepEnds
  <2>2. CASE work' = w /\ UNCHANGED lifecycle
    <3>1. lastNow' \in Nat /\ lastNow <= lastNow' /\ disposed' = disposed
      BY <1>3, <2>2, InvFacts DEF RequestWakeup, ClockOk, lifecycle
    <3>. QED BY <1>1, <2>2, <3>1 DEF StepKind, StepChanges
  <2>. QED BY <1>3, <2>1, <2>2 DEF RequestWakeup
<1>. QED BY <1>2, <1>3 DEF Reconcile

(* enqueueMacrotask and the others *)
LEMMA EnqueueKind ==
    ASSUME Inv, EnqueueStep
    PROVE  StepKind
<1>. PICK ref \in Refs :
        \/ EnqueueMacrotask(ref)
        \/ EnqueueIoCallback(ref)
        \/ EnqueueImmediate(ref)
        \/ EnqueueNextTick(ref)
        \/ \E d \in Delays : SetTimeout(d, ref) \/ SetInterval(d, ref)
  BY DEF EnqueueStep
<1>1. ASSUME NEW io, Admit(WithReadyTask(work, ref, io, NoRequest)) PROVE StepKind
  <2>. DEFINE t == [id |-> nextId, at |-> clock, ref |-> ref, io |-> io, request |-> NoRequest]
              w == WithReadyTask(work, ref, io, NoRequest)
  <2>1. Gains(w, work, t) /\ t.id = nextId /\ t.at = clock
    BY InvFacts DEF WithReadyTask, WorkType, Gains
  <2>. HIDE DEF t, w
  <2>2. Admit(w)
    BY <1>1 DEF w
  <2>. QED BY <2>1, <2>2, AdmitKind
<1>2. CASE EnqueueMacrotask(ref) \/ EnqueueIoCallback(ref)
  BY <1>1, <1>2 DEF EnqueueMacrotask, EnqueueIoCallback
<1>. DEFINE t == [id |-> nextId, ref |-> ref]
<1>3. CASE EnqueueImmediate(ref)
  <2>. DEFINE w == [work EXCEPT !.immediates = @ \cup {t}, !.tasksById = @ \cup {nextId}]
  <2>1. Gains(w, work, t) /\ t.id = nextId /\ w.readyTasks = work.readyTasks
    BY InvFacts DEF WorkType, Gains
  <2>2. Admit(w)
    BY <1>3 DEF EnqueueImmediate
  <2>3. t \notin w.readyTasks
    BY <2>1, InvFacts DEF WellIndexed, Queued
  <2>. HIDE DEF t, w
  <2>. QED BY <2>1, <2>2, <2>3, AdmitKind
<1>4. CASE EnqueueNextTick(ref)
  <2>. DEFINE w == [work EXCEPT !.nextTicks = @ \cup {t}, !.tasksById = @ \cup {nextId}]
  <2>1. Gains(w, work, t) /\ t.id = nextId /\ w.readyTasks = work.readyTasks
    BY InvFacts DEF WorkType, Gains
  <2>2. Admit(w)
    BY <1>4 DEF EnqueueNextTick
  <2>3. t \notin w.readyTasks
    BY <2>1, InvFacts DEF WellIndexed, Queued
  <2>. HIDE DEF t, w
  <2>. QED BY <2>1, <2>2, <2>3, AdmitKind
<1>5. ASSUME NEW d, NEW every, SetTimer(d, every, ref) PROVE StepKind
  <2>. DEFINE tt == [id |-> nextId, at |-> clock + NormalizeDelay(d, 0),
                     every |-> every, ref |-> ref]
              w == [work EXCEPT !.timers = @ \cup {tt}]
  <2>1. Gains(w, work, tt) /\ tt.id = nextId /\ w.readyTasks = work.readyTasks
    BY InvFacts DEF WorkType, Gains
  <2>2. Admit(w)
    BY <1>5 DEF SetTimer
  <2>3. tt \notin w.readyTasks
    BY <2>1, InvFacts DEF WellIndexed, Queued
  <2>. HIDE DEF tt, w
  <2>. QED BY <2>1, <2>2, <2>3, AdmitKind
<1>. QED BY <1>2, <1>3, <1>4, <1>5 DEF SetTimeout, SetInterval

(* cancelTask and clearTimer *)
LEMMA WithdrawKind ==
    ASSUME Inv, WithdrawStep
    PROVE  StepKind
<1>. PICK id \in 1..MaxId : CancelTask(id) \/ ClearTimer(id)
  BY DEF WithdrawStep
<1>1. CASE CancelTask(id)
  <2>. DEFINE Without(S) == {t \in S : t.id # id}
              w == [work EXCEPT !.tasksById = @ \ {id}, !.immediates = Without(@),
                                !.readyTasks = Without(@), !.nextTicks = Without(@)]
  <2>1. Reconcile(w)
    BY <1>1 DEF CancelTask
  <2>2. Keeps(w, work)
    BY InvFacts DEF WorkType, Keeps
  <2>. HIDE DEF w
  <2>. QED BY <2>1, <2>2, ReconcileKind
<1>2. CASE ClearTimer(id)
  <2>. DEFINE w == [work EXCEPT !.timers = {t \in @ : t.id # id}]
  <2>1. Reconcile(w)
    BY <1>2 DEF ClearTimer
  <2>2. Keeps(w, work)
    BY InvFacts DEF WorkType, Keeps
  <2>. HIDE DEF w
  <2>. QED BY <2>1, <2>2, ReconcileKind
<1>. QED BY <1>1, <1>2

(* ref and unref of a timer, an immediate or a native request *)
LEMMA RefKind ==
    ASSUME Inv, RefStep
    PROVE  StepKind
<1>. PICK ref \in Refs :
        \/ \E id \in 1..MaxId : SetTimerRef(id, ref) \/ SetImmediateRef(id, ref)
        \/ \E r \in RequestIds : SetNativeRequestRef(r, ref)
  BY DEF RefStep
<1>1. ASSUME NEW id, SetTimerRef(id, ref) PROVE StepKind
  <2>. DEFINE S == SetRef(work.timers, id, ref)
              w == [work EXCEPT !.timers = S]
  <2>1. Reconcile(w)
    BY <1>1 DEF SetTimerRef
  <2>2. \A u \in S : \E t \in work.timers : u.id = t.id /\ u.every = t.every /\ u.at = t.at
    BY InvFacts DEF WorkType, SetRef
  <2>. HIDE DEF S
  <2>3. Keeps(w, work)
    BY <2>2, InvFacts DEF WorkType, Keeps
  <2>. HIDE DEF w
  <2>. QED BY <2>1, <2>3, ReconcileKind
<1>2. ASSUME NEW id, SetImmediateRef(id, ref) PROVE StepKind
  <2>. DEFINE S == SetRef(work.immediates, id, ref)
              w == [work EXCEPT !.immediates = S]
  <2>1. Reconcile(w)
    BY <1>2 DEF SetImmediateRef
  <2>. HIDE DEF S
  <2>3. Keeps(w, work)
    BY InvFacts DEF WorkType, Keeps
  <2>. HIDE DEF w
  <2>. QED BY <2>1, <2>3, ReconcileKind
<1>3. ASSUME NEW r, SetNativeRequestRef(r, ref) PROVE StepKind
  <2>. DEFINE w == [work EXCEPT !.nativeRequests[r] = RefName(ref)]
  <2>1. Reconcile(w)
    BY <1>3 DEF SetNativeRequestRef
  <2>3. Keeps(w, work)
    BY InvFacts DEF WorkType, Keeps
  <2>. HIDE DEF w
  <2>. QED BY <2>1, <2>3, ReconcileKind
<1>. QED BY <1>1, <1>2, <1>3

(* The operations of the native side *)
LEMMA NativeKind ==
    ASSUME Inv, NativeStep
    PROVE  StepKind
<1>. PICK r \in RequestIds :
        \/ \E ref \in Refs : RegisterNativeRequest(r, ref) \/ CompleteNativeRequest(r, ref)
        \/ CancelNativeRequest(r)
  BY DEF NativeStep
<1>1. ASSUME NEW ref, RegisterNativeRequest(r, ref) PROVE StepKind
  <2>. DEFINE w == [work EXCEPT !.nativeRequests[r] = RefName(ref)]
  <2>1. Reconcile(w)
    BY <1>1 DEF RegisterNativeRequest
  <2>3. Keeps(w, work)
    BY InvFacts DEF WorkType, Keeps
  <2>. HIDE DEF w
  <2>. QED BY <2>1, <2>3, ReconcileKind
<1>2. ASSUME NEW ref, CompleteNativeRequest(r, ref) PROVE StepKind
  <2>. DEFINE t == [id |-> nextId, at |-> clock, ref |-> ref, io |-> FALSE, request |-> r]
              v == WithReadyTask(work, ref, FALSE, r)
              w == [v EXCEPT !.nativeRequests[r] = "absent"]
  <2>1. Gains(w, work, t) /\ t.id = nextId /\ t.at = clock
    BY InvFacts DEF WithReadyTask, WorkType, Gains
  <2>2. Admit(w)
    BY <1>2 DEF CompleteNativeRequest
  <2>. HIDE DEF t, v, w
  <2>. QED BY <2>1, <2>2, AdmitKind
<1>3. CASE CancelNativeRequest(r)
  <2>. DEFINE dropped == {t \in Active(work, work.readyTasks) : t.request = r}
              w == [work EXCEPT !.nativeRequests[r] = "absent",
                                !.readyTasks = @ \ dropped,
                                !.tasksById = @ \ Ids(dropped)]
  <2>1. Reconcile(w)
    BY <1>3 DEF CancelNativeRequest
  <2>. HIDE DEF dropped
  <2>2. Keeps(w, work)
    BY InvFacts DEF WorkType, Keeps
  <2>. HIDE DEF w
  <2>. QED BY <2>1, <2>2, ReconcileKind
<1>. QED BY <1>1, <1>2, <1>3

(* The same queues are kept. *)
LEMMA KeepsSame == ASSUME Inv PROVE Keeps(work, work)
  BY DEF Keeps

(* A change of lastNow, of observers or of the wakeup only *)
LEMMA QuietKind ==
    ASSUME Inv, UNCHANGED <<work, nextId, disposed, running>>,
           lastNow' \in Nat, lastNow <= lastNow'
    PROVE  StepKind
  BY KeepsSame DEF StepKind, StepChanges

(* A termination, by itself or at the end of a turn *)
LEMMA EndsKind ==
    ASSUME Inv, FinalizeTermination, running' \in {running, 0}, nextId' = nextId
    PROVE  StepKind
  BY DEF StepKind, StepEnds

(* Snapshots, observers, shutdown *)
LEMMA LifecycleKind ==
    ASSUME Inv, LifecycleStep
    PROVE  StepKind
<1>1. CASE ReadClock
  <2>1. running' = running /\ nextId' = nextId
    BY <1>1 DEF ReadClock, turn
  <2>2. CASE ReadNowFails
    BY <2>1, <2>2, EndsKind DEF ReadNowFails
  <2>3. CASE ClockOk /\ lastNow' = clock /\ UNCHANGED <<work, scheduled, armed, lifecycle>>
    BY <2>1, <2>3, InvFacts, QuietKind DEF ClockOk, lifecycle
  <2>. QED BY <1>1, <2>2, <2>3 DEF ReadClock
<1>2. CASE \E o \in Observers : AddLifecycleObserver(o) \/ DetachLifecycleObserver(o)
  BY <1>2, InvFacts, QuietKind DEF AddLifecycleObserver, DetachLifecycleObserver, turn
<1>3. CASE Shutdown
  BY <1>3, EndsKind DEF Shutdown, turn
<1>. QED BY <1>1, <1>2, <1>3 DEF LifecycleStep

(* Deadlines move, tasks stay. *)
LEMMA AdvanceKeeps ==
    ASSUME Inv, NEW id, lastNow' = clock
    PROVE  LET w == AdvanceIntervalDeadline(work, id, clock)
           IN Keeps(w, work) /\ Waits(w) = Waits(work) /\ Repeats(w) = Repeats(work)
<1>. DEFINE F == [id : Nat, at : Nat, every : Nat, ref : BOOLEAN]
            G(t) == IF t.id = id THEN Advanced(t, clock) ELSE t
            S == {G(t) : t \in work.timers}
            w == AdvanceIntervalDeadline(work, id, clock)
<1>1. \A t \in work.timers : /\ G(t).id = t.id /\ G(t).every = t.every
                             /\ G(t).at = t.at \/ Moved(t, G(t))
  <2>1. \A t \in work.timers : t \in F
    BY InvFacts DEF WorkType
  <2>2. \A t \in F : Advanced(t, clock).id = t.id /\ Advanced(t, clock).every = t.every
    BY DEF Advanced
  <2>. QED BY <2>1, <2>2 DEF Moved
<1>2. w = [work EXCEPT !.timers = S]
  BY DEF AdvanceIntervalDeadline
<1>. HIDE DEF G, w
<1>3. /\ \A u \in S : \E t \in work.timers :
            u.id = t.id /\ u.every = t.every /\ (u.at = t.at \/ Moved(t, u))
      /\ \A t \in work.timers : \E u \in S : u.id = t.id /\ u.every = t.every
  BY <1>1
<1>. HIDE DEF S
<1>4. /\ w.timers = S /\ w.readyTasks = work.readyTasks /\ w.tasksById = work.tasksById
  BY <1>2, InvFacts DEF WorkType
<1>5. Ids(S) = Ids(work.timers)
  BY <1>3 DEF Ids
<1>6. Repeats(w) = Repeats(work)
  BY <1>3, <1>4 DEF Repeats, Ids
<1>. QED BY <1>3, <1>4, <1>5, <1>6 DEF Keeps, Waits, w

(* An immediate or a tick starts. *)
LEMMA StartsQueued ==
    ASSUME Inv, ~disposed, disposed' = disposed, nextId' = nextId,
           lastNow' \in Nat, lastNow <= lastNow', running = 0,
           NEW t, t \in work.immediates \cup work.nextTicks, running' = t.id,
           work'.tasksById = work.tasksById \ {t.id}, work'.timers = work.timers,
           work'.readyTasks = work.readyTasks
    PROVE  StepStarts
<1>1. t.id \in work.tasksById
  BY InvFacts DEF WellIndexed, Queued, Ids
<1>2. t.id \notin Ids(work.timers)
  BY InvFacts DEF WellIndexed, Apart, Queued, Ids
<1>3. \A u \in work.readyTasks : u.id # t.id
  BY InvFacts DEF WellIndexed, Apart
<1>4. t.id \notin Repeats(work)
  BY <1>2 DEF Repeats, Ids
<1>5. Waits(work') = Waits(work) \ {t.id} /\ t.id \in Waits(work)
  BY <1>1, <1>2 DEF Waits
<1>6. Keeps(work', work)
  BY DEF Keeps
<1>. QED BY <1>3, <1>4, <1>5, <1>6 DEF StepStarts

(* A ready task starts. *)
LEMMA StartsReady ==
    ASSUME Inv, ~disposed, disposed' = disposed, nextId' = nextId,
           lastNow' \in Nat, lastNow <= lastNow', running = 0,
           NEW t \in work.readyTasks, running' = t.id,
           \A u \in work.readyTasks : u.id < t.id => t.io /\ ~u.io,
           work'.tasksById = work.tasksById \ {t.id}, work'.timers = work.timers,
           work'.readyTasks = work.readyTasks \ {t}
    PROVE  StepStarts
<1>1. t.id \in work.tasksById
  BY InvFacts DEF WellIndexed, Queued, Ids
<1>2. t.id \notin Ids(work.timers)
  BY InvFacts DEF WellIndexed, Apart, Queued, Ids
<1>3. \A u \in work.readyTasks : u.id = t.id => u = t
  BY InvFacts DEF WellIndexed, Distinct
<1>4. t.id \notin Repeats(work)
  BY <1>2 DEF Repeats, Ids
<1>5. Waits(work') = Waits(work) \ {t.id} /\ t.id \in Waits(work)
  BY <1>1, <1>2 DEF Waits
<1>6. Keeps(work', work)
  BY DEF Keeps
<1>. QED BY <1>3, <1>4, <1>5, <1>6 DEF StepStarts

(* A timer starts; an interval stays in the table. *)
LEMMA StartsTimer ==
    ASSUME Inv, ~disposed, disposed' = disposed, nextId' = nextId,
           lastNow' \in Nat, lastNow <= lastNow', running = 0,
           NEW t \in work.timers, running' = t.id,
           work'.tasksById = work.tasksById,
           work'.timers = IF t.every = 0 THEN work.timers \ {t} ELSE work.timers,
           work'.readyTasks = work.readyTasks
    PROVE  StepStarts
<1>1. t.id \notin work.tasksById
  BY InvFacts DEF WellIndexed, Apart, Queued, Ids
<1>2. \A u \in work.readyTasks : u.id # t.id
  BY InvFacts DEF WellIndexed, Apart, Queued
<1>3. \A u \in work.timers : u.id = t.id => u = t
  BY InvFacts DEF WellIndexed, Distinct
<1>4. t.id \in Repeats(work) <=> t.every # 0
  BY <1>3, InvFacts DEF Repeats, Ids, WorkType
<1>5. Waits(work') = (IF t.every = 0 THEN Waits(work) \ {t.id} ELSE Waits(work))
      /\ t.id \in Waits(work)
  BY <1>1, <1>3 DEF Waits, Ids
<1>6. Keeps(work', work)
  BY DEF Keeps
<1>. QED BY <1>2, <1>4, <1>5, <1>6 DEF StepStarts

(* What takeReadyTask starts, or nothing *)
LEMMA TakeReadyTaskKind ==
    ASSUME Inv2, ~disposed, disposed' = disposed, nextId' = nextId,
           lastNow' \in Nat, lastNow <= lastNow', running = 0, TakeReadyTask
    PROVE  StepKind
<1>0. Inv
  BY DEF Inv2
<1>1. CASE ContinueCheck
  <2>. DEFINE t == Oldest(ImmediateBatch(work))
  <2>1. t \in work.immediates
    <3>1. \A u \in ImmediateBatch(work) : u \in work.immediates /\ u.id \in Nat
      BY <1>0, InvFacts DEF ImmediateBatch, Queued
    <3>2. ImmediateBatch(work) # {}
      BY <1>1 DEF ContinueCheck, InCheck
    <3>. QED BY <3>1, <3>2, OldestIn
  <2>2. work' = TakeImmediate(work, t) /\ running' = t.id
    BY <1>1 DEF ContinueCheck, Execute
  <2>. HIDE DEF t
  <2>3. /\ work'.tasksById = work.tasksById \ {t.id} /\ work'.timers = work.timers
        /\ work'.readyTasks = work.readyTasks
    BY <1>0, <2>2, InvFacts DEF TakeImmediate, WorkType
  <2>. QED BY <1>0, <2>1, <2>2, <2>3, StartsQueued DEF StepKind
<1>2. CASE ContinuePoll
  <2>. DEFINE t == Oldest(IoBatch(work))
  <2>1. t \in IoBatch(work) /\ \A u \in IoBatch(work) : t.id <= u.id
    <3>1. \A u \in IoBatch(work) : u.id \in Nat
      BY <1>0, InvFacts DEF IoBatch, Active, Queued
    <3>2. IoBatch(work) # {}
      BY <1>2 DEF ContinuePoll, InPoll
    <3>. QED BY <3>1, <3>2, OldestIn
  <2>2. work' = [TakeReady(work, t) EXCEPT !.immediateCutoff = NoCutoff] /\ running' = t.id
    BY <1>2 DEF ContinuePoll, Execute
  <2>. HIDE DEF t
  <2>3. /\ work'.tasksById = work.tasksById \ {t.id} /\ work'.timers = work.timers
        /\ work'.readyTasks = work.readyTasks \ {t}
    BY <1>0, <2>2, InvFacts DEF TakeReady, WorkType
  <2>4. t \in work.readyTasks /\ t.io /\ work.ioCutoff # NoCutoff /\ t.id <= work.ioCutoff
    BY <2>1 DEF IoBatch, Active
  <2>5. ASSUME NEW u \in work.readyTasks, u.id < t.id PROVE ~u.io
    <3>1. u.id \in work.tasksById /\ u.id \in Nat /\ t.id \in Nat /\ work.ioCutoff \in Int
      BY <1>0, <2>4, InvFacts DEF WellIndexed, Ids, Queued, WorkType, NoCutoff
    <3>2. u.io => u \in IoBatch(work)
      BY <2>4, <2>5, <3>1 DEF IoBatch, Active
    <3>. QED BY <2>1, <2>5, <3>1, <3>2
  <2>. QED BY <1>0, <2>2, <2>3, <2>4, <2>5, StartsReady DEF StepKind
<1>3. CASE BeginCheck
  <2>. DEFINE t == Oldest(work.immediates)
              n == Newest(work.immediates)
  <2>1. t \in work.immediates
    BY <1>0, <1>3, InvFacts, OldestIn DEF BeginCheck, CheckDue, Queued
  <2>2. /\ work' = [TakeImmediate(work, t) EXCEPT !.immediateCutoff = n.id,
                                                  !.ioCutoff = NoCutoff]
        /\ running' = t.id
    BY <1>3 DEF BeginCheck, Execute
  <2>. HIDE DEF t, n
  <2>3. /\ work'.tasksById = work.tasksById \ {t.id} /\ work'.timers = work.timers
        /\ work'.readyTasks = work.readyTasks
    BY <1>0, <2>2, InvFacts DEF TakeImmediate, WorkType
  <2>. QED BY <1>0, <2>1, <2>2, <2>3, StartsQueued DEF StepKind
<1>. DEFINE E == Eligible(work, clock)
            f == First(E)
<1>f. ASSUME OrdinaryDue(work, clock)
      PROVE  f \in E /\ \A u \in E : Earlier(f, u)
  <2>1. \A u \in E : u.at \in Nat /\ u.id \in Nat
    BY <1>0, InvFacts DEF Eligible, Active, Queued
  <2>2. E # {}
    BY <1>f DEF OrdinaryDue
  <2>. QED BY <2>1, <2>2, FirstIn
<1>4. CASE RunReadyTask
  <2>. DEFINE d == IF f.io THEN nextId - 1 ELSE NoCutoff
  <2>1. /\ f \in work.readyTasks /\ f \in E /\ \A u \in E : Earlier(f, u)
        /\ work' = [TakeReady(work, f) EXCEPT !.immediateCutoff = NoCutoff, !.ioCutoff = d]
        /\ running' = f.id
    BY <1>4, <1>f DEF RunReadyTask, Execute
  <2>. HIDE DEF f
  <2>2. /\ work'.tasksById = work.tasksById \ {f.id} /\ work'.timers = work.timers
        /\ work'.readyTasks = work.readyTasks \ {f}
    BY <1>0, <2>1, InvFacts DEF TakeReady, WorkType
  <2>3. ASSUME NEW u \in work.readyTasks, u.id < f.id PROVE FALSE
    <3>1. u.id \in work.tasksById
      BY <1>0, InvFacts DEF WellIndexed, Ids, Queued
    <3>2. \A i \in work.immediates : f.id < i.id
      BY <2>1 DEF Eligible
    <3>3. u.id \in Nat /\ f.id \in Nat /\ (\A i \in work.immediates : i.id \in Nat)
          /\ u.at \in Nat /\ f.at \in Nat
      BY <1>0, <2>1, InvFacts DEF Queued
    <3>4. u \in E
      BY <2>3, <3>1, <3>2, <3>3 DEF Eligible, Active
    <3>5. Earlier(f, u)
      BY <2>1, <3>4
    <3>6. u.at <= f.at
      BY <2>1, <2>3 DEF Inv2, ReadyOrder
    <3>. QED BY <2>3, <3>3, <3>5, <3>6 DEF Earlier
  <2>. QED BY <1>0, <2>1, <2>2, <2>3, StartsReady DEF StepKind
<1>5. CASE RunTimer
  <2>1. /\ f \in work.timers
        /\ work' = [work EXCEPT !.timers = IF f.every = 0 THEN @ \ {f} ELSE @,
                                !.immediateCutoff = NoCutoff, !.ioCutoff = NoCutoff]
        /\ running' = f.id
    BY <1>5 DEF RunTimer, Execute
  <2>. HIDE DEF f
  <2>2. /\ work'.tasksById = work.tasksById /\ work'.readyTasks = work.readyTasks
        /\ work'.timers = IF f.every = 0 THEN work.timers \ {f} ELSE work.timers
    BY <1>0, <2>1, InvFacts DEF WorkType
  <2>. QED BY <1>0, <2>1, <2>2, StartsTimer DEF StepKind
<1>6. CASE NothingReady
  <2>1. /\ work' = [work EXCEPT !.immediateCutoff = NoCutoff, !.ioCutoff = NoCutoff]
        /\ running' = 0
    BY <1>6 DEF NothingReady
  <2>2. /\ work'.tasksById = work.tasksById /\ work'.readyTasks = work.readyTasks
        /\ work'.timers = work.timers
    BY <1>0, <2>1, InvFacts DEF WorkType
  <2>3. Keeps(work', work)
    BY <2>2 DEF Keeps
  <2>. QED BY <2>1, <2>3 DEF StepKind, StepChanges
<1>. QED BY <1>1, <1>2, <1>3, <1>4, <1>5, <1>6 DEF TakeReadyTask

(* The end of a turn, or of the callback of one *)
LEMMA ReturnKind ==
    ASSUME Inv, UNCHANGED <<work, nextId, disposed>>, running' \in {running, 0},
           lastNow' \in Nat, lastNow <= lastNow'
    PROVE  StepKind
  BY KeepsSame DEF StepKind, StepChanges

(* The steps of a turn *)
LEMMA TurnKind ==
    ASSUME Inv2, TurnStep
    PROVE  StepKind
<1>0. Inv /\ lastNow \in Nat /\ clock \in Nat
  BY InvFacts DEF Inv2
<1>1. CASE EndTask
  <2>0. nextId' = nextId /\ running' = 0
    BY <1>1 DEF EndTask, NoTurn, Drain
  <2>1. CASE ReadNowFails
    BY <1>0, <2>0, <2>1, EndsKind DEF ReadNowFails
  <2>2. CASE UNCHANGED <<lastNow, work, lifecycle>>
    BY <1>0, <2>0, <2>2, ReturnKind DEF lifecycle
  <2>3. CASE /\ ClockOk /\ lastNow' = clock /\ UNCHANGED lifecycle
             /\ work' = AdvanceIntervalDeadline(work, selectedTimer, clock)
    BY <1>0, <2>0, <2>3, AdvanceKeeps DEF ClockOk, lifecycle, StepKind, StepChanges
  <2>. QED BY <1>1, <2>1, <2>2, <2>3 DEF EndTask
<1>2. CASE DrainNextTick
  <2>0. nextId' = nextId /\ lastNow' = lastNow /\ ~disposed /\ running = 0
    BY <1>2 DEF DrainNextTick, Inv2, RunningInTurn
  <2>1. CASE TurnFails
    BY <1>0, <2>0, <2>1, EndsKind DEF TurnFails, NoTurn
  <2>2. CASE TakeNextTick(callbacks + 1)
    <3>. DEFINE t == Oldest(Active(work, work.nextTicks))
    <3>1. t \in work.nextTicks
      <4>1. \A u \in Active(work, work.nextTicks) : u \in work.nextTicks /\ u.id \in Nat
        BY <1>0, InvFacts DEF Active, Queued
      <4>. QED BY <1>2, <4>1, OldestIn DEF DrainNextTick, HasRunnableNextTick
    <3>2. /\ work' = [work EXCEPT !.nextTicks = {u \in @ : u.id > t.id},
                                  !.tasksById = @ \ {t.id}]
          /\ running' = t.id /\ UNCHANGED disposed
      BY <2>2 DEF TakeNextTick, lifecycle
    <3>. HIDE DEF t
    <3>3. /\ work'.tasksById = work.tasksById \ {t.id} /\ work'.timers = work.timers
          /\ work'.readyTasks = work.readyTasks
      BY <1>0, <3>2, InvFacts DEF WorkType
    <3>. QED BY <1>0, <2>0, <3>1, <3>2, <3>3, StartsQueued DEF StepKind
  <2>. QED BY <1>2, <2>1, <2>2 DEF DrainNextTick
<1>3. CASE EndTick
  BY <1>0, <1>3, ReturnKind DEF EndTick, Drain, lifecycle
<1>4. CASE CallbackThrows
  <2>0. nextId' = nextId /\ lastNow' = lastNow /\ running' = 0
    BY <1>4 DEF CallbackThrows, TurnFails, NoTurn
  <2>1. CASE UNCHANGED <<work, lifecycle>>
    BY <1>0, <2>0, <2>1, ReturnKind DEF lifecycle
  <2>2. CASE FinalizeTermination
    BY <1>0, <2>0, <2>2, EndsKind
  <2>. QED BY <1>4, <2>1, <2>2 DEF CallbackThrows, TurnFails
<1>5. CASE DrainDone
  <2>0. nextId' = nextId /\ lastNow' = lastNow /\ UNCHANGED disposed
    BY <1>5 DEF DrainDone, lifecycle
  <2>1. CASE NoTurn /\ UNCHANGED work
    BY <1>0, <2>0, <2>1, ReturnKind DEF NoTurn
  <2>2. CASE work' = [work EXCEPT !.nextTicks = {}] /\ running' = running /\ ~disposed
    <3>1. Keeps(work', work)
      BY <1>0, <2>2, InvFacts DEF Keeps, WorkType
    <3>. QED BY <1>0, <2>0, <2>2, <3>1 DEF StepKind, StepChanges
  <2>. QED BY <1>5, <2>1, <2>2 DEF DrainDone
<1>6. CASE CheckpointThrows
  BY <1>0, <1>6, EndsKind DEF CheckpointThrows, TurnFails, NoTurn
<1>7. CASE FinishTurn
  <2>0. nextId' = nextId /\ running' = 0 /\ running = 0
    BY <1>7 DEF FinishTurn, NoTurn, Inv2, RunningInTurn
  <2>1. CASE disposed
    BY <1>0, <1>7, <2>0, <2>1, ReturnKind DEF FinishTurn, lifecycle
  <2>2. CASE ReadNowFails
    BY <1>0, <2>0, <2>2, EndsKind DEF ReadNowFails
  <2>3. CASE ~disposed /\ RequestWakeup(AdvanceIntervalDeadline(work, selectedTimer, clock))
    <3>1. CASE FinalizeTermination
      BY <1>0, <2>0, <3>1, EndsKind
    <3>2. CASE ~FinalizeTermination
      <4>1. /\ work' = AdvanceIntervalDeadline(work, selectedTimer, clock) /\ UNCHANGED lifecycle
            /\ ClockOk /\ lastNow' = clock
        BY <2>3, <3>2 DEF RequestWakeup
      <4>. QED BY <1>0, <2>0, <4>1, AdvanceKeeps DEF ClockOk, lifecycle, StepKind, StepChanges
    <3>. QED BY <3>1, <3>2
  <2>. QED BY <1>7, <2>1, <2>2, <2>3 DEF FinishTurn
<1>. QED BY <1>1, <1>2, <1>3, <1>4, <1>5, <1>6, <1>7 DEF TurnStep

(* The steps of the host *)
LEMMA HostKind ==
    ASSUME Inv2, HostStep
    PROVE  StepKind
<1>0. Inv /\ lastNow \in Nat /\ clock \in Nat
  BY InvFacts DEF Inv2
<1>1. CASE RunTurn
  <2>0. nextId' = nextId /\ ~disposed /\ running = 0
    BY <1>1 DEF RunTurn, Inv2, RunningInTurn
  <2>1. CASE ReadNowFails /\ NoTurn
    BY <1>0, <2>0, <2>1, EndsKind DEF ReadNowFails, NoTurn
  <2>2. CASE /\ ClockOk /\ lastNow' = clock /\ UNCHANGED lifecycle
             /\ IF HasRunnableNextTick(work) THEN EnterDrain ELSE TakeReadyTask
    <3>1. lastNow' \in Nat /\ lastNow <= lastNow' /\ disposed' = disposed
      BY <1>0, <2>2 DEF ClockOk, lifecycle
    <3>2. CASE EnterDrain
      BY <1>0, <2>0, <3>1, <3>2, ReturnKind DEF EnterDrain, Drain
    <3>3. CASE TakeReadyTask
      BY <2>0, <3>1, <3>3, TakeReadyTaskKind
    <3>. QED BY <2>2, <3>2, <3>3
  <2>. QED BY <1>1, <2>1, <2>2 DEF RunTurn
<1>2. CASE RunNextTickCheckpoint
  <2>0. nextId' = nextId /\ ~disposed /\ running = 0
    BY <1>2 DEF RunNextTickCheckpoint, Inv2, RunningInTurn
  <2>1. CASE ReadNowFails /\ NoTurn
    BY <1>0, <2>0, <2>1, EndsKind DEF ReadNowFails, NoTurn
  <2>2. CASE /\ ClockOk /\ lastNow' = clock /\ UNCHANGED lifecycle
             /\ UNCHANGED work /\ running' \in {running, 0}
    BY <1>0, <2>0, <2>2, ReturnKind DEF ClockOk, lifecycle
  <2>. QED BY <1>2, <2>1, <2>2 DEF RunNextTickCheckpoint, EnterDrain, Drain, turn
<1>3. CASE LateWakeup \/ ClockAdvances \/ ClockRegresses
  BY <1>0, <1>3, QuietKind DEF LateWakeup, ClockAdvances, ClockRegresses, turn, lifecycle
<1>. QED BY <1>1, <1>2, <1>3 DEF HostStep

LEMMA NextKind ==
    ASSUME Inv2, [Next]_vars
    PROVE  StepKind
<1>0. Inv
  BY DEF Inv2
<1>1. CASE EnqueueStep
  BY <1>0, <1>1, EnqueueKind
<1>2. CASE WithdrawStep
  BY <1>0, <1>2, WithdrawKind
<1>3. CASE RefStep
  BY <1>0, <1>3, RefKind
<1>4. CASE NativeStep
  BY <1>0, <1>4, NativeKind
<1>5. CASE LifecycleStep
  BY <1>0, <1>5, LifecycleKind
<1>6. CASE TurnStep
  BY <1>6, TurnKind
<1>7. CASE HostStep
  BY <1>7, HostKind
<1>8. CASE UNCHANGED vars
  BY <1>0, <1>8, InvFacts, QuietKind DEF vars, turn, lifecycle
<1>. QED BY <1>1, <1>2, <1>3, <1>4, <1>5, <1>6, <1>7, <1>8 DEF Next

-----------------------------------------------------------------------------
(* The order of the ready tasks.                                           *)

(* Ready tasks are admitted in the order of the clock. *)
LEMMA ReadyOrderInv ==
    ASSUME Inv2, StepKind
    PROVE  ReadyOrder'
<1>0. Inv /\ lastNow \in Nat /\ clock \in Nat
  BY InvFacts DEF Inv2
<1>1. CASE StepEnds
  <2>1. work' = NoWork
    BY <1>0, <1>1 DEF StepEnds, FinalizeTermination, Inv, TerminatesOnce
  <2>. QED BY <2>1 DEF ReadyOrder, NoWork
<1>2. CASE StepAdmits
  <2>1. PICK t : /\ t.id = nextId /\ Gains(work', work, t)
                 /\ t \in work'.readyTasks => t.at = clock
    BY <1>2 DEF StepAdmits
  <2>2. \/ work'.readyTasks = work.readyTasks
        \/ work'.readyTasks = work.readyTasks \cup {t} /\ t.at = clock
    BY <2>1 DEF Gains
  <2>3. lastNow' = clock /\ lastNow <= clock
    BY <1>2 DEF StepAdmits, ClockOk
  <2>4. \A u \in work.readyTasks : u.at <= lastNow /\ u.id < nextId /\ u.at \in Nat /\ u.id \in Nat
    BY <1>0, InvFacts DEF Inv2, ReadyOrder, WellIndexed, Queued
  <2>5. nextId \in Nat /\ clock \in Nat /\ lastNow \in Nat
    BY <1>0, InvFacts
  <2>6. \A u, v \in work.readyTasks : v.id < u.id => v.at <= u.at
    BY DEF Inv2, ReadyOrder
  <2>. QED BY <2>1, <2>2, <2>3, <2>4, <2>5, <2>6 DEF ReadyOrder
<1>3. CASE StepChanges \/ StepStarts
  <2>1. work'.readyTasks \subseteq work.readyTasks /\ lastNow' \in Nat /\ lastNow <= lastNow'
    BY <1>3 DEF StepChanges, StepStarts, Keeps
  <2>2. \A u \in work.readyTasks : u.at \in Nat
    BY <1>0, InvFacts
  <2>. QED BY <1>0, <2>1, <2>2 DEF Inv2, ReadyOrder
<1>. QED BY <1>1, <1>2, <1>3 DEF StepKind

(* Every step that leaves a callback clears what runs. *)
LEMMA RunningInTurnInv ==
    ASSUME RunningInTurn, [Next]_vars
    PROVE  RunningInTurn'
<1>1. CASE UNCHANGED <<phase, running>>
  BY <1>1 DEF RunningInTurn
<1>2. CASE NoTurn
  BY <1>2 DEF RunningInTurn, NoTurn
<1>3. CASE Drain
  BY <1>3 DEF RunningInTurn, Drain
<1>4. CASE EnqueueStep
  BY <1>1, <1>4 DEF EnqueueStep, EnqueueMacrotask, EnqueueIoCallback, EnqueueImmediate,
     EnqueueNextTick, SetTimeout, SetInterval, SetTimer, Admit, turn
<1>5. CASE WithdrawStep \/ RefStep
  BY <1>1, <1>5 DEF WithdrawStep, RefStep, CancelTask, ClearTimer, SetTimerRef,
     SetImmediateRef, SetNativeRequestRef, Reconcile, turn
<1>6. CASE NativeStep
  BY <1>1, <1>6 DEF NativeStep, RegisterNativeRequest, CompleteNativeRequest,
     CancelNativeRequest, Admit, Reconcile, turn
<1>7. CASE LifecycleStep
  BY <1>1, <1>7 DEF LifecycleStep, ReadClock, AddLifecycleObserver, DetachLifecycleObserver,
     Shutdown, turn
<1>8. CASE TurnStep
  <2>1. CASE EndTask \/ EndTick \/ CallbackThrows \/ CheckpointThrows \/ FinishTurn
    BY <1>2, <1>3, <2>1 DEF EndTask, EndTick, CallbackThrows, CheckpointThrows, FinishTurn,
       TurnFails
  <2>2. CASE DrainNextTick
    BY <1>2, <2>2 DEF DrainNextTick, TurnFails, TakeNextTick, RunningInTurn
  <2>3. CASE DrainDone
    BY <1>2, <2>3 DEF DrainDone, RunningInTurn
  <2>. QED BY <1>8, <2>1, <2>2, <2>3 DEF TurnStep
<1>9. CASE HostStep
  <2>1. CASE TakeReadyTask
    BY <2>1 DEF TakeReadyTask, ContinueCheck, ContinuePoll, BeginCheck, RunReadyTask, RunTimer,
       NothingReady, Execute, RunningInTurn
  <2>2. CASE EnterDrain
    BY <1>3, <2>2 DEF EnterDrain
  <2>. QED BY <1>1, <1>2, <1>9, <2>1, <2>2 DEF HostStep, RunTurn, RunNextTickCheckpoint,
          LateWakeup, ClockAdvances, ClockRegresses, turn
<1>10. CASE UNCHANGED vars
  BY <1>1, <1>10 DEF vars, turn
<1>. QED BY <1>4, <1>5, <1>6, <1>7, <1>8, <1>9, <1>10 DEF Next

LEMMA InitInv2 == Init => Inv2
<1>. SUFFICES ASSUME Init PROVE Inv2
  OBVIOUS
<1>1. ReadyOrder
  BY DEF Init, NoWork, ReadyOrder
<1>. QED BY <1>1, InitInv DEF Init, Inv2, RunningInTurn

LEMMA NextInv2 == Inv2 /\ [Next]_vars => Inv2'
<1>. SUFFICES ASSUME Inv2, [Next]_vars PROVE Inv2'
  OBVIOUS
<1>1. Inv'
  BY NextInv DEF Inv2
<1>2. RunningInTurn'
  BY RunningInTurnInv DEF Inv2
<1>3. ReadyOrder'
  BY NextKind, ReadyOrderInv
<1>. QED BY <1>1, <1>2, <1>3 DEF Inv2

(* The stronger invariant, with the order of the ready tasks *)
THEOREM OrderInvariance == Spec => []Inv2
  BY InitInv2, NextInv2, PTL DEF Spec

(* Macrotasks, native completions and I/O callbacks run in the order they  *)
(* were admitted, but for the I/O callbacks of a poll batch, although the  *)
(* loop compares clock readings before it compares sequence numbers.       *)
THEOREM ReadyTasksInOrder == Spec => ReadyTasksFifo
<1>1. ASSUME Inv2, [Next]_vars
      PROVE  [\A t, u \in work.readyTasks :
                 Starts(t.id) /\ u.id < t.id => t.io /\ ~u.io]_vars
  <2>. SUFFICES ASSUME NEW t \in work.readyTasks, NEW u \in work.readyTasks,
                       Starts(t.id), u.id < t.id
                PROVE  t.io /\ ~u.io
    OBVIOUS
  <2>0. Inv /\ t.id # 0
    <3>1. Inv
      BY <1>1 DEF Inv2
    <3>2. 0 < t.id
      BY <3>1, InvFacts DEF WellIndexed, Queued
    <3>. QED BY <3>1, <3>2
  <2>1. running = 0 /\ running' = t.id
    BY DEF Starts
  <2>2. StepStarts
    <3>1. ~StepEnds /\ ~StepAdmits /\ ~StepChanges
      BY <2>0, <2>1 DEF StepEnds, StepAdmits, StepChanges
    <3>. QED BY <1>1, <3>1, NextKind DEF StepKind
  <2>. QED BY <2>1, <2>2 DEF StepStarts
<1>. QED BY <1>1, OrderInvariance, PTL DEF Spec, ReadyTasksFifo

-----------------------------------------------------------------------------
(* Intervals.                                                              *)

(* Only the zeroth multiple of a period is shorter than it. *)
LEMMA ShortMultiple ==
    ASSUME NEW e \in Nat, 0 < e, NEW j \in Int, j * e \in 0..(e - 1)
    PROVE  j = 0
<1>1. CASE 1 <= j
  <2>1. j * e = e + (j - 1) * e
    OBVIOUS
  <2>2. 0 <= (j - 1) * e
    BY <1>1
  <2>. QED BY <2>1, <2>2
<1>2. CASE j <= -1
  <2>1. j * e = (j + 1) * e - e
    OBVIOUS
  <2>2. (j + 1) * e <= 0
    BY <1>2
  <2>. QED BY <2>1, <2>2
<1>. QED BY <1>1, <1>2

(* A multiple of a period leaves no remainder. *)
LEMMA WholePeriods ==
    ASSUME NEW e \in Nat, 0 < e, NEW k \in Nat
    PROVE  (k * e) % e = 0 /\ k * e \in Nat
<1>. DEFINE p == k * e
            m == p % e
            n == p \div e
<1>1. p \in Nat
  OBVIOUS
<1>. HIDE DEF p
<1>2. m \in 0..(e - 1) /\ n \in Nat /\ p = n * e + m
  BY <1>1
<1>. HIDE DEF m, n
<1>3. p = k * e
  BY DEF p
<1>4. (k - n) * e = k * e - n * e
  BY <1>2
<1>5. k - n \in Int /\ (k - n) * e = m
  BY <1>2, <1>3, <1>4
<1>6. k - n = 0
  BY <1>2, <1>5, ShortMultiple
<1>7. m = 0
  BY <1>5, <1>6
<1>. QED BY <1>1, <1>7 DEF p, m

(* The deadline that advanceIntervalDeadline computes *)
LEMMA NextDeadline ==
    ASSUME NEW at \in Nat, NEW every \in Nat, 0 < every, NEW now \in Nat, at <= now
    PROVE  LET next == at + ((now - at) \div every + 1) * every
           IN /\ (next - at) % every = 0
              /\ next - every <= now /\ now < next
<1>. DEFINE d == now - at
            q == d \div every
            r == d % every
            w == (q + 1) * every
<1>1. d \in Nat /\ now = at + d
  OBVIOUS
<1>. HIDE DEF d
<1>2. q \in Nat /\ r \in 0..(every - 1) /\ d = q * every + r
  BY <1>1
<1>. HIDE DEF q, r
<1>3. w = q * every + every
  BY <1>2
<1>4. w % every = 0 /\ w \in Nat
  BY <1>2, WholePeriods
<1>. HIDE DEF w
<1>5. (at + w) - at = w
  BY <1>4
<1>6. (at + w) - every <= now /\ now < at + w
  BY <1>1, <1>2, <1>3, <1>4
<1>7. at + ((now - at) \div every + 1) * every = at + w
  BY DEF w, q, d
<1>. QED BY <1>4, <1>5, <1>6, <1>7

(* Intervals neither drift nor catch up with a burst of runs, however late *)
(* and however often the loop is entered.                                  *)
THEOREM IntervalsKeepCadence == Spec => IntervalCadence
<1>1. ASSUME Inv2, [Next]_vars, NEW t \in work.timers, NEW u \in work'.timers,
             t.id = u.id, t.at # u.at
      PROVE  /\ t.every > 0 /\ u.every = t.every
             /\ (u.at - t.at) % t.every = 0
             /\ u.at - t.every <= lastNow' /\ lastNow' < u.at
  <2>0. Inv /\ clock \in Nat /\ t \in [id : Nat, at : Nat, every : Nat, ref : BOOLEAN]
    <3>1. Inv
      BY <1>1 DEF Inv2
    <3>2. clock \in Nat /\ work \in WorkType
      BY <3>1, InvFacts
    <3>3. t \in [id : Nat, at : Nat, every : Nat, ref : BOOLEAN]
      BY <1>1, <3>2 DEF WorkType
    <3>. QED BY <3>1, <3>2, <3>3
  <2>1. \A v \in work.timers : v.id = t.id => v = t
    BY <2>0, InvFacts DEF WellIndexed, Distinct
  <2>2. u.every = t.every /\ Moved(t, u)
    <3>1. CASE StepEnds
      BY <2>0, <3>1 DEF StepEnds, FinalizeTermination, NoWork, Inv, TerminatesOnce
    <3>2. CASE StepAdmits
      <4>1. PICK v : v.id = nextId /\ Gains(work', work, v)
        BY <3>2 DEF StepAdmits
      <4>2. t.id # nextId
        BY <2>0, InvFacts DEF WellIndexed
      <4>3. u \in work.timers
        BY <1>1, <4>1, <4>2 DEF Gains
      <4>. QED BY <1>1, <2>1, <4>3
    <3>3. CASE StepChanges \/ StepStarts
      <4>1. Keeps(work', work)
        BY <3>3 DEF StepChanges, StepStarts
      <4>. QED BY <1>1, <2>1, <4>1 DEF Keeps
    <3>. QED BY <1>1, <3>1, <3>2, <3>3, NextKind DEF StepKind
  <2>3. u.at = Advanced(t, clock).at /\ lastNow' = clock
    BY <2>2 DEF Moved
  <2>4. 0 < t.every /\ t.at <= clock
    BY <1>1, <2>0, <2>3 DEF Advanced
  <2>5. u.at = t.at + ((clock - t.at) \div t.every + 1) * t.every
    BY <2>0, <2>3, <2>4 DEF Advanced
  <2>6. t.at \in Nat /\ t.every \in Nat
    BY <2>0
  <2>. HIDE DEF Moved
  <2>7. /\ (u.at - t.at) % t.every = 0
        /\ u.at - t.every <= clock /\ clock < u.at
    BY <2>0, <2>4, <2>5, <2>6, NextDeadline
  <2>. QED BY <2>2, <2>3, <2>4, <2>7
<1>2. ASSUME Inv2, [Next]_vars
      PROVE  [\A t \in work.timers, u \in work'.timers :
                 t.id = u.id /\ t.at # u.at =>
                     /\ t.every > 0 /\ u.every = t.every
                     /\ (u.at - t.at) % t.every = 0
                     /\ u.at - t.every <= lastNow' /\ lastNow' < u.at]_vars
  BY <1>1, <1>2
<1>. QED BY <1>2, OrderInvariance, PTL DEF Spec, IntervalCadence

-----------------------------------------------------------------------------
(* The loop implements TaskLedger.                                         *)

LedgerState ==
    <<nextId - 1, work.tasksById \cup Ids(work.timers),
      Ids({t \in work.timers : t.every > 0}), running, disposed>>

(* Only pending tasks repeat. *)
LEMMA KeepsPending ==
    ASSUME NEW v \in WorkType, NEW w, NEW n, WellIndexed(v, n), Keeps(w, v)
    PROVE  Waits(w) \subseteq Waits(v) /\ Repeats(w) = Repeats(v) \cap Waits(w)
<1>1. Waits(w) \subseteq Waits(v)
  BY DEF Keeps, Waits, Ids
<1>2. Repeats(w) \subseteq Repeats(v) \cap Waits(w)
  BY DEF Keeps, Repeats, Waits, Ids
<1>3. ASSUME NEW id \in Repeats(v) \cap Waits(w) PROVE id \in Repeats(w)
  <2>1. PICK t \in v.timers : t.id = id /\ t.every > 0
    BY DEF Repeats, Ids
  <2>2. id \notin v.tasksById
    BY <2>1 DEF WellIndexed, Apart, Ids
  <2>3. PICK u \in w.timers : u.id = id
    BY <2>2 DEF Waits, Keeps, Ids
  <2>4. u.every = t.every
    BY <2>1, <2>3 DEF Keeps, WellIndexed, Distinct
  <2>. QED BY <2>1, <2>3, <2>4 DEF Repeats, Ids
<1>. QED BY <1>1, <1>2, <1>3

(* Every step of the loop is a step of the ledger, or none. *)
LEMMA StepIsLedgerStep ==
    ASSUME Inv2, [Next]_vars
    PROVE  Ledger!Next \/ UNCHANGED LedgerState
<1>. DEFINE a == nextId - 1
            p == Waits(work)
            r == Repeats(work)
<1>0. Inv /\ work \in WorkType /\ WellIndexed(work, nextId) /\ nextId \in Nat
      /\ disposed \in BOOLEAN
  BY InvFacts DEF Inv2, Inv, TypeOK
<1>1. CASE StepEnds
  <2>1. CASE disposed
    <3>1. UNCHANGED <<work, disposed, nextId>>
      BY <1>1, <2>1 DEF StepEnds, FinalizeTermination, lifecycle
    <3>2. CASE running' = running
      BY <3>1, <3>2 DEF LedgerState
    <3>3. CASE running' # running
      <4>1. running # 0 /\ running' = 0
        BY <1>1, <3>3 DEF StepEnds
      <4>. QED BY <3>1, <4>1 DEF Ledger!Next, Ledger!Return
    <3>. QED BY <3>2, <3>3
  <2>2. CASE ~disposed
    <3>1. /\ disposed' = TRUE /\ work' = NoWork
          /\ nextId' \in {nextId, nextId + 1} /\ running' \in {running, 0}
      BY <1>1, <2>2 DEF StepEnds, FinalizeTermination
    <3>2. Waits(work') = {} /\ Repeats(work') = {}
      BY <3>1 DEF NoWork, Waits, Repeats, Ids
    <3>3. nextId' - 1 \in {nextId - 1, (nextId - 1) + 1}
      <4>1. nextId \in Nat
        BY <1>0
      <4>2. nextId' = nextId \/ nextId' = nextId + 1
        BY <3>1
      <4>. QED BY ONLY <4>1, <4>2
    <3>4. Ledger!Close
      BY <2>2, <3>1, <3>2, <3>3 DEF Ledger!Close, Waits, Repeats
    <3>. QED BY <3>4 DEF Ledger!Next
  <2>. QED BY <2>1, <2>2
<1>2. CASE StepAdmits
  <2>1. PICK t : t.id = nextId /\ Gains(work', work, t)
    BY <1>2 DEF StepAdmits
  <2>2. Waits(work') = Waits(work) \cup {nextId}
    BY <2>1 DEF Gains, Waits, Ids
  <2>3. Repeats(work') \in {Repeats(work), Repeats(work) \cup {nextId}}
    <3>1. CASE work'.timers = work.timers
      BY <3>1 DEF Repeats
    <3>2. CASE work'.timers = work.timers \cup {t}
      <4>1. CASE t.every > 0
        BY <2>1, <3>2, <4>1 DEF Repeats, Ids
      <4>2. CASE ~(t.every > 0)
        BY <2>1, <3>2, <4>2 DEF Repeats, Ids
      <4>. QED BY <4>1, <4>2
    <3>. QED BY <2>1, <3>1, <3>2 DEF Gains
  <2>4. nextId' = nextId + 1 /\ ~disposed /\ ~disposed' /\ running' = running
    BY <1>2 DEF StepAdmits
  <2>5. nextId' - 1 = (nextId - 1) + 1 /\ (nextId - 1) + 1 = nextId
    BY <1>0, <2>4
  <2>6. disposed' = disposed
    <3>1. disposed' \in BOOLEAN
      BY NextInv DEF Inv2, Inv, TypeOK
    <3>. QED BY <1>0, <2>4, <3>1
  <2>7. Ledger!Admit
    BY <2>2, <2>3, <2>4, <2>5, <2>6 DEF Ledger!Admit, Waits, Repeats
  <2>. QED BY <2>7 DEF Ledger!Next
<1>3. CASE StepChanges
  <2>1. disposed' = disposed /\ nextId' = nextId
    BY <1>3 DEF StepChanges
  <2>2. CASE ~disposed /\ running' = running
    <3>1. Waits(work') \subseteq Waits(work) /\ Repeats(work') = Repeats(work) \cap Waits(work')
      BY <1>0, <1>3, KeepsPending DEF StepChanges
    <3>2. Ledger!Withdraw
      BY <2>1, <2>2, <3>1 DEF Ledger!Withdraw, Waits, Repeats
    <3>. QED BY <3>2 DEF Ledger!Next
  <2>3. CASE /\ running' \in {running, 0}
             /\ Waits(work') = Waits(work) /\ Repeats(work') = Repeats(work)
    <3>2. CASE running' = running
      BY <2>1, <2>3, <3>2 DEF LedgerState, Waits, Repeats
    <3>3. CASE running' # running
      <4>1. running # 0 /\ running' = 0
        BY <2>3, <3>3
      <4>. QED BY <2>1, <2>3, <4>1 DEF Ledger!Next, Ledger!Return, Waits, Repeats
    <3>. QED BY <3>2, <3>3
  <2>. QED BY <1>3, <2>2, <2>3 DEF StepChanges
<1>4. CASE StepStarts
  <2>1. /\ ~disposed /\ disposed' = disposed /\ nextId' = nextId /\ running = 0
        /\ running' \in Waits(work)
        /\ Waits(work') = IF running' \in Repeats(work) THEN Waits(work)
                          ELSE Waits(work) \ {running'}
    BY <1>4 DEF StepStarts
  <2>2. Waits(work') \subseteq Waits(work) /\ Repeats(work') = Repeats(work) \cap Waits(work')
    BY <1>0, <1>4, KeepsPending DEF StepStarts
  <2>3. Repeats(work) \subseteq Waits(work)
    BY DEF Repeats, Waits, Ids
  <2>4. Repeats(work') = Repeats(work)
    BY <2>1, <2>2, <2>3
  <2>5. Ledger!Start(running')
    BY <2>1, <2>4 DEF Ledger!Start, Waits, Repeats
  <2>. QED BY <2>1, <2>5 DEF Ledger!Next, Waits
<1>. QED BY <1>1, <1>2, <1>3, <1>4, NextKind DEF StepKind

(* Queues, batches, rollbacks, failures and re-entrance notwithstanding,   *)
(* the loop does with its callbacks only what TaskLedger allows: each is   *)
(* admitted once, starts at most once and never after it was withdrawn or  *)
(* the loop was closed, and no two run at a time.                          *)
THEOREM LoopIsLedger == Spec => LedgerSpec
<1>1. Init => Ledger!Init
  BY DEF Init, NoWork, Ids, Ledger!Init
<1>2. Inv2 /\ [Next]_vars => [Ledger!Next]_(LedgerState)
  BY StepIsLedgerStep
<1>. QED BY <1>1, <1>2, OrderInvariance, PTL DEF Spec, LedgerSpec, Ledger!Spec, LedgerState, Ledger!ledger
=============================================================================
