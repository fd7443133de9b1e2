---------------------- MODULE NativeBridgeCalls_proofs ----------------------
(***************************************************************************)
(* The inductive invariant of NativeBridge, and the first part of its      *)
(* proof: what every method of the bridge does to the calls, to the tasks  *)
(* of the loop and to the stack of providers running.  The provider's      *)
(* tokens, the quotas and the theorems follow in NativeBridge_proofs.      *)
(***************************************************************************)
EXTENDS NativeBridge, FiniteSetTheorems, SequenceTheorems, TLAPS

-----------------------------------------------------------------------------
(* Sets of naturals and sequences                                          *)

(* A non-empty set of naturals has a least element. *)
LEMMA SmallestExists ==
    ASSUME NEW T \in SUBSET Nat, T # {}
    PROVE  \E m \in T : \A k \in T : m <= k
<1>. DEFINE less == {ss \in Nat \X Nat : ss[1] < ss[2]}
<1>1. IsWellFoundedOn(less, Nat)
  BY NatLessThanWellFounded DEF OpToRel
<1>2. PICK m \in T : \A k \in T : ~ (<<k, m>> \in less)
  <2>. HIDE DEF less
  <2>. QED BY <1>1, WFMin
<1>3. \A k \in T : ~(k < m)
  BY <1>2
<1>. QED BY <1>3

(* A subset of an interval is finite. *)
LEMMA IntervalSubset ==
    ASSUME NEW n \in Nat, NEW K \in SUBSET (1..n)
    PROVE  IsFiniteSet(K) /\ Cardinality(K) \in Nat /\ Cardinality(K) <= n
<1>1. IsFiniteSet(1..n) /\ Cardinality(1..n) = n
  <2>1. 0 \in Int /\ 1 \in Int /\ n \in Int
    OBVIOUS
  <2>. QED BY <2>1, FS_Interval
<1>. QED BY <1>1, FS_Subset, FS_CardinalityType

(* The elements of a finite set of naturals have different ranks, and one  *)
(* of them has each rank.                                                  *)
LEMMA Ranks ==
    ASSUME NEW n \in Nat, NEW K \in SUBSET (1..n)
    PROVE  LET rank(i) == Cardinality({j \in K : j < i})
           IN /\ \A i, j \in K : i < j => rank(i) < rank(j)
              /\ \A i \in K : rank(i) \in 0..(Cardinality(K) - 1)
              /\ \A m \in 0..(Cardinality(K) - 1) : \E i \in K : rank(i) = m
<1>. DEFINE below(i) == {j \in K : j < i}
            f == [i \in K |-> Cardinality(below(i))]
            R == 0..(Cardinality(K) - 1)
<1>0. \A i \in K : i \in Nat
  OBVIOUS
<1>1. IsFiniteSet(K) /\ Cardinality(K) \in Nat
  BY IntervalSubset
<1>2. \A i \in K : IsFiniteSet(below(i)) /\ Cardinality(below(i)) \in Nat
  <2>. TAKE i \in K
  <2>1. below(i) \in SUBSET (1..n)
    OBVIOUS
  <2>. QED BY <2>1, IntervalSubset
<1>3. ASSUME NEW i \in K, NEW j \in K, i < j
      PROVE  Cardinality(below(i)) < Cardinality(below(j))
  <2>1. below(i) \in SUBSET below(j) /\ i \in below(j) /\ i \notin below(i)
    <3>1. \A k \in K : k < i => k < j
      BY <1>0, <1>3
    <3>2. ~(i < i)
      BY <1>0
    <3>. QED BY <1>3, <3>1, <3>2
  <2>2. Cardinality(below(i)) <= Cardinality(below(j))
        /\ Cardinality(below(i)) # Cardinality(below(j))
    <3>1. below(i) # below(j)
      BY <2>1
    <3>. HIDE DEF below
    <3>. QED BY <1>2, <2>1, <3>1, FS_Subset
  <2>. QED BY <1>2, <2>2
<1>4. ASSUME NEW i \in K PROVE Cardinality(below(i)) \in R
  <2>1. below(i) \in SUBSET K /\ below(i) # K
    <3>1. i \notin below(i)
      OBVIOUS
    <3>. QED BY <3>1
  <2>2. Cardinality(below(i)) <= Cardinality(K) /\ Cardinality(below(i)) # Cardinality(K)
    <3>. HIDE DEF below
    <3>. QED BY <1>1, <2>1, FS_Subset
  <2>. QED BY <1>1, <1>2, <2>2
<1>5. f \in Injection(K, R)
  <2>1. f \in [K -> R]
    BY <1>4
  <2>2. ASSUME NEW i \in K, NEW j \in K, f[i] = f[j] PROVE i = j
    <3>1. ~(i < j) /\ ~(j < i)
      BY <1>2, <1>3, <2>2
    <3>. QED BY <3>1
  <2>. QED BY <2>1, <2>2 DEF Injection, IsInjective
<1>6. IsFiniteSet(R) /\ Cardinality(R) = Cardinality(K)
  <2>. DEFINE k == Cardinality(K)
  <2>1. k \in Nat
    BY <1>1
  <2>. HIDE DEF k
  <2>2. 0 \in Int /\ k - 1 \in Int
    BY <2>1
  <2>3. IsFiniteSet(0..(k - 1)) /\ Cardinality(0..(k - 1)) = IF 0 > k - 1 THEN 0 ELSE (k - 1) - 0 + 1
    BY <2>2, FS_Interval
  <2>4. Cardinality(0..(k - 1)) = k
    BY <2>1, <2>3
  <2>. QED BY <2>3, <2>4 DEF k
<1>7. f \in Surjection(K, R)
  <2>. HIDE DEF f, R
  <2>. QED BY <1>5, <1>6, FS_Injection
<1>8. \A m \in R : \E i \in K : Cardinality(below(i)) = m
  BY <1>7 DEF Surjection
<1>. QED BY <1>3, <1>4, <1>8

(* Cleared keeps the other elements, in their order. *)
LEMMA ClearedProperties ==
    ASSUME NEW S, NEW q \in Seq(S), NEW gone
    PROVE  /\ Cleared(q, gone) \in Seq(S)
           /\ \E at \in [1..Len(Cleared(q, gone)) -> (1..Len(q)) \ gone] :
                 /\ \A m \in 1..Len(Cleared(q, gone)) : Cleared(q, gone)[m] = q[at[m]]
                 /\ \A m, k \in 1..Len(Cleared(q, gone)) : m < k => at[m] < at[k]
                 /\ \A i \in (1..Len(q)) \ gone :
                       \E m \in 1..Len(Cleared(q, gone)) : at[m] = i
<1>. DEFINE K == (1..Len(q)) \ gone
            rank(i) == Cardinality({j \in K : j < i})
            N == Cardinality(K)
            at == [m \in 1..N |-> CHOOSE i \in K : rank(i) = m - 1]
<1>1. DOMAIN q = 1..Len(q) /\ Len(q) \in Nat /\ \A i \in 1..Len(q) : q[i] \in S
  OBVIOUS
<1>2. K \in SUBSET (1..Len(q)) /\ N \in Nat /\ \A i \in K : i \in Nat
  <2>1. K \in SUBSET (1..Len(q)) /\ \A i \in K : i \in Nat
    OBVIOUS
  <2>. QED BY <1>1, <2>1, IntervalSubset
<1>3. /\ \A i, j \in K : i < j => rank(i) < rank(j)
      /\ \A i \in K : rank(i) \in 0..(N - 1)
      /\ \A m \in 0..(N - 1) : \E i \in K : rank(i) = m
  <2>. HIDE DEF K
  <2>. QED BY <1>1, <1>2, Ranks
<1>4. Cleared(q, gone) = [m \in 1..N |-> q[CHOOSE i \in K : rank(i) = m - 1]]
  BY <1>1 DEF Cleared
<1>. HIDE DEF K, rank, N
<1>5. ASSUME NEW m \in 1..N PROVE at[m] \in K /\ rank(at[m]) = m - 1
  <2>1. m - 1 \in 0..(N - 1)
    BY <1>2
  <2>2. \E i \in K : rank(i) = m - 1
    BY <1>3, <2>1
  <2>. QED BY <2>2
<1>6. at \in [1..N -> K] /\ \A m \in 1..N : Cleared(q, gone)[m] = q[at[m]]
  BY <1>4, <1>5
<1>. HIDE DEF at
<1>7. Cleared(q, gone) \in Seq(S) /\ Len(Cleared(q, gone)) = N
  <2>1. \A m \in 1..N : q[at[m]] \in S
    BY <1>1, <1>2, <1>6
  <2>2. Cleared(q, gone) \in [1..N -> S]
    BY <1>4, <1>6, <2>1
  <2>. QED BY <1>2, <2>2, IsASeq, LenProperties
<1>8. ASSUME NEW m \in 1..N, NEW k \in 1..N, m < k PROVE at[m] < at[k]
  <2>1. at[m] \in K /\ at[k] \in K /\ at[m] \in Nat /\ at[k] \in Nat
    BY <1>2, <1>6
  <2>2. ~(rank(at[k]) < rank(at[m])) /\ rank(at[m]) # rank(at[k])
    BY <1>5, <1>8, <1>2
  <2>3. ~(at[k] < at[m]) /\ at[k] # at[m]
    BY <1>3, <2>1, <2>2
  <2>. QED BY <2>1, <2>3
<1>9. ASSUME NEW i \in K PROVE \E m \in 1..N : at[m] = i
  <2>1. rank(i) \in 0..(N - 1)
    BY <1>3
  <2>. DEFINE m == rank(i) + 1
  <2>2. m \in 1..N /\ m - 1 = rank(i)
    BY <1>2, <2>1
  <2>3. rank(at[m]) = rank(i) /\ at[m] \in K
    BY <1>5, <2>2
  <2>4. at[m] \in Nat /\ i \in Nat
    BY <1>2, <2>3
  <2>5. ~(at[m] < i) /\ ~(i < at[m])
    <3>1. \A a, b \in K : a < b => rank(a) # rank(b)
      <4>1. \A a \in K : rank(a) \in Int
        BY <1>2, <1>3
      <4>. QED BY <1>3, <4>1
    <3>. QED BY <2>3, <3>1
  <2>. QED BY <2>2, <2>4, <2>5
<1>. QED BY <1>6, <1>7, <1>8, <1>9 DEF K

-----------------------------------------------------------------------------
(* The inductive invariant, of states as records: first the calls and the  *)
(* tasks of the loop, then the provider's tokens, then the quotas.         *)

ReaderStates == {"waiting", "assigned", "chunk", "end", "error"}
Answered == {"chunk", "end", "error"}

Completions == [kind : {"none", "output", "error", "failure"}, binary : 0..1,
                grants : SUBSET Tokens]
Deliveries == [sequence : Nat, reader : Nat, binary : 0..1, grants : SUBSET Tokens]

CallRecords ==
    [id : Ids \cup {"none"}, mode : {"result", "stream"},
     state : {"unused", "active", "settled"}, input : 0..1,
     completion : Completions, deliveries : SUBSET Deliveries,
     nextSequence : Nat, credits : Nat, readers : Seq(ReaderStates),
     registered : BOOLEAN, deadline : BOOLEAN, cancelIssued : BOOLEAN,
     closedTokens : SUBSET Tokens, todo : SUBSET Tokens,
     outcome : {"none", "result", "end", "error", "failure"}]

ResourceRecords ==
    [status : {"none", "reserved", "open", "closed"}, call : 0..MaxCalls,
     revokeQueued : BOOLEAN]

Tasks == [kind : {"terminal", "chunk", "revoke"}, call : Calls, arg : Nat]

Bridges ==
    [calls : [Calls -> CallRecords], resources : [Tokens -> ResourceRecords],
     byToken : SUBSET Tokens, inFlight : Int, openHandles : Int, openResources : Int,
     credits : Int, queue : Seq(Tasks), stack : Seq(0..MaxCalls),
     held : [Tokens -> -2..MaxCalls], strayClose : BOOLEAN]

(* A call is used from its admission on. *)
Numbered(s, next) ==
    /\ next \in Nat \ {0}
    /\ \A c \in Calls : c >= next => s.calls[c].state = "unused"

(* A call that is not pending is over for all its readers. *)
Over(call) ==
    /\ call.completion = NoCompletion /\ call.deliveries = {} /\ call.credits = 0
    /\ ~call.registered /\ ~call.deadline
    /\ \A i \in 1..Len(call.readers) : call.readers[i] \in Answered
    /\ call.outcome = "failure" => call.cancelIssued

(* The readers of a pending stream are answered in order: first those that *)
(* have their chunk, then those whose chunk is queued, then those that wait*)
(* for one, each with a credit unless the end of the stream is known.      *)
AnswersInOrder(call) ==
    /\ call.mode = "result" => call.readers = <<>>
    /\ call.nextSequence <= Len(call.readers)
    /\ \A i \in 1..Len(call.readers) :
           /\ call.readers[i] = "waiting" <=> call.nextSequence < i
           /\ call.readers[i] = "assigned" => \E d \in call.deliveries : d.sequence = i - 1
           /\ \A j \in 1..Len(call.readers) :
                  i < j /\ call.readers[i] = "assigned" =>
                      call.readers[j] \in {"assigned", "waiting"}
           /\ call.readers[i] # "end"
    /\ \A d \in call.deliveries :
           /\ d.sequence < call.nextSequence /\ d.reader = d.sequence + 1
           /\ call.readers[d.reader] = "assigned"
           /\ \A e \in call.deliveries : d.sequence = e.sequence => d = e
    /\ Len(call.readers) <= MaxReads

StreamInOrder(call) ==
    /\ AnswersInOrder(call)
    /\ IF call.completion = NoCompletion
       THEN call.credits = Len(call.readers) - call.nextSequence
       ELSE call.credits = 0

CompletionOk(completion) ==
    completion.kind # "output" => completion.binary = 0 /\ completion.grants = {}

CallOk(call) ==
    /\ CompletionOk(call.completion)
    /\ call.completion.kind = "none" => call.completion = NoCompletion
    /\ call.state = "unused" => call.readers = <<>>
    /\ call.state # "active" => Over(call)
    /\ call.state = "active" => StreamInOrder(call)

(* The tasks of a call are its queued chunks, in order, and then its       *)
(* terminal, once no handler is left that will queue it.                   *)
TaskOk(s, task) ==
    /\ task.kind = "terminal" =>
           /\ task.arg = 0
           /\ s.calls[task.call].state = "active"
           /\ s.calls[task.call].completion # NoCompletion
           /\ s.calls[task.call].completion.kind = "failure" =>
                 s.calls[task.call].cancelIssued
           /\ ~OnStack(s, task.call)
    /\ task.kind = "chunk" =>
           /\ s.calls[task.call].state = "active"
           /\ \E d \in s.calls[task.call].deliveries : d.sequence = task.arg
    /\ task.kind = "revoke" => task.arg \in Tokens /\ s.held[task.arg] = Revoked

Follows(task, later) ==
    task.call = later.call /\ task.kind # "revoke" /\ later.kind # "revoke" =>
        /\ task.kind = "chunk"
        /\ later.kind = "chunk" => task.arg < later.arg

QueueOk(s) ==
    /\ \A i \in 1..Len(s.queue) : TaskOk(s, s.queue[i])
    /\ \A i, j \in 1..Len(s.queue) : i < j => Follows(s.queue[i], s.queue[j])
    /\ \A c \in Calls : \A d \in s.calls[c].deliveries : InQueue(s.queue, Chunk(c, d.sequence))

(* A pending call keeps the loop alive or has its terminal under way. *)
Awaited(s) ==
    \A c \in Calls : s.calls[c].state = "active" =>
        /\ s.calls[c].completion = NoCompletion => s.calls[c].registered
        /\ s.calls[c].completion # NoCompletion =>
               InQueue(s.queue, Terminal(c)) \/ OnStack(s, c)

StackOk(s) ==
    /\ \A c \in Calls : OnStack(s, c) =>
           /\ s.calls[c].state # "unused"
           /\ s.calls[c].state = "active" => s.calls[c].completion # NoCompletion
    /\ \A i, j \in 1..Len(s.stack) : s.stack[i] = s.stack[j] => i = j

ControlOk(s) ==
    /\ \A c \in Calls : CallOk(s.calls[c])
    /\ QueueOk(s) /\ Awaited(s) /\ StackOk(s)

(* What call c has in hand besides its queued grants: nothing between two  *)
(* handlers, the grants H within one.                                      *)
InHand(d, c, H) == IF d = c THEN H ELSE {}

HeldFor(s, t, c) ==
    s.held[t] = c \/ (s.held[t] = Revoked /\ ~s.resources[t].revokeQueued)

TokenOk(s, t, c, H) ==
    LET r == s.resources[t]
    IN /\ s.held[t] = Fresh => r = NoResource
       /\ r.revokeQueued => s.held[t] = Revoked
       /\ t \in s.byToken <=> r.status \in {"reserved", "open"}
       /\ t \in s.byToken => r.call \in Calls /\ (r.revokeQueued \/ s.held[t] = r.call)
       /\ s.held[t] \in Calls =>
              \/ t \in s.byToken
              \/ t \in s.calls[s.held[t]].todo
              \/ Cardinality(s.calls[s.held[t]].closedTokens) >= HardCap
       /\ r.status = "reserved" =>
              t \in QueuedGrants(s.calls[r.call]) \cup InHand(r.call, c, H)

GrantsOk(s, d, H) ==
    /\ \A t \in QueuedGrants(s.calls[d]) \cup H :
           s.resources[t].call = d /\ s.resources[t].status \in {"reserved", "closed"}
    /\ H \cap QueuedGrants(s.calls[d]) = {}
    /\ \A x \in s.calls[d].deliveries :
           /\ x.grants \cap s.calls[d].completion.grants = {}
           /\ \A y \in s.calls[d].deliveries : x # y => x.grants \cap y.grants = {}

CleanupOk(s, d) ==
    /\ s.calls[d].state = "unused" => s.calls[d].closedTokens = {}
    /\ s.calls[d].todo \subseteq s.calls[d].closedTokens
    /\ \A t \in s.calls[d].closedTokens : t \notin s.byToken /\ s.held[t] # Fresh
    /\ \A t \in s.calls[d].todo : HeldFor(s, t, d)

TokensOk(s, c, H) ==
    /\ ~s.strayClose
    /\ \A t \in Tokens : TokenOk(s, t, c, H)
    /\ \A d \in Calls : GrantsOk(s, d, InHand(d, c, H)) /\ CleanupOk(s, d)

(* The counters are what the pending calls and their resources retain. *)
Active(s) == {c \in Calls : s.calls[c].state = "active"}
Inputs(s) == {c \in Active(s) : s.calls[c].input = 1}
Outputs(s) == {c \in Active(s) : s.calls[c].completion.binary = 1}
Chunks(s) == {x \in Active(s) \X (0..MaxReads) :
                 \E d \in s.calls[x[1]].deliveries : d.sequence = x[2] /\ d.binary = 1}
Streams(s) == {c \in Active(s) : s.calls[c].mode = "stream"}
Credits(s) == {x \in Active(s) \X (1..MaxReads) :
                  /\ s.calls[x[1]].completion = NoCompletion
                  /\ x[2] <= Len(s.calls[x[1]].readers)
                  /\ s.calls[x[1]].readers[x[2]] = "waiting"}

Limits(s) ==
    /\ s.inFlight <= MaxInFlight /\ s.openHandles <= MaxHandles
    /\ s.openResources <= MaxOpenResources /\ s.credits <= MaxOutstandingCredits

QuotaOk(s) ==
    /\ s.inFlight = Cardinality(Inputs(s)) + Cardinality(Outputs(s)) + Cardinality(Chunks(s))
    /\ s.openResources = Cardinality(s.byToken)
    /\ s.openHandles = s.inFlight + Cardinality(Streams(s)) + s.openResources
    /\ s.credits = Cardinality(Credits(s))
    /\ Limits(s)

(* A disposed bridge holds nothing, once terminateBridge has returned. *)
DisposedOk ==
    /\ OnStack(State, Termination) => disposed
    /\ disposed /\ ~OnStack(State, Termination) =>
           Pending = {} /\ byToken = {} /\ queue = <<>>

IInv ==
    /\ State \in Bridges /\ nextCall \in Nat /\ disposed \in BOOLEAN
    /\ Numbered(State, nextCall)
    /\ ControlOk(State)
    /\ TokensOk(State, 1, {})
    /\ QuotaOk(State)
    /\ DisposedOk

-----------------------------------------------------------------------------
(* What the methods do to each field of a state                            *)

(* The same call but for the cleanup of undelivered resources *)
SameCore(x, y) ==
    /\ x.id = y.id /\ x.mode = y.mode /\ x.state = y.state /\ x.input = y.input
    /\ x.completion = y.completion /\ x.deliveries = y.deliveries
    /\ x.nextSequence = y.nextSequence /\ x.credits = y.credits
    /\ x.readers = y.readers /\ x.registered = y.registered
    /\ x.deadline = y.deadline /\ x.cancelIssued = y.cancelIssued
    /\ x.outcome = y.outcome

(* Token sets are finite. *)
LEMMA TokensFinite ==
    ASSUME NEW T \in SUBSET Tokens
    PROVE  IsFiniteSet(T) /\ Cardinality(T) \in Nat
BY IntervalSubset, LimitAssumption DEF Tokens

(* What the assumptions say of the constants *)
LEMMA Constants ==
    /\ MaxCalls \in Nat /\ MaxTokens \in Nat /\ MaxReads \in Nat
    /\ HardCap \in Nat \ {0}
    /\ MaxInFlight \in Nat /\ MaxHandles \in Nat /\ MaxOpenResources \in Nat
    /\ MaxCreditsPerStream \in Nat /\ MaxOutstandingCredits \in Nat
    /\ Modes \subseteq {"result", "stream"} /\ Binaries \subseteq 0..1
    /\ Deadlines \subseteq BOOLEAN
    /\ \A c \in Calls : c \in 0..MaxCalls /\ c \in -2..MaxCalls /\ c \in Int
                        /\ c # Termination /\ c # Fresh /\ c # Closed /\ c # Revoked
    /\ \A t \in Tokens : t \in Nat
BY LimitAssumption DEF HardCap, Calls, Tokens, Termination, Fresh, Closed, Revoked

(* Drop, field by field *)
LEMMA DropFields ==
    ASSUME NEW s \in Bridges, NEW T \in SUBSET Tokens
    PROVE  LET r == Drop(s, T, "closed")
           IN /\ r \in Bridges
              /\ r.calls = s.calls /\ r.queue = s.queue /\ r.stack = s.stack
              /\ r.held = s.held /\ r.strayClose = s.strayClose
              /\ r.inFlight = s.inFlight /\ r.credits = s.credits
              /\ r.byToken = s.byToken \ T
              /\ r.openHandles = s.openHandles - Cardinality(T)
              /\ r.openResources = s.openResources - Cardinality(T)
              /\ \A t \in Tokens :
                    /\ r.resources[t].call = s.resources[t].call
                    /\ r.resources[t].revokeQueued = s.resources[t].revokeQueued
                    /\ r.resources[t].status = IF t \in T THEN "closed"
                                               ELSE s.resources[t].status
<1>. DEFINE f == [t \in Tokens |-> IF t \in T THEN [s.resources[t] EXCEPT !.status = "closed"]
                                   ELSE s.resources[t]]
            n == Cardinality(T)
<1>1. n \in Nat
  BY TokensFinite
<1>2. f \in [Tokens -> ResourceRecords]
  BY DEF Bridges, ResourceRecords
<1>3. \A t \in Tokens :
        /\ f[t].call = s.resources[t].call
        /\ f[t].revokeQueued = s.resources[t].revokeQueued
        /\ f[t].status = IF t \in T THEN "closed" ELSE s.resources[t].status
  BY DEF Bridges, ResourceRecords
<1>. DEFINE r == [s EXCEPT !.resources = f, !.byToken = @ \ T,
                           !.openHandles = @ - n, !.openResources = @ - n]
<1>4. Drop(s, T, "closed") = r /\ Cardinality(T) = n
  BY DEF Drop
<1>. HIDE DEF f, n
<1>5. r \in Bridges
  <2>1. /\ s.openHandles - n \in Int /\ s.openResources - n \in Int
        /\ s.byToken \ T \in SUBSET Tokens
    BY <1>1 DEF Bridges
  <2>2. r = [s EXCEPT !.resources = f, !.byToken = s.byToken \ T,
                      !.openHandles = s.openHandles - n,
                      !.openResources = s.openResources - n]
    BY DEF Bridges
  <2>. QED BY <1>2, <2>1, <2>2 DEF Bridges
<1>6. /\ r.calls = s.calls /\ r.queue = s.queue /\ r.stack = s.stack
      /\ r.held = s.held /\ r.strayClose = s.strayClose
      /\ r.inFlight = s.inFlight /\ r.credits = s.credits
      /\ r.byToken = s.byToken \ T /\ r.openHandles = s.openHandles - n
      /\ r.openResources = s.openResources - n /\ r.resources = f
  BY DEF Bridges
<1>. HIDE DEF r
<1>. QED BY <1>3, <1>4, <1>5, <1>6

(* CloseProviderResource, field by field; no close is stray when the       *)
(* provider holds what is closed for this call.                            *)
LEMMA CloseProviderFields ==
    ASSUME NEW s \in Bridges, NEW c \in Calls, NEW T \in SUBSET Tokens
    PROVE  LET r == CloseProviderResource(s, c, T)
           IN /\ r \in Bridges
              /\ r.calls = s.calls /\ r.queue = s.queue /\ r.stack = s.stack
              /\ r.resources = s.resources /\ r.byToken = s.byToken
              /\ r.inFlight = s.inFlight /\ r.credits = s.credits
              /\ r.openHandles = s.openHandles /\ r.openResources = s.openResources
              /\ \A t \in Tokens :
                    r.held[t] = IF t \in T /\ s.held[t] = c THEN Closed ELSE s.held[t]
              /\ (\A t \in T : HeldFor(s, t, c)) => r.strayClose = s.strayClose
<1>. DEFINE f == [t \in Tokens |-> IF t \in T /\ s.held[t] = c THEN Closed ELSE s.held[t]]
            stray == s.strayClose \/ \E t \in T :
                         /\ s.held[t] # c
                         /\ s.held[t] = Revoked => s.resources[t].revokeQueued
<1>1. f \in [Tokens -> -2..MaxCalls]
  BY Constants DEF Bridges, Closed
<1>2. stray \in BOOLEAN /\ s.strayClose \in BOOLEAN
  BY DEF Bridges
<1>3. (\A t \in T : HeldFor(s, t, c)) => stray = s.strayClose
  BY <1>2 DEF HeldFor
<1>4. CloseProviderResource(s, c, T) = [s EXCEPT !.held = f, !.strayClose = stray]
  BY DEF CloseProviderResource, Bridges
<1>5. \A t \in Tokens : f[t] = IF t \in T /\ s.held[t] = c THEN Closed ELSE s.held[t]
  OBVIOUS
<1>. HIDE DEF f, stray
<1>. QED BY <1>1, <1>2, <1>3, <1>4, <1>5 DEF Bridges

(* The state with another record of a call *)
WithCall(s, c, x) == [s EXCEPT !.calls[c] = x]

(* A state with one call replaced, field by field *)
LEMMA CallFields ==
    ASSUME NEW s \in Bridges, NEW c \in Calls, NEW x \in CallRecords
    PROVE  LET r == WithCall(s, c, x)
           IN /\ r \in Bridges
              /\ r.queue = s.queue /\ r.stack = s.stack
              /\ r.held = s.held /\ r.strayClose = s.strayClose
              /\ r.resources = s.resources /\ r.byToken = s.byToken
              /\ r.inFlight = s.inFlight /\ r.credits = s.credits
              /\ r.openHandles = s.openHandles /\ r.openResources = s.openResources
              /\ r.calls[c] = x
              /\ \A d \in Calls : d # c => r.calls[d] = s.calls[d]
<1>. DEFINE f == [s.calls EXCEPT ![c] = x]
<1>1. WithCall(s, c, x) = [s EXCEPT !.calls = f]
  BY DEF Bridges, WithCall
<1>2. f \in [Calls -> CallRecords] /\ f[c] = x /\ \A d \in Calls : d # c => f[d] = s.calls[d]
  BY DEF Bridges
<1>. HIDE DEF f
<1>. QED BY <1>1, <1>2 DEF Bridges

(* The cleanup sets of a call are apart from the rest of it. *)
Cleaned(y, A, B) == [y EXCEPT !.closedTokens = A, !.todo = B]

(* A call whose cleanup moved on is the same call otherwise. *)
LEMMA CleanupCore ==
    ASSUME NEW y \in CallRecords, NEW A \in SUBSET Tokens, NEW B \in SUBSET Tokens
    PROVE  LET x == Cleaned(y, A, B)
           IN x \in CallRecords /\ SameCore(x, y) /\ x.closedTokens = A /\ x.todo = B
BY DEF CallRecords, SameCore, Cleaned

(* Adding to the cleanup sets of a call *)
Closing(y, N) == [y EXCEPT !.closedTokens = @ \cup N]
Queueing(y, N) == [y EXCEPT !.todo = @ \cup N]

(* The two ways in which closeUndeliveredGrants enters tokens in the       *)
(* cleanup of a call                                                       *)
LEMMA CleanupRecord ==
    ASSUME NEW y \in CallRecords, NEW N \in SUBSET Tokens
    PROVE  /\ Closing(y, N) = Cleaned(y, y.closedTokens \cup N, y.todo)
           /\ Queueing(Closing(y, N), N) = Cleaned(y, y.closedTokens \cup N, y.todo \cup N)
BY DEF CallRecords, Closing, Queueing, Cleaned

(* A record written twice *)
LEMMA CallTwice ==
    ASSUME NEW s \in Bridges, NEW c \in Calls, NEW y, NEW z
    PROVE  /\ WithCall(s, c, y).calls[c] = y
           /\ WithCall(WithCall(s, c, y), c, z) = WithCall(s, c, z)
BY DEF WithCall, Bridges

(* The tokens of T that closeUndeliveredGrants takes, and those it closes *)
Mine(s, c, T) == {t \in T : t \in s.byToken => s.resources[t].call = c}
New(s, c, T) == Admitted(s.calls[c].closedTokens, Mine(s, c, T))

(* The tokens N, taken for call c, are closed at once, or put in its queue. *)
ClosesUp(r, s, c, N) ==
    /\ \A d \in Calls : SameCore(r.calls[d], s.calls[d])
    /\ \A d \in Calls : d # c => r.calls[d] = s.calls[d]
    /\ r.calls[c].closedTokens = s.calls[c].closedTokens \cup N
    /\ r.calls[c].todo = IF OnStack(s, c) THEN s.calls[c].todo \cup N ELSE s.calls[c].todo
    /\ \A t \in Tokens :
          r.held[t] = IF ~OnStack(s, c) /\ t \in N /\ s.held[t] = c THEN Closed ELSE s.held[t]
    /\ (\A t \in N : HeldFor(s, t, c)) => r.strayClose = s.strayClose

(* The resources T leave the bridge, n binaries and h other handles with   *)
(* them.                                                                   *)
Leaves(r, s, T, n, h) ==
    /\ r.byToken = s.byToken \ T
    /\ r.inFlight = s.inFlight - n
    /\ r.openHandles = s.openHandles - Cardinality(T) - n - h
    /\ r.openResources = s.openResources - Cardinality(T)
    /\ \A t \in Tokens :
          /\ r.resources[t].call = s.resources[t].call
          /\ r.resources[t].revokeQueued = s.resources[t].revokeQueued
          /\ r.resources[t].status = IF t \in T THEN "closed" ELSE s.resources[t].status

(* CloseUndeliveredGrants, field by field *)
LEMMA CloseUndeliveredFields ==
    ASSUME NEW s \in Bridges, NEW c \in Calls, NEW T \in SUBSET Tokens
    PROVE  LET r == CloseUndeliveredGrants(s, c, T)
           IN /\ r \in Bridges
              /\ r.queue = s.queue /\ r.stack = s.stack /\ r.credits = s.credits
              /\ Leaves(r, s, Mine(s, c, T) \cap s.byToken, 0, 0)
              /\ ClosesUp(r, s, c, New(s, c, T))
<1>. DEFINE A == s.calls[c].closedTokens \cup New(s, c, T)
            dropped == Mine(s, c, T) \cap s.byToken
            s0 == Drop(s, dropped, "closed")
<1>1. /\ Mine(s, c, T) \in SUBSET Tokens /\ New(s, c, T) \in SUBSET Tokens
      /\ s.calls[c].closedTokens \in SUBSET Tokens /\ s.calls[c].todo \in SUBSET Tokens
      /\ dropped \in SUBSET Tokens
  BY DEF Bridges, CallRecords, Mine, New, Admitted
<1>2. /\ s0 \in Bridges
      /\ s0.calls = s.calls /\ s0.queue = s.queue /\ s0.stack = s.stack
      /\ s0.held = s.held /\ s0.strayClose = s.strayClose
      /\ s0.inFlight = s.inFlight /\ s0.credits = s.credits
      /\ s0.byToken = s.byToken \ (dropped)
      /\ s0.openHandles = s.openHandles - Cardinality(dropped)
      /\ s0.openResources = s.openResources - Cardinality(dropped)
      /\ \A t \in Tokens :
            /\ s0.resources[t].call = s.resources[t].call
            /\ s0.resources[t].revokeQueued = s.resources[t].revokeQueued
            /\ s0.resources[t].status = IF t \in dropped THEN "closed"
                                        ELSE s.resources[t].status
  <2>. HIDE DEF dropped
  <2>. QED BY <1>1, DropFields
<1>3. CloseUndeliveredGrants(s, c, T) =
        IF OnStack(s, c)
        THEN [[s0 EXCEPT !.calls[c].closedTokens = @ \cup New(s, c, T)]
                 EXCEPT !.calls[c].todo = @ \cup New(s, c, T)]
        ELSE CloseProviderResource([s0 EXCEPT !.calls[c].closedTokens = @ \cup New(s, c, T)],
                                   c, New(s, c, T))
  BY DEF CloseUndeliveredGrants, Mine, New
<1>. HIDE DEF s0, dropped
<1>. DEFINE B == IF OnStack(s, c) THEN s.calls[c].todo \cup New(s, c, T)
                 ELSE s.calls[c].todo
            x == Cleaned(s.calls[c], A, B)
            q == WithCall(s0, c, x)
<1>4. x \in CallRecords /\ SameCore(x, s.calls[c]) /\ x.closedTokens = A /\ x.todo = B
  <2>1. A \in SUBSET Tokens /\ B \in SUBSET Tokens /\ s.calls[c] \in CallRecords
    BY <1>1 DEF Bridges
  <2>. HIDE DEF A, B
  <2>. QED BY <2>1, CleanupCore
<1>5. CloseUndeliveredGrants(s, c, T) =
        IF OnStack(s, c) THEN q ELSE CloseProviderResource(q, c, New(s, c, T))
  <2>. DEFINE N == New(s, c, T)
              y == Closing(s0.calls[c], N)
              z == Queueing(y, N)
  <2>1. s.calls[c] \in CallRecords /\ s0.calls = s.calls /\ N \in SUBSET Tokens
    BY <1>1, <1>2 DEF Bridges
  <2>2. /\ [s0 EXCEPT !.calls[c].closedTokens = @ \cup N] = WithCall(s0, c, y)
        /\ [WithCall(s0, c, y) EXCEPT !.calls[c].todo = @ \cup N] = WithCall(s0, c, z)
    <3>1. [s0 EXCEPT !.calls[c].closedTokens = @ \cup N] = WithCall(s0, c, y)
      BY DEF WithCall, Closing
    <3>. DEFINE v == WithCall(s0, c, y)
    <3>2. [v EXCEPT !.calls[c].todo = @ \cup N] = WithCall(v, c, Queueing(v.calls[c], N))
      BY DEF WithCall, Queueing
    <3>. HIDE DEF N, y
    <3>3. v.calls[c] = y /\ WithCall(v, c, z) = WithCall(s0, c, z)
      BY <1>2, CallTwice
    <3>. QED BY <3>1, <3>2, <3>3
  <2>3. /\ y = Cleaned(s.calls[c], s.calls[c].closedTokens \cup N, s.calls[c].todo)
        /\ z = Cleaned(s.calls[c], s.calls[c].closedTokens \cup N, s.calls[c].todo \cup N)
    <3>. HIDE DEF N
    <3>. QED BY <2>1, CleanupRecord
  <2>4. IF OnStack(s, c) THEN z = x ELSE y = x
    BY <2>3
  <2>. HIDE DEF x, y, z
  <2>5. IF OnStack(s, c) THEN WithCall(s0, c, z) = q ELSE WithCall(s0, c, y) = q
    BY <2>4
  <2>6. CloseUndeliveredGrants(s, c, T) =
          IF OnStack(s, c) THEN WithCall(s0, c, z)
          ELSE CloseProviderResource(WithCall(s0, c, y), c, N)
    BY <1>3, <2>2 DEF N
  <2>. HIDE DEF q
  <2>. QED BY <2>5, <2>6 DEF N
<1>. HIDE DEF x
<1>6. /\ q \in Bridges
      /\ q.queue = s0.queue /\ q.stack = s0.stack
      /\ q.held = s0.held /\ q.strayClose = s0.strayClose
      /\ q.resources = s0.resources /\ q.byToken = s0.byToken
      /\ q.inFlight = s0.inFlight /\ q.credits = s0.credits
      /\ q.openHandles = s0.openHandles /\ q.openResources = s0.openResources
      /\ q.calls[c] = x
      /\ \A d \in Calls : d # c => q.calls[d] = s0.calls[d]
  BY <1>2, <1>4, CallFields
<1>. HIDE DEF q
<1>. DEFINE r == CloseUndeliveredGrants(s, c, T)
            u == CloseProviderResource(q, c, New(s, c, T))
<1>7. /\ u \in Bridges
      /\ u.calls = q.calls /\ u.queue = q.queue /\ u.stack = q.stack
      /\ u.resources = q.resources /\ u.byToken = q.byToken
      /\ u.inFlight = q.inFlight /\ u.credits = q.credits
      /\ u.openHandles = q.openHandles /\ u.openResources = q.openResources
      /\ \A t \in Tokens :
            u.held[t] = IF t \in New(s, c, T) /\ q.held[t] = c THEN Closed ELSE q.held[t]
      /\ (\A t \in New(s, c, T) : HeldFor(q, t, c)) => u.strayClose = q.strayClose
  BY <1>1, <1>6, CloseProviderFields
<1>. HIDE DEF u
<1>8. /\ r \in Bridges
      /\ r.calls = q.calls /\ r.queue = q.queue /\ r.stack = q.stack
      /\ r.resources = q.resources /\ r.byToken = q.byToken
      /\ r.inFlight = q.inFlight /\ r.credits = q.credits
      /\ r.openHandles = q.openHandles /\ r.openResources = q.openResources
  BY <1>5, <1>6, <1>7 DEF u
<1>9. \A t \in Tokens :
          r.held[t] = IF ~OnStack(s, c) /\ t \in New(s, c, T) /\ s.held[t] = c
                      THEN Closed ELSE s.held[t]
  BY <1>2, <1>5, <1>6, <1>7 DEF u
<1>10. (\A t \in New(s, c, T) : HeldFor(s, t, c)) => r.strayClose = s.strayClose
  <2>1. \A t \in New(s, c, T) : HeldFor(s, t, c) => HeldFor(q, t, c)
    BY <1>1, <1>2, <1>6 DEF HeldFor
  <2>. QED BY <1>2, <1>5, <1>6, <1>7, <2>1 DEF u
<1>. HIDE DEF r
<1>11. /\ r.queue = s.queue /\ r.stack = s.stack
       /\ r.inFlight = s.inFlight /\ r.credits = s.credits
       /\ r.byToken = s.byToken \ dropped
       /\ r.openHandles = s.openHandles - Cardinality(dropped)
       /\ r.openResources = s.openResources - Cardinality(dropped)
  BY <1>2, <1>6, <1>8
<1>12. \A t \in Tokens :
          /\ r.resources[t].call = s.resources[t].call
          /\ r.resources[t].revokeQueued = s.resources[t].revokeQueued
          /\ r.resources[t].status = IF t \in dropped THEN "closed"
                                     ELSE s.resources[t].status
  BY <1>2, <1>6, <1>8
<1>13. /\ \A d \in Calls : d # c => r.calls[d] = s.calls[d]
       /\ r.calls[c] = x
  BY <1>2, <1>6, <1>8
<1>14. \A d \in Calls : SameCore(r.calls[d], s.calls[d])
  <2>1. \A y : SameCore(y, y)
    BY DEF SameCore
  <2>. QED BY <1>4, <1>13, <2>1
<1>15. /\ r.calls[c].closedTokens = A /\ r.calls[c].todo = B
  BY <1>4, <1>13
<1>16. ClosesUp(r, s, c, New(s, c, T))
  <2>. HIDE DEF x
  <2>. QED BY <1>9, <1>10, <1>13, <1>14, <1>15 DEF ClosesUp
<1>17. Cardinality(dropped) \in Nat /\ s.inFlight \in Int /\ s.openHandles \in Int
  BY <1>1, TokensFinite DEF Bridges
<1>18. Leaves(r, s, dropped, 0, 0)
  <2>. HIDE DEF dropped
  <2>. QED BY <1>11, <1>12, <1>17 DEF Leaves
<1>. QED BY <1>8, <1>11, <1>16, <1>18 DEF dropped, r

(* What a release of grants takes from the bridge, and gives back          *)
Lost(s, G) == {t \in G : s.resources[t].status = "reserved"}
GivenBack(s, c, G) ==
    Admitted(s.calls[c].closedTokens, {t \in Lost(s, G) : ~s.resources[t].revokeQueued})

(* ReleaseOutput, field by field *)
LEMMA ReleaseFields ==
    ASSUME NEW s \in Bridges, NEW c \in Calls, NEW G \in SUBSET Tokens, NEW n \in Int
    PROVE  LET r == ReleaseOutput(s, c, G, n)
           IN /\ r \in Bridges
              /\ r.queue = s.queue /\ r.stack = s.stack /\ r.credits = s.credits
              /\ Leaves(r, s, Lost(s, G), n, 0)
              /\ ClosesUp(r, s, c, GivenBack(s, c, G))
<1>. DEFINE lost == {t \in G : s.resources[t].status = "reserved"}
            back == {t \in lost : ~s.resources[t].revokeQueued}
            s0 == Drop(s, lost, "closed")
            s1 == [s0 EXCEPT !.inFlight = @ - n, !.openHandles = @ - n]
            r == CloseUndeliveredGrants(s1, c, back)
<1>1. lost \in SUBSET Tokens /\ back \in SUBSET Tokens /\ back \subseteq lost
  OBVIOUS
<1>2. Cardinality(lost) \in Nat
  BY TokensFinite
<1>3. ReleaseOutput(s, c, G, n) = r
  BY DEF ReleaseOutput
<1>. HIDE DEF lost, back
<1>4. s0 \in Bridges /\ s0.calls = s.calls /\ s0.queue = s.queue /\ s0.stack = s.stack
      /\ s0.held = s.held /\ s0.strayClose = s.strayClose
      /\ s0.inFlight = s.inFlight /\ s0.credits = s.credits
      /\ s0.byToken = s.byToken \ lost
      /\ s0.openHandles = s.openHandles - Cardinality(lost)
      /\ s0.openResources = s.openResources - Cardinality(lost)
      /\ \A t \in Tokens :
            /\ s0.resources[t].call = s.resources[t].call
            /\ s0.resources[t].revokeQueued = s.resources[t].revokeQueued
            /\ s0.resources[t].status = IF t \in lost THEN "closed" ELSE s.resources[t].status
  BY <1>1, DropFields
<1>. HIDE DEF s0
<1>5. s1 \in Bridges /\ s1.calls = s.calls /\ s1.queue = s.queue /\ s1.stack = s.stack
      /\ s1.held = s.held /\ s1.strayClose = s.strayClose
      /\ s1.inFlight = s.inFlight - n /\ s1.credits = s.credits
      /\ s1.byToken = s.byToken \ lost
      /\ s1.openHandles = s.openHandles - Cardinality(lost) - n
      /\ s1.openResources = s.openResources - Cardinality(lost)
      /\ s1.resources = s0.resources
  <2>1. s1 \in Bridges
    <3>1. s0.inFlight - n \in Int /\ s0.openHandles - n \in Int
      BY <1>4 DEF Bridges
    <3>. QED BY <1>4, <3>1 DEF Bridges
  <2>2. /\ s1.calls = s0.calls /\ s1.queue = s0.queue /\ s1.stack = s0.stack
        /\ s1.held = s0.held /\ s1.strayClose = s0.strayClose /\ s1.credits = s0.credits
        /\ s1.byToken = s0.byToken /\ s1.resources = s0.resources
        /\ s1.openResources = s0.openResources
        /\ s1.inFlight = s0.inFlight - n /\ s1.openHandles = s0.openHandles - n
    BY <1>4 DEF Bridges
  <2>. HIDE DEF s1
  <2>. QED BY <1>4, <2>1, <2>2
<1>. HIDE DEF s1
<1>6. Mine(s1, c, back) = back /\ back \cap s1.byToken = {}
  BY <1>1, <1>5 DEF Mine
<1>7. /\ r \in Bridges
      /\ r.queue = s1.queue /\ r.stack = s1.stack /\ r.credits = s1.credits
      /\ Leaves(r, s1, back \cap s1.byToken, 0, 0)
      /\ ClosesUp(r, s1, c, Admitted(s1.calls[c].closedTokens, back))
  BY <1>1, <1>5, <1>6, CloseUndeliveredFields DEF New
<1>. HIDE DEF r
<1>8. Leaves(r, s, lost, n, 0)
  <2>1. Cardinality(back \cap s1.byToken) = 0
    BY <1>6, FS_EmptySet
  <2>2. Leaves(r, s1, {}, 0, 0) /\ Cardinality({}) = 0
    BY <1>6, <1>7, FS_EmptySet
  <2>3. r.inFlight \in Int /\ r.openHandles \in Int /\ r.openResources \in Int
        /\ s.inFlight \in Int /\ s.openHandles \in Int /\ s.openResources \in Int
    BY <1>7 DEF Bridges
  <2>. QED BY <1>2, <1>4, <1>5, <2>2, <2>3 DEF Leaves
<1>9. ClosesUp(r, s, c, Admitted(s.calls[c].closedTokens, back))
  <2>1. OnStack(s1, c) <=> OnStack(s, c)
    BY <1>5 DEF OnStack
  <2>2. \A t \in back : HeldFor(s, t, c) => HeldFor(s1, t, c)
    BY <1>1, <1>4, <1>5 DEF HeldFor
  <2>3. Admitted(s.calls[c].closedTokens, back) \subseteq back
    BY DEF Admitted
  <2>. QED BY <1>5, <1>7, <2>1, <2>2, <2>3 DEF ClosesUp
<1>10. Lost(s, G) = lost /\ GivenBack(s, c, G) = Admitted(s.calls[c].closedTokens, back)
  BY DEF Lost, GivenBack, lost, back
<1>. QED BY <1>3, <1>5, <1>7, <1>8, <1>9, <1>10

(* Answer changes the readers it is meant for, and no other. *)
LEMMA AnswerProperties ==
    ASSUME NEW q \in Seq(ReaderStates), NEW A, NEW a \in ReaderStates
    PROVE  /\ Answer(q, A, a) \in Seq(ReaderStates)
           /\ Len(Answer(q, A, a)) = Len(q)
           /\ \A i \in 1..Len(q) : Answer(q, A, a)[i] = IF q[i] \in A THEN a ELSE q[i]
<1>1. Len(q) \in Nat /\ \A i \in 1..Len(q) : q[i] \in ReaderStates
  OBVIOUS
<1>2. Answer(q, A, a) \in [1..Len(q) -> ReaderStates]
  BY <1>1 DEF Answer
<1>3. \A i \in 1..Len(q) : Answer(q, A, a)[i] = IF q[i] \in A THEN a ELSE q[i]
  BY DEF Answer
<1>. QED BY <1>1, <1>2, <1>3, IsASeq, LenProperties

(* The record of a call that is settled *)
Errors == {"error", "failure"}
Outcomes == {"result", "end", "error", "failure"}
LastAnswers(call, outcome) ==
    IF outcome \in Errors THEN Answer(call.readers, {"waiting", "assigned"}, "error")
                          ELSE Answer(call.readers, {"waiting"}, "end")
SettledCall(call, outcome) ==
    [call EXCEPT
        !.state = "settled", !.completion = NoCompletion, !.deliveries = {},
        !.credits = 0, !.registered = FALSE, !.deadline = FALSE,
        !.outcome = outcome, !.readers = LastAnswers(call, outcome)]

IsSettled(x, call, outcome) ==
    /\ x.state = "settled" /\ x.completion = NoCompletion /\ x.deliveries = {}
    /\ x.credits = 0 /\ x.registered = FALSE /\ x.deadline = FALSE
    /\ x.outcome = outcome /\ x.readers = LastAnswers(call, outcome)
    /\ x.id = call.id /\ x.mode = call.mode /\ x.input = call.input
    /\ x.nextSequence = call.nextSequence /\ x.cancelIssued = call.cancelIssued

(* The record of a settled call, field by field *)
LEMMA SettledFields ==
    ASSUME NEW y \in CallRecords, NEW outcome \in Outcomes
    PROVE  LET x == SettledCall(y, outcome)
           IN /\ x \in CallRecords /\ IsSettled(x, y, outcome)
              /\ x.closedTokens = y.closedTokens /\ x.todo = y.todo
<1>. DEFINE a == LastAnswers(y, outcome)
<1>1. a \in Seq(ReaderStates)
  BY AnswerProperties DEF CallRecords, LastAnswers, ReaderStates
<1>2. NoCompletion \in Completions /\ outcome \in {"none", "result", "end", "error", "failure"}
  BY DEF NoCompletion, Completions, Outcomes
<1>3. SettledCall(y, outcome) =
        [y EXCEPT
            !.state = "settled", !.completion = NoCompletion, !.deliveries = {},
            !.credits = 0, !.registered = FALSE, !.deadline = FALSE,
            !.outcome = outcome, !.readers = a]
  BY DEF SettledCall
<1>. HIDE DEF a
<1>4. SettledCall(y, outcome) \in CallRecords
  <2>. DEFINE y1 == [y EXCEPT !.state = "settled", !.completion = NoCompletion,
                              !.deliveries = {}, !.credits = 0]
  <2>1. y1 \in CallRecords
    BY <1>2 DEF CallRecords
  <2>. HIDE DEF y1
  <2>2. [y1 EXCEPT !.registered = FALSE, !.deadline = FALSE,
                   !.outcome = outcome, !.readers = a] \in CallRecords
    BY <1>1, <1>2, <2>1 DEF CallRecords
  <2>. QED BY <1>3, <2>2 DEF y1
<1>5. /\ IsSettled(SettledCall(y, outcome), y, outcome)
      /\ SettledCall(y, outcome).closedTokens = y.closedTokens
      /\ SettledCall(y, outcome).todo = y.todo
  BY <1>3 DEF CallRecords, IsSettled, a
<1>. QED BY <1>4, <1>5

(* Where the tasks of a call are in the queue *)
TasksOf(q, c) == {i \in DOMAIN q : q[i].kind # "revoke" /\ q[i].call = c}

SettleEffect(r, s, c, outcome) ==
    LET call == s.calls[c]
        new == GivenBack(s, c, QueuedGrants(call))
    IN /\ r.queue = Cleared(s.queue, TasksOf(s.queue, c)) /\ r.stack = s.stack
       /\ r.credits = s.credits - call.credits
       /\ Leaves(r, s, Lost(s, QueuedGrants(call)),
                 QueuedBinaries(call) + call.input, StreamHandle(call))
       /\ \A d \in Calls : d # c => r.calls[d] = s.calls[d]
       /\ IsSettled(r.calls[c], call, outcome)
       /\ r.calls[c].closedTokens = call.closedTokens \cup new
       /\ r.calls[c].todo = IF OnStack(s, c) THEN call.todo \cup new ELSE call.todo
       /\ \A t \in Tokens :
             r.held[t] = IF ~OnStack(s, c) /\ t \in new /\ s.held[t] = c
                         THEN Closed ELSE s.held[t]
       /\ (\A t \in new : HeldFor(s, t, c)) => r.strayClose = s.strayClose

(* Settle, field by field *)
LEMMA SettleFields ==
    ASSUME NEW s \in Bridges, NEW c \in Calls, NEW outcome \in Outcomes,
           QueuedBinaries(s.calls[c]) \in Int
    PROVE  LET r == Settle(s, c, outcome)
           IN r \in Bridges /\ SettleEffect(r, s, c, outcome)
<1>. DEFINE call == s.calls[c]
            x == SettledCall(call, outcome)
            q == Cleared(s.queue, TasksOf(s.queue, c))
            s0 == WithCall(s, c, x)
            s1 == [s0 EXCEPT !.queue = q]
            G == QueuedGrants(call)
            n == QueuedBinaries(call)
            s2 == ReleaseOutput(s1, c, G, n)
            h == StreamHandle(call)
            r == [s2 EXCEPT !.inFlight = @ - call.input,
                            !.openHandles = @ - call.input - h,
                            !.credits = @ - call.credits]
<1>1. call \in CallRecords /\ s.queue \in Seq(Tasks)
  BY DEF Bridges
<1>2. /\ x \in CallRecords /\ IsSettled(x, call, outcome)
      /\ x.closedTokens = call.closedTokens /\ x.todo = call.todo
  <2>. HIDE DEF call
  <2>. QED BY <1>1, SettledFields
<1>3. q \in Seq(Tasks)
  BY <1>1, ClearedProperties
<1>4. G \in SUBSET Tokens /\ n \in Int /\ h \in Int /\ call.input \in Int /\ call.credits \in Int
  BY <1>1 DEF CallRecords, Completions, Deliveries, QueuedGrants, StreamHandle
<1>5. Settle(s, c, outcome) = r
  BY DEF Settle, WithCall, SettledCall, LastAnswers, Errors, TasksOf
<1>. HIDE DEF x, q, G, n, h, call
<1>6. /\ s0 \in Bridges
      /\ s0.queue = s.queue /\ s0.stack = s.stack
      /\ s0.held = s.held /\ s0.strayClose = s.strayClose
      /\ s0.resources = s.resources /\ s0.byToken = s.byToken
      /\ s0.inFlight = s.inFlight /\ s0.credits = s.credits
      /\ s0.openHandles = s.openHandles /\ s0.openResources = s.openResources
      /\ s0.calls[c] = x
      /\ \A d \in Calls : d # c => s0.calls[d] = s.calls[d]
  BY <1>2, CallFields
<1>. HIDE DEF s0
<1>7. /\ s1 \in Bridges
      /\ s1.queue = q /\ s1.stack = s.stack
      /\ s1.held = s.held /\ s1.strayClose = s.strayClose
      /\ s1.resources = s.resources /\ s1.byToken = s.byToken
      /\ s1.inFlight = s.inFlight /\ s1.credits = s.credits
      /\ s1.openHandles = s.openHandles /\ s1.openResources = s.openResources
      /\ s1.calls[c] = x
      /\ \A d \in Calls : d # c => s1.calls[d] = s.calls[d]
  BY <1>3, <1>6 DEF Bridges
<1>. HIDE DEF s1
<1>. DEFINE lost == Lost(s1, G)
            new == GivenBack(s1, c, G)
<1>8. /\ s2 \in Bridges
      /\ s2.queue = s1.queue /\ s2.stack = s1.stack /\ s2.credits = s1.credits
      /\ Leaves(s2, s1, lost, n, 0)
      /\ ClosesUp(s2, s1, c, new)
  BY <1>4, <1>7, ReleaseFields
<1>. HIDE DEF s2, lost, new
<1>9. r \in Bridges
  <2>1. /\ s2.inFlight - call.input \in Int /\ s2.openHandles - call.input - h \in Int
        /\ s2.credits - call.credits \in Int
    <3>1. s2.inFlight \in Int /\ s2.openHandles \in Int /\ s2.credits \in Int
      BY <1>8 DEF Bridges
    <3>. QED BY <1>4, <3>1
  <2>. QED BY <1>8, <2>1 DEF Bridges
<1>10. /\ r.calls = s2.calls /\ r.queue = s2.queue /\ r.stack = s2.stack
       /\ r.held = s2.held /\ r.strayClose = s2.strayClose
       /\ r.byToken = s2.byToken /\ r.resources = s2.resources
       /\ r.openResources = s2.openResources
       /\ r.inFlight = s2.inFlight - call.input
       /\ r.openHandles = s2.openHandles - call.input - h
       /\ r.credits = s2.credits - call.credits
  BY <1>8 DEF Bridges
<1>. HIDE DEF r
<1>11. Leaves(r, s, lost, n + call.input, h)
  <2>1. Cardinality(lost) \in Nat
    BY <1>4, TokensFinite DEF lost, Lost
  <2>2. /\ s.inFlight \in Int /\ s.openHandles \in Int /\ s.openResources \in Int
        /\ s2.inFlight = s.inFlight - n
        /\ s2.openHandles = s.openHandles - Cardinality(lost) - n
    BY <1>4, <1>7, <1>8, <2>1 DEF Bridges, Leaves
  <2>3. /\ r.inFlight = s.inFlight - (n + call.input)
        /\ r.openHandles = s.openHandles - Cardinality(lost) - (n + call.input) - h
    BY <1>4, <1>10, <2>1, <2>2
  <2>. QED BY <1>7, <1>8, <1>10, <2>3 DEF Leaves
<1>12. /\ \A d \in Calls : d # c => r.calls[d] = s.calls[d]
       /\ IsSettled(r.calls[c], call, outcome)
       /\ r.calls[c].closedTokens = call.closedTokens \cup new
       /\ r.calls[c].todo = IF OnStack(s, c) THEN call.todo \cup new ELSE call.todo
       /\ \A t \in Tokens :
             r.held[t] = IF ~OnStack(s, c) /\ t \in new /\ s.held[t] = c
                         THEN Closed ELSE s.held[t]
  <2>1. OnStack(s1, c) <=> OnStack(s, c)
    BY <1>7 DEF OnStack
  <2>2. SameCore(r.calls[c], x)
    BY <1>7, <1>8, <1>10 DEF ClosesUp
  <2>3. IsSettled(r.calls[c], call, outcome)
    BY <1>2, <2>2 DEF SameCore, IsSettled
  <2>. QED BY <1>2, <1>7, <1>8, <1>10, <2>1, <2>3 DEF ClosesUp
<1>13. (\A t \in new : HeldFor(s, t, c)) => r.strayClose = s.strayClose
  <2>1. \A t : HeldFor(s, t, c) => HeldFor(s1, t, c)
    BY <1>7 DEF HeldFor
  <2>. QED BY <1>7, <1>8, <1>10, <2>1 DEF ClosesUp
<1>14. r.queue = q /\ r.stack = s.stack /\ r.credits = s.credits - call.credits
  BY <1>7, <1>8, <1>10
<1>15. lost = Lost(s, G) /\ new = GivenBack(s, c, G)
  BY <1>2, <1>7 DEF lost, new, Lost, GivenBack, call
<1>16. /\ r \in Bridges /\ r = Settle(s, c, outcome)
  BY <1>5, <1>9 DEF r
<1>17. SettleEffect(r, s, c, outcome)
  <2>. HIDE DEF lost, new
  <2>. QED BY <1>11, <1>12, <1>13, <1>14, <1>15 DEF SettleEffect, call, G, n, h, q
<1>. QED BY <1>16, <1>17

(* What of it concerns the loop *)
LEMMA SettleLoop ==
    ASSUME NEW s \in Bridges, NEW c \in Calls, NEW outcome \in Outcomes,
           QueuedBinaries(s.calls[c]) \in Int
    PROVE  LET r == Settle(s, c, outcome)
           IN /\ r \in Bridges
              /\ r.queue = Cleared(s.queue, TasksOf(s.queue, c)) /\ r.stack = s.stack
              /\ \A d \in Calls : d # c => r.calls[d] = s.calls[d]
              /\ IsSettled(r.calls[c], s.calls[c], outcome)
              /\ \A t \in Tokens : r.held[t] = s.held[t] \/ s.held[t] = c
<1>. DEFINE r == Settle(s, c, outcome)
<1>1. r \in Bridges /\ SettleEffect(r, s, c, outcome)
  BY SettleFields
<1>. HIDE DEF r
<1>2. \A t \in Tokens : r.held[t] = s.held[t] \/ s.held[t] = c
  BY <1>1 DEF SettleEffect
<1>. QED BY <1>1, <1>2 DEF r, SettleEffect

-----------------------------------------------------------------------------
(* The methods that change one call                                        *)

SameProvider(r, s) ==
    /\ r.resources = s.resources /\ r.byToken = s.byToken
    /\ r.held = s.held /\ r.strayClose = s.strayClose
SameCounters(r, s) ==
    /\ r.inFlight = s.inFlight /\ r.openHandles = s.openHandles
    /\ r.openResources = s.openResources
SameCalls(r, s, c) == \A d \in Calls : d # c => r.calls[d] = s.calls[d]

LockedCall(call, completion) == [call EXCEPT !.completion = completion, !.credits = 0]
ScheduledCall(call) == [call EXCEPT !.registered = FALSE]
CancelledCall(call) == [call EXCEPT !.cancelIssued = TRUE]

(* The records of a call that is locked, scheduled, or cancelled *)
LEMMA CallVariants ==
    ASSUME NEW y \in CallRecords
    PROVE  /\ \A completion \in Completions : LockedCall(y, completion) \in CallRecords
           /\ ScheduledCall(y) \in CallRecords
           /\ CancelledCall(y) \in CallRecords
BY DEF CallRecords, LockedCall, ScheduledCall, CancelledCall

(* LockTerminal, field by field *)
LEMMA LockFields ==
    ASSUME NEW s \in Bridges, NEW c \in Calls, NEW completion \in Completions
    PROVE  LET r == LockTerminal(s, c, completion)
           IN /\ r \in Bridges
              /\ r.queue = s.queue /\ r.stack = s.stack
              /\ SameProvider(r, s) /\ SameCounters(r, s) /\ SameCalls(r, s, c)
              /\ r.credits = s.credits - s.calls[c].credits
              /\ r.calls[c] = LockedCall(s.calls[c], completion)
<1>. DEFINE call == s.calls[c]
            y == [call EXCEPT !.completion = completion]
            x == [y EXCEPT !.credits = 0]
            s0 == WithCall(s, c, y)
            s1 == WithCall(s, c, x)
            r == [s1 EXCEPT !.credits = @ - call.credits]
<1>1. call \in CallRecords
  BY DEF Bridges
<1>2. x = LockedCall(call, completion)
  BY DEF LockedCall
<1>3. x \in CallRecords
  BY <1>1, <1>2, CallVariants
<1>4. LockTerminal(s, c, completion) = r
  <2>1. LockTerminal(s, c, completion) =
          [[s0 EXCEPT !.calls[c].credits = 0] EXCEPT !.credits = @ - call.credits]
    BY DEF LockTerminal, WithCall
  <2>2. [s0 EXCEPT !.calls[c].credits = 0] = WithCall(s0, c, [s0.calls[c] EXCEPT !.credits = 0])
    BY DEF WithCall
  <2>3. [s0 EXCEPT !.calls[c].credits = 0] = s1
    <3>1. s0.calls[c] = y
      <4>. HIDE DEF y
      <4>. QED BY CallTwice
    <3>2. WithCall(s0, c, x) = s1
      <4>. HIDE DEF y, x
      <4>. QED BY CallTwice
    <3>. QED BY <2>2, <3>1, <3>2
  <2>. QED BY <2>1, <2>3
<1>. HIDE DEF x
<1>5. /\ s1 \in Bridges
      /\ s1.queue = s.queue /\ s1.stack = s.stack
      /\ s1.held = s.held /\ s1.strayClose = s.strayClose
      /\ s1.resources = s.resources /\ s1.byToken = s.byToken
      /\ s1.inFlight = s.inFlight /\ s1.credits = s.credits
      /\ s1.openHandles = s.openHandles /\ s1.openResources = s.openResources
      /\ s1.calls[c] = x
      /\ \A d \in Calls : d # c => s1.calls[d] = s.calls[d]
  BY <1>3, CallFields
<1>6. s.credits \in Int /\ call.credits \in Int /\ s.credits - call.credits \in Int
  BY <1>1 DEF Bridges, CallRecords
<1>. HIDE DEF s1, call
<1>7. r \in Bridges
  BY <1>5, <1>6 DEF Bridges
<1>8. /\ r.queue = s.queue /\ r.stack = s.stack
      /\ r.held = s.held /\ r.strayClose = s.strayClose
      /\ r.resources = s.resources /\ r.byToken = s.byToken
      /\ r.inFlight = s.inFlight /\ r.credits = s.credits - call.credits
      /\ r.openHandles = s.openHandles /\ r.openResources = s.openResources
      /\ r.calls = s1.calls
  BY <1>5 DEF Bridges
<1>. HIDE DEF r
<1>. QED BY <1>2, <1>4, <1>5, <1>7, <1>8 DEF SameProvider, SameCounters, SameCalls, call

(* CancelProvider, field by field *)
LEMMA CancelFields ==
    ASSUME NEW s \in Bridges, NEW c \in Calls
    PROVE  LET r == CancelProvider(s, c)
           IN /\ r \in Bridges
              /\ r.queue = s.queue /\ r.stack = s.stack
              /\ SameProvider(r, s) /\ SameCounters(r, s) /\ SameCalls(r, s, c)
              /\ r.credits = s.credits
              /\ r.calls[c] = CancelledCall(s.calls[c])
<1>. DEFINE x == CancelledCall(s.calls[c])
<1>1. CancelProvider(s, c) = WithCall(s, c, x)
  BY DEF CancelProvider, CancelledCall, WithCall
<1>2. x \in CallRecords
  <2>1. s.calls[c] \in CallRecords
    BY DEF Bridges
  <2>. QED BY <2>1, CallVariants
<1>. HIDE DEF x
<1>3. LET r == WithCall(s, c, x)
      IN /\ r \in Bridges
         /\ r.queue = s.queue /\ r.stack = s.stack
         /\ r.held = s.held /\ r.strayClose = s.strayClose
         /\ r.resources = s.resources /\ r.byToken = s.byToken
         /\ r.inFlight = s.inFlight /\ r.credits = s.credits
         /\ r.openHandles = s.openHandles /\ r.openResources = s.openResources
         /\ r.calls[c] = x
         /\ \A d \in Calls : d # c => r.calls[d] = s.calls[d]
  BY <1>2, CallFields
<1>. QED BY <1>1, <1>3 DEF SameProvider, SameCounters, SameCalls, x

(* A task is queued *)
Enqueue(s, task) == [s EXCEPT !.queue = Append(@, task)]

(* A task enters the queue. *)
LEMMA EnqueueFields ==
    ASSUME NEW s \in Bridges, NEW task \in Tasks
    PROVE  LET r == Enqueue(s, task)
           IN /\ r \in Bridges
              /\ r.queue = Append(s.queue, task) /\ r.stack = s.stack
              /\ SameProvider(r, s) /\ SameCounters(r, s)
              /\ r.credits = s.credits /\ r.calls = s.calls
<1>. DEFINE q == Append(s.queue, task)
            r == [s EXCEPT !.queue = q]
<1>1. q \in Seq(Tasks)
  BY DEF Bridges
<1>2. Enqueue(s, task) = r
  BY DEF Enqueue
<1>. HIDE DEF q
<1>3. r \in Bridges
  BY <1>1 DEF Bridges
<1>4. /\ r.queue = q /\ r.stack = s.stack
      /\ r.held = s.held /\ r.strayClose = s.strayClose
      /\ r.resources = s.resources /\ r.byToken = s.byToken
      /\ r.inFlight = s.inFlight /\ r.credits = s.credits
      /\ r.openHandles = s.openHandles /\ r.openResources = s.openResources
      /\ r.calls = s.calls
  BY DEF Bridges
<1>. HIDE DEF r
<1>. QED BY <1>2, <1>3, <1>4 DEF SameProvider, SameCounters, q

(* ScheduleTerminal, field by field *)
LEMMA ScheduleFields ==
    ASSUME NEW s \in Bridges, NEW c \in Calls
    PROVE  LET r == ScheduleTerminal(s, c)
               due == IsCurrent(s, c) /\ Locked(s, c)
           IN /\ r \in Bridges
              /\ r.stack = s.stack
              /\ SameProvider(r, s) /\ SameCounters(r, s) /\ SameCalls(r, s, c)
              /\ r.credits = s.credits
              /\ r.queue = IF due THEN Append(s.queue, Terminal(c)) ELSE s.queue
              /\ r.calls[c] = IF due THEN ScheduledCall(s.calls[c]) ELSE s.calls[c]
<1>. DEFINE x == ScheduledCall(s.calls[c])
            s0 == WithCall(s, c, x)
            r == Enqueue(s0, Terminal(c))
<1>1. CASE ~(IsCurrent(s, c) /\ Locked(s, c))
  BY <1>1 DEF ScheduleTerminal, SameProvider, SameCounters, SameCalls
<1>2. CASE IsCurrent(s, c) /\ Locked(s, c)
  <2>1. ScheduleTerminal(s, c) = r
    BY <1>2 DEF ScheduleTerminal, ScheduledCall, WithCall, Enqueue
  <2>2. x \in CallRecords /\ Terminal(c) \in Tasks
    <3>1. s.calls[c] \in CallRecords
      BY DEF Bridges
    <3>. QED BY <3>1, CallVariants DEF Terminal, Tasks
  <2>. HIDE DEF x
  <2>3. /\ s0 \in Bridges
        /\ s0.queue = s.queue /\ s0.stack = s.stack
        /\ s0.held = s.held /\ s0.strayClose = s.strayClose
        /\ s0.resources = s.resources /\ s0.byToken = s.byToken
        /\ s0.inFlight = s.inFlight /\ s0.credits = s.credits
        /\ s0.openHandles = s.openHandles /\ s0.openResources = s.openResources
        /\ s0.calls[c] = x
        /\ \A d \in Calls : d # c => s0.calls[d] = s.calls[d]
    BY <2>2, CallFields
  <2>. HIDE DEF s0
  <2>4. /\ r \in Bridges
        /\ r.queue = Append(s0.queue, Terminal(c)) /\ r.stack = s0.stack
        /\ SameProvider(r, s0) /\ SameCounters(r, s0)
        /\ r.credits = s0.credits /\ r.calls = s0.calls
    BY <2>2, <2>3, EnqueueFields
  <2>. HIDE DEF r
  <2>. QED BY <1>2, <2>1, <2>3, <2>4 DEF SameProvider, SameCounters, SameCalls, x
<1>. QED BY <1>1, <1>2

-----------------------------------------------------------------------------
(* The methods that change the resources                                   *)

SameLoop(r, s) == r.calls = s.calls /\ r.queue = s.queue /\ r.credits = s.credits

(* Grant, field by field *)
LEMMA GrantFields ==
    ASSUME NEW s \in Bridges, NEW c \in Calls, NEW T \in SUBSET Tokens
    PROVE  LET r == Grant(s, c, T)
           IN /\ r \in Bridges
              /\ SameLoop(r, s) /\ SameCounters(r, s)
              /\ r.stack = s.stack /\ r.resources = s.resources
              /\ r.byToken = s.byToken /\ r.strayClose = s.strayClose
              /\ \A t \in Tokens :
                    r.held[t] = IF t \in T /\ s.held[t] = Fresh THEN c ELSE s.held[t]
<1>. DEFINE f == [t \in Tokens |-> IF t \in T /\ s.held[t] = Fresh THEN c ELSE s.held[t]]
            r == [s EXCEPT !.held = f]
<1>1. f \in [Tokens -> -2..MaxCalls]
  BY Constants DEF Bridges
<1>2. Grant(s, c, T) = r
  BY DEF Grant, Bridges
<1>3. \A t \in Tokens : f[t] = IF t \in T /\ s.held[t] = Fresh THEN c ELSE s.held[t]
  OBVIOUS
<1>. HIDE DEF f
<1>4. r \in Bridges
  BY <1>1 DEF Bridges
<1>5. /\ r.queue = s.queue /\ r.stack = s.stack
      /\ r.held = f /\ r.strayClose = s.strayClose
      /\ r.resources = s.resources /\ r.byToken = s.byToken
      /\ r.inFlight = s.inFlight /\ r.credits = s.credits
      /\ r.openHandles = s.openHandles /\ r.openResources = s.openResources
      /\ r.calls = s.calls
  BY DEF Bridges
<1>. HIDE DEF r
<1>. QED BY <1>2, <1>3, <1>4, <1>5 DEF SameLoop, SameCounters

Reserved(c) == [status |-> "reserved", call |-> c, revokeQueued |-> FALSE]

ReserveEffect(r, s, c, T, b) ==
    /\ SameLoop(r, s) /\ r.stack = s.stack
    /\ r.held = s.held /\ r.strayClose = s.strayClose
    /\ r.inFlight = s.inFlight + b
    /\ r.openHandles = s.openHandles + b + Cardinality(T)
    /\ r.openResources = s.openResources + Cardinality(T)
    /\ r.byToken = s.byToken \cup T
    /\ \A t \in Tokens : r.resources[t] = IF t \in T THEN Reserved(c) ELSE s.resources[t]

(* ReserveOutput, field by field *)
LEMMA ReserveFields ==
    ASSUME NEW s \in Bridges, NEW c \in Calls, NEW T \in SUBSET Tokens, NEW b \in Int
    PROVE  LET r == ReserveOutput(s, c, T, b)
           IN r \in Bridges /\ ReserveEffect(r, s, c, T, b)
<1>. DEFINE f == [t \in Tokens |-> IF t \in T THEN Reserved(c) ELSE s.resources[t]]
            n == Cardinality(T)
            r == [s EXCEPT !.inFlight = @ + b, !.openHandles = @ + b + n,
                           !.openResources = @ + n, !.byToken = @ \cup T,
                           !.resources = f]
<1>1. n \in Nat
  BY TokensFinite
<1>2. f \in [Tokens -> ResourceRecords]
  BY Constants DEF Bridges, ResourceRecords, Reserved
<1>3. \A t \in Tokens : f[t] = IF t \in T THEN Reserved(c) ELSE s.resources[t]
  OBVIOUS
<1>4. ReserveOutput(s, c, T, b) = r
  BY DEF ReserveOutput, Bridges, Reserved
<1>. HIDE DEF f
<1>5. r \in Bridges
  <2>. HIDE DEF n
  <2>1. /\ s.inFlight + b \in Int /\ s.openHandles + b + n \in Int
        /\ s.openResources + n \in Int /\ s.byToken \cup T \in SUBSET Tokens
    BY <1>1 DEF Bridges
  <2>. DEFINE r1 == [s EXCEPT !.inFlight = @ + b, !.openHandles = @ + b + n]
  <2>2. r1 \in Bridges
    BY <2>1 DEF Bridges
  <2>3. r1.openResources = s.openResources /\ r1.byToken = s.byToken
    BY DEF Bridges
  <2>. HIDE DEF r1
  <2>4. [r1 EXCEPT !.openResources = @ + n, !.byToken = @ \cup T, !.resources = f] \in Bridges
    BY <1>2, <2>1, <2>2, <2>3 DEF Bridges
  <2>. QED BY <2>4 DEF r1
<1>6. /\ r.queue = s.queue /\ r.stack = s.stack
      /\ r.held = s.held /\ r.strayClose = s.strayClose
      /\ r.credits = s.credits /\ r.calls = s.calls
      /\ r.inFlight = s.inFlight + b /\ r.openHandles = s.openHandles + b + n
      /\ r.openResources = s.openResources + n
      /\ r.byToken = s.byToken \cup T /\ r.resources = f
  <2>. HIDE DEF n
  <2>. QED BY DEF Bridges
<1>. HIDE DEF r
<1>. QED BY <1>3, <1>4, <1>5, <1>6 DEF SameLoop, ReserveEffect

DeliverEffect(r, s, T, b) ==
    /\ SameLoop(r, s) /\ r.stack = s.stack
    /\ r.held = s.held /\ r.strayClose = s.strayClose
    /\ r.inFlight = s.inFlight - b /\ r.openHandles = s.openHandles - b
    /\ r.openResources = s.openResources /\ r.byToken = s.byToken
    /\ \A t \in Tokens :
          /\ r.resources[t].call = s.resources[t].call
          /\ r.resources[t].revokeQueued = s.resources[t].revokeQueued
          /\ r.resources[t].status = IF t \in T THEN "open" ELSE s.resources[t].status

(* DeliverOutput, field by field *)
LEMMA DeliverFields ==
    ASSUME NEW s \in Bridges, NEW T \in SUBSET Tokens, NEW b \in Int
    PROVE  LET r == DeliverOutput(s, T, b)
           IN r \in Bridges /\ DeliverEffect(r, s, T, b)
<1>. DEFINE f == [t \in Tokens |-> IF t \in T THEN [s.resources[t] EXCEPT !.status = "open"]
                                   ELSE s.resources[t]]
            r == [s EXCEPT !.inFlight = @ - b, !.openHandles = @ - b, !.resources = f]
<1>1. f \in [Tokens -> ResourceRecords]
  BY DEF Bridges, ResourceRecords
<1>2. \A t \in Tokens :
        /\ f[t].call = s.resources[t].call
        /\ f[t].revokeQueued = s.resources[t].revokeQueued
        /\ f[t].status = IF t \in T THEN "open" ELSE s.resources[t].status
  BY DEF Bridges, ResourceRecords
<1>3. DeliverOutput(s, T, b) = r
  BY DEF DeliverOutput, Bridges
<1>. HIDE DEF f
<1>4. r \in Bridges
  <2>1. s.inFlight - b \in Int /\ s.openHandles - b \in Int
    BY DEF Bridges
  <2>. QED BY <1>1, <2>1 DEF Bridges
<1>5. /\ r.queue = s.queue /\ r.stack = s.stack
      /\ r.held = s.held /\ r.strayClose = s.strayClose
      /\ r.credits = s.credits /\ r.calls = s.calls
      /\ r.inFlight = s.inFlight - b /\ r.openHandles = s.openHandles - b
      /\ r.openResources = s.openResources
      /\ r.byToken = s.byToken /\ r.resources = f
  BY DEF Bridges
<1>. HIDE DEF r
<1>. QED BY <1>2, <1>3, <1>4, <1>5 DEF SameLoop, DeliverEffect

(* CloseResource, field by field *)
LEMMA CloseResourceFields ==
    ASSUME NEW s \in Bridges, NEW t \in Tokens,
           s.resources[t].status = "open", s.resources[t].call \in Calls
    PROVE  LET r == CloseResource(s, t, TRUE)
               c == s.resources[t].call
           IN /\ r \in Bridges
              /\ SameLoop(r, s) /\ r.stack = s.stack
              /\ Leaves(r, s, {t}, 0, 0)
              /\ \A u \in Tokens :
                    r.held[u] = IF ~s.resources[t].revokeQueued /\ u = t /\ s.held[u] = c
                                THEN Closed ELSE s.held[u]
              /\ HeldFor(s, t, c) \/ s.resources[t].revokeQueued =>
                    r.strayClose = s.strayClose
<1>. DEFINE c == s.resources[t].call
            s0 == Drop(s, {t}, "closed")
            r == CloseProviderResource(s0, c, {t})
<1>1. {t} \in SUBSET Tokens /\ c \in Calls
  OBVIOUS
<1>. DEFINE T == {t}
<1>. HIDE DEF T
<1>2. LET r0 == Drop(s, T, "closed")
      IN /\ r0 \in Bridges
         /\ r0.calls = s.calls /\ r0.queue = s.queue /\ r0.stack = s.stack
         /\ r0.held = s.held /\ r0.strayClose = s.strayClose
         /\ r0.inFlight = s.inFlight /\ r0.credits = s.credits
         /\ r0.byToken = s.byToken \ T
         /\ r0.openHandles = s.openHandles - Cardinality(T)
         /\ r0.openResources = s.openResources - Cardinality(T)
         /\ \A u \in Tokens :
               /\ r0.resources[u].call = s.resources[u].call
               /\ r0.resources[u].revokeQueued = s.resources[u].revokeQueued
               /\ r0.resources[u].status = IF u \in T THEN "closed"
                                           ELSE s.resources[u].status
  BY <1>1, DropFields DEF T
<1>3. s0 = Drop(s, T, "closed") /\ T = {t}
  BY DEF T
<1>. HIDE DEF s0
<1>4. /\ s0 \in Bridges /\ SameLoop(s0, s) /\ s0.stack = s.stack
      /\ s0.held = s.held /\ s0.strayClose = s.strayClose
      /\ \A u \in Tokens : s0.resources[u].revokeQueued = s.resources[u].revokeQueued
  BY <1>2, <1>3 DEF SameLoop
<1>5. Leaves(s0, s, T, 0, 0)
  <2>1. Cardinality(T) \in Int /\ s.inFlight \in Int /\ s.openHandles \in Int
    BY <1>1, <1>3, TokensFinite DEF Bridges
  <2>2. s.inFlight - 0 = s.inFlight
        /\ s.openHandles - Cardinality(T) - 0 - 0 = s.openHandles - Cardinality(T)
    BY <2>1
  <2>. QED BY <1>2, <1>3, <2>2 DEF Leaves
<1>6. /\ r \in Bridges
      /\ r.calls = s0.calls /\ r.queue = s0.queue /\ r.stack = s0.stack
      /\ r.resources = s0.resources /\ r.byToken = s0.byToken
      /\ r.inFlight = s0.inFlight /\ r.credits = s0.credits
      /\ r.openHandles = s0.openHandles /\ r.openResources = s0.openResources
      /\ \A u \in Tokens :
            r.held[u] = IF u \in T /\ s0.held[u] = c THEN Closed ELSE s0.held[u]
      /\ (\A u \in T : HeldFor(s0, u, c)) => r.strayClose = s0.strayClose
  <2>. HIDE DEF c
  <2>1. r = CloseProviderResource(s0, c, T)
    BY <1>3
  <2>2. T \in SUBSET Tokens /\ s0 \in Bridges /\ c \in Calls
    BY <1>1, <1>3, <1>4
  <2>. HIDE DEF r
  <2>. QED BY <2>1, <2>2, CloseProviderFields
<1>7. CloseResource(s, t, TRUE) = IF ~s.resources[t].revokeQueued THEN r ELSE s0
  BY <1>3 DEF CloseResource
<1>. HIDE DEF r
<1>8. CASE s.resources[t].revokeQueued
  BY <1>3, <1>4, <1>5, <1>7, <1>8
<1>9. CASE ~s.resources[t].revokeQueued
  <2>1. Leaves(r, s, T, 0, 0) /\ SameLoop(r, s) /\ r.stack = s.stack
    BY <1>4, <1>5, <1>6 DEF Leaves, SameLoop
  <2>2. HeldFor(s, t, c) => HeldFor(s0, t, c)
    BY <1>4 DEF HeldFor
  <2>. QED BY <1>3, <1>4, <1>6, <1>7, <1>9, <2>1, <2>2
<1>. QED BY <1>8, <1>9

(* The stack of handlers *)
LEMMA PushFields ==
    ASSUME NEW s \in Bridges, NEW f \in 0..MaxCalls
    PROVE  LET r == Push(s, f)
           IN /\ r \in Bridges
              /\ SameLoop(r, s) /\ SameProvider(r, s) /\ SameCounters(r, s)
              /\ r.stack = Append(s.stack, f)
<1>. DEFINE q == Append(s.stack, f)
            r == [s EXCEPT !.stack = q]
<1>1. q \in Seq(0..MaxCalls)
  BY DEF Bridges
<1>2. Push(s, f) = r
  BY DEF Push
<1>. HIDE DEF q
<1>3. r \in Bridges
  BY <1>1 DEF Bridges
<1>4. /\ r.queue = s.queue /\ r.stack = q
      /\ r.held = s.held /\ r.strayClose = s.strayClose
      /\ r.resources = s.resources /\ r.byToken = s.byToken
      /\ r.inFlight = s.inFlight /\ r.credits = s.credits
      /\ r.openHandles = s.openHandles /\ r.openResources = s.openResources
      /\ r.calls = s.calls
  BY DEF Bridges
<1>. HIDE DEF r
<1>. QED BY <1>2, <1>3, <1>4 DEF SameLoop, SameProvider, SameCounters, q

(* Pop, field by field *)
LEMMA PopFields ==
    ASSUME NEW s \in Bridges, s.stack # <<>>
    PROVE  LET r == Pop(s)
           IN /\ r \in Bridges
              /\ SameLoop(r, s) /\ SameProvider(r, s) /\ SameCounters(r, s)
              /\ r.stack \in Seq(0..MaxCalls)
              /\ Len(r.stack) = Len(s.stack) - 1
              /\ \A i \in 1..Len(r.stack) : r.stack[i] = s.stack[i]
<1>. DEFINE q == SubSeq(s.stack, 1, Len(s.stack) - 1)
            r == [s EXCEPT !.stack = q]
<1>1. s.stack \in Seq(0..MaxCalls) /\ Len(s.stack) \in Nat \ {0}
  BY DEF Bridges
<1>2. /\ q \in Seq(0..MaxCalls) /\ Len(q) = Len(s.stack) - 1
      /\ \A i \in 1..Len(q) : q[i] = s.stack[i]
  <2>. DEFINE p == s.stack
              n == Len(p) - 1
              F == 0..MaxCalls
  <2>0. p \in Seq(F) /\ Len(p) \in Nat \ {0}
    BY <1>1
  <2>. HIDE DEF p, F
  <2>1. n \in Nat /\ 1 \in Int /\ n \in Int /\ \A i \in 1..n : p[i] \in F
    BY <2>0
  <2>. HIDE DEF n
  <2>2. /\ SubSeq(p, 1, n) \in Seq(F)
        /\ Len(SubSeq(p, 1, n)) = IF 1 <= n THEN n - 1 + 1 ELSE 0
        /\ \A i \in 1..(n - 1 + 1) : SubSeq(p, 1, n)[i] = p[1 + i - 1]
    BY <2>1, SubSeqProperties
  <2>3. Len(SubSeq(p, 1, n)) = n /\ \A i \in 1..n : SubSeq(p, 1, n)[i] = p[i]
    BY <2>1, <2>2
  <2>. QED BY <2>2, <2>3 DEF p, n, F
<1>3. Pop(s) = r
  BY DEF Pop
<1>. HIDE DEF q
<1>4. r \in Bridges
  BY <1>2 DEF Bridges
<1>5. /\ r.queue = s.queue /\ r.stack = q
      /\ r.held = s.held /\ r.strayClose = s.strayClose
      /\ r.resources = s.resources /\ r.byToken = s.byToken
      /\ r.inFlight = s.inFlight /\ r.credits = s.credits
      /\ r.openHandles = s.openHandles /\ r.openResources = s.openResources
      /\ r.calls = s.calls
  BY DEF Bridges
<1>. HIDE DEF r
<1>. QED BY <1>2, <1>3, <1>4, <1>5 DEF SameLoop, SameProvider, SameCounters

-----------------------------------------------------------------------------
(* Calls and tasks: what a method leaves of them                           *)

(* The parts of ControlOk that are about one call, or that are not *)
OwnTask(task, c) == task.kind # "revoke" /\ task.call = c

AwaitedOne(s, d) ==
    s.calls[d].state = "active" =>
        /\ s.calls[d].completion = NoCompletion => s.calls[d].registered
        /\ s.calls[d].completion # NoCompletion =>
               InQueue(s.queue, Terminal(d)) \/ OnStack(s, d)

StackedOne(s, d) ==
    OnStack(s, d) =>
        /\ s.calls[d].state # "unused"
        /\ s.calls[d].state = "active" => s.calls[d].completion # NoCompletion

CallControl(s, d) ==
    /\ CallOk(s.calls[d])
    /\ \A x \in s.calls[d].deliveries : InQueue(s.queue, Chunk(d, x.sequence))
    /\ AwaitedOne(s, d) /\ StackedOne(s, d)

OthersOk(s, c) ==
    /\ \A d \in Calls : d # c => CallControl(s, d)
    /\ \A i \in 1..Len(s.queue) : ~OwnTask(s.queue[i], c) => TaskOk(s, s.queue[i])
    /\ \A i, j \in 1..Len(s.queue) : i < j => Follows(s.queue[i], s.queue[j])
    /\ \A i, j \in 1..Len(s.stack) : s.stack[i] = s.stack[j] => i = j

MineOk(s, c) ==
    /\ CallControl(s, c)
    /\ \A i \in 1..Len(s.queue) : OwnTask(s.queue[i], c) => TaskOk(s, s.queue[i])

(* The control invariant is about one call, and about the others. *)
LEMMA ControlParts ==
    ASSUME NEW s, NEW c \in Calls
    PROVE  ControlOk(s) <=> OthersOk(s, c) /\ MineOk(s, c)
BY DEF ControlOk, OthersOk, MineOk, CallControl, AwaitedOne, StackedOne, QueueOk, Awaited, StackOk

(* The tasks of other calls are the same in both queues. *)
SameTasks(q, p, c) ==
    /\ \A i \in 1..Len(q) : ~OwnTask(q[i], c) => InQueue(p, q[i])
    /\ \A j \in 1..Len(p) : ~OwnTask(p[j], c) => p[j].kind = "revoke" \/ InQueue(q, p[j])
    /\ \A i, j \in 1..Len(q) : i < j => Follows(q[i], q[j])

SameStacks(r, s, c) ==
    /\ \A d \in Calls : d # c => (OnStack(r, d) <=> OnStack(s, d))
    /\ \A i, j \in 1..Len(r.stack) : r.stack[i] = r.stack[j] => i = j

SameCores(r, s, c) ==
    /\ \A d \in Calls : d # c => SameCore(r.calls[d], s.calls[d])
    /\ \A t \in Tokens : s.held[t] = Revoked => r.held[t] = Revoked

(* What the control invariant says of a call is not about its cleanup. *)
LEMMA SameCoreOk ==
    ASSUME NEW x, NEW y, SameCore(x, y), CallOk(y)
    PROVE  CallOk(x)
<1>1. AnswersInOrder(y) => AnswersInOrder(x)
  BY DEF SameCore, AnswersInOrder
<1>. QED BY <1>1 DEF SameCore, CallOk, Over, StreamInOrder

(* The control invariant of the other calls is kept by a method that       *)
(* changes the tasks, the frame and the record of its own call only.       *)
LEMMA OthersKept ==
    ASSUME NEW s \in Bridges, NEW r \in Bridges, NEW c \in Calls, OthersOk(s, c),
           SameTasks(r.queue, s.queue, c), SameStacks(r, s, c), SameCores(r, s, c)
    PROVE  OthersOk(r, c)
<1>1. ASSUME NEW d \in Calls, d # c PROVE CallControl(r, d)
  <2>1. CallControl(s, d) /\ SameCore(r.calls[d], s.calls[d])
        /\ (OnStack(r, d) <=> OnStack(s, d))
    BY <1>1 DEF OthersOk, SameCores, SameStacks
  <2>2. CallOk(r.calls[d])
    BY <2>1, SameCoreOk DEF CallControl
  <2>3. \A task : InQueue(s.queue, task) /\ task.call = d /\ task.kind # "revoke"
            => InQueue(r.queue, task)
    BY <1>1 DEF SameTasks, InQueue, OwnTask
  <2>4. \A x \in r.calls[d].deliveries : InQueue(r.queue, Chunk(d, x.sequence))
    <3>1. \A n : Chunk(d, n).call = d /\ Chunk(d, n).kind = "chunk"
      BY DEF Chunk
    <3>. QED BY <2>1, <2>3, <3>1 DEF CallControl, SameCore
  <2>5. AwaitedOne(r, d)
    <3>1. Terminal(d).call = d /\ Terminal(d).kind = "terminal"
      BY DEF Terminal
    <3>. QED BY <2>1, <2>3, <3>1 DEF CallControl, SameCore, AwaitedOne
  <2>6. StackedOne(r, d)
    BY <2>1 DEF CallControl, SameCore, StackedOne
  <2>. QED BY <2>2, <2>4, <2>5, <2>6 DEF CallControl
<1>2. ASSUME NEW i \in 1..Len(r.queue), ~OwnTask(r.queue[i], c)
      PROVE  TaskOk(r, r.queue[i])
  <2>. DEFINE task == r.queue[i]
  <2>1. PICK j \in 1..Len(s.queue) : s.queue[j] = task
    BY <1>2 DEF SameTasks, InQueue
  <2>2. TaskOk(s, task)
    BY <1>2, <2>1 DEF OthersOk
  <2>3. task \in Tasks
    BY DEF Bridges
  <2>. SUFFICES TaskOk(r, task)
    OBVIOUS
  <2>. HIDE DEF task
  <2>4. CASE task.kind = "revoke"
    <3>. QED BY <2>2, <2>4 DEF TaskOk, SameCores
  <2>5. CASE task.kind # "revoke"
    <3>1. task.call \in Calls /\ task.call # c
      BY <1>2, <2>3, <2>5 DEF Tasks, OwnTask, task
    <3>2. SameCore(r.calls[task.call], s.calls[task.call])
          /\ (OnStack(r, task.call) <=> OnStack(s, task.call))
      BY <3>1 DEF SameCores, SameStacks
    <3>. QED BY <2>2, <2>5, <3>2 DEF TaskOk, SameCore
  <2>. QED BY <2>4, <2>5
<1>. QED BY <1>1, <1>2 DEF OthersOk, SameTasks, SameStacks

(* A queue and a stack left alone are the same. *)
LEMMA SameTasksRefl ==
    ASSUME NEW s \in Bridges, NEW c \in Calls, OthersOk(s, c)
    PROVE  /\ SameTasks(s.queue, s.queue, c)
           /\ SameStacks(s, s, c)
BY DEF OthersOk, SameTasks, SameStacks, InQueue

(* A state with the same calls, tasks and stack *)
LEMMA OthersSame ==
    ASSUME NEW s \in Bridges, NEW r \in Bridges, NEW c \in Calls, OthersOk(s, c),
           r.queue = s.queue, r.stack = s.stack, SameCores(r, s, c)
    PROVE  OthersOk(r, c)
<1>1. SameTasks(r.queue, s.queue, c) /\ SameStacks(s, s, c)
  BY SameTasksRefl
<1>2. SameStacks(r, s, c)
  BY <1>1 DEF SameStacks, OnStack
<1>. QED BY <1>1, <1>2, OthersKept

(* The control invariant of a state with the same loop *)
LEMMA ControlSame ==
    ASSUME NEW s \in Bridges, NEW r \in Bridges, ControlOk(s),
           r.queue = s.queue, r.stack = s.stack,
           \A d \in Calls : SameCore(r.calls[d], s.calls[d]),
           \A t \in Tokens : s.held[t] = Revoked => r.held[t] = Revoked
    PROVE  ControlOk(r)
<1>1. \A d \in Calls : OnStack(r, d) <=> OnStack(s, d)
  BY DEF OnStack
<1>2. ASSUME NEW c \in Calls PROVE OthersOk(r, c) /\ MineOk(r, c)
  <2>1. OthersOk(s, c) /\ MineOk(s, c)
    BY ControlParts
  <2>2. OthersOk(r, c)
    BY <2>1, OthersSame DEF SameCores
  <2>3. SameCore(r.calls[c], s.calls[c]) /\ CallOk(r.calls[c])
    BY <2>1, SameCoreOk DEF MineOk, CallControl
  <2>4. CallControl(r, c)
    BY <1>1, <2>1, <2>3 DEF MineOk, CallControl, AwaitedOne, StackedOne, SameCore
  <2>5. \A i \in 1..Len(r.queue) : OwnTask(r.queue[i], c) => TaskOk(r, r.queue[i])
    BY <1>1, <2>1, <2>3 DEF MineOk, OwnTask, TaskOk, SameCore
  <2>. QED BY <2>2, <2>4, <2>5 DEF MineOk
<1>3. CASE Calls = {}
  <2>1. \A i \in 1..Len(r.queue) : FALSE
    BY <1>3 DEF Bridges, Tasks
  <2>. QED BY <1>3, <2>1 DEF ControlOk, QueueOk, Awaited, StackOk
<1>. QED BY <1>2, <1>3, ControlParts

(* The queue without the tasks of a call keeps the others, in order. *)
LEMMA WithoutTasks ==
    ASSUME NEW s \in Bridges, NEW c \in Calls, OthersOk(s, c)
    PROVE  LET q == Cleared(s.queue, TasksOf(s.queue, c))
           IN /\ q \in Seq(Tasks)
              /\ SameTasks(q, s.queue, c)
              /\ \A i \in 1..Len(q) : ~OwnTask(q[i], c)
<1>. DEFINE p == s.queue
            gone == TasksOf(p, c)
            q == Cleared(p, gone)
<1>1. p \in Seq(Tasks) /\ Len(p) \in Nat /\ DOMAIN p = 1..Len(p)
  BY DEF Bridges
<1>2. gone = {i \in 1..Len(p) : OwnTask(p[i], c)}
  BY <1>1 DEF TasksOf, OwnTask
<1>3. \A i, j \in 1..Len(p) : i < j => Follows(p[i], p[j])
  BY DEF OthersOk
<1>. HIDE DEF gone, p
<1>4. q \in Seq(Tasks)
  BY <1>1, ClearedProperties
<1>5. PICK at \in [1..Len(q) -> (1..Len(p)) \ gone] :
         /\ \A m \in 1..Len(q) : q[m] = p[at[m]]
         /\ \A m, k \in 1..Len(q) : m < k => at[m] < at[k]
         /\ \A i \in (1..Len(p)) \ gone : \E m \in 1..Len(q) : at[m] = i
  BY <1>1, ClearedProperties
<1>. HIDE DEF q
<1>6. \A m \in 1..Len(q) : at[m] \in 1..Len(p) /\ ~OwnTask(p[at[m]], c)
  BY <1>2, <1>5
<1>7. \A m \in 1..Len(q) : ~OwnTask(q[m], c) /\ InQueue(p, q[m])
  BY <1>5, <1>6 DEF InQueue
<1>8. \A i \in 1..Len(p) : ~OwnTask(p[i], c) => InQueue(q, p[i])
  BY <1>2, <1>5 DEF InQueue
<1>9. \A m, k \in 1..Len(q) : m < k => Follows(q[m], q[k])
  BY <1>3, <1>5, <1>6
<1>10. SameTasks(q, p, c)
  BY <1>7, <1>8, <1>9 DEF SameTasks
<1>. QED BY <1>4, <1>7, <1>10 DEF p, gone, q

(* A task of the call at the end, when every task of it is an earlier chunk *)
LEMMA AppendTask ==
    ASSUME NEW s \in Bridges, NEW c \in Calls, OthersOk(s, c),
           NEW task \in Tasks, OwnTask(task, c),
           \A i \in 1..Len(s.queue) : OwnTask(s.queue[i], c) => Follows(s.queue[i], task)
    PROVE  SameTasks(Append(s.queue, task), s.queue, c)
<1>. DEFINE p == s.queue
            q == Append(p, task)
<1>1. p \in Seq(Tasks)
  BY DEF Bridges
<1>2. /\ \A i, j \in 1..Len(p) : i < j => Follows(p[i], p[j])
      /\ \A i \in 1..Len(p) : OwnTask(p[i], c) => Follows(p[i], task)
  BY DEF OthersOk
<1>. HIDE DEF p
<1>3. Len(q) = Len(p) + 1 /\ Len(p) \in Nat /\ q[Len(q)] = task
      /\ \A i \in 1..Len(p) : q[i] = p[i] /\ i \in 1..Len(q)
  BY <1>1
<1>4. \A i \in 1..Len(q) : i \in 1..Len(p) \/ i = Len(q)
  BY <1>3
<1>. HIDE DEF q
<1>5. \A i \in 1..Len(q) : ~OwnTask(q[i], c) => InQueue(p, q[i])
  BY <1>3, <1>4 DEF InQueue
<1>6. \A j \in 1..Len(p) : InQueue(q, p[j])
  BY <1>3 DEF InQueue
<1>7. \A i \in 1..Len(p) : Follows(p[i], task)
  BY <1>2 DEF Follows, OwnTask
<1>8. ASSUME NEW i \in 1..Len(q), NEW j \in 1..Len(q), i < j PROVE Follows(q[i], q[j])
  <2>1. i \in 1..Len(p)
    BY <1>3, <1>8
  <2>. QED BY <1>2, <1>3, <1>4, <1>7, <1>8, <2>1
<1>. QED BY <1>5, <1>6, <1>8 DEF SameTasks, p, q

(* The first task leaves the queue. *)
LEMMA DequeueTask ==
    ASSUME NEW s \in Bridges, NEW c \in Calls, OthersOk(s, c), s.queue # <<>>,
           Head(s.queue).call = c
    PROVE  /\ SameTasks(Tail(s.queue), s.queue, c)
           /\ Len(Tail(s.queue)) = Len(s.queue) - 1
           /\ \A i \in 1..Len(Tail(s.queue)) :
                 /\ i + 1 \in 1..Len(s.queue) /\ Tail(s.queue)[i] = s.queue[i + 1]
                 /\ Follows(Head(s.queue), Tail(s.queue)[i])
<1>. DEFINE p == s.queue
            q == Tail(p)
<1>1. p \in Seq(Tasks) /\ p # <<>> /\ Head(p).call = c
  BY DEF Bridges
<1>2. \A i, j \in 1..Len(p) : i < j => Follows(p[i], p[j])
  BY DEF OthersOk
<1>. HIDE DEF p
<1>3. Len(q) = Len(p) - 1 /\ Len(p) \in Nat \ {0} /\ Head(p) = p[1]
      /\ \A i \in 1..Len(q) : q[i] = p[i + 1] /\ i + 1 \in 1..Len(p) /\ i \in Nat
  BY <1>1
<1>4. \A i \in 1..Len(p) : i = 1 \/ (i - 1 \in 1..Len(q) /\ q[i - 1] = p[i])
  BY <1>3
<1>. HIDE DEF q
<1>5. \A i \in 1..Len(q) : InQueue(p, q[i])
  BY <1>3 DEF InQueue
<1>6. \A j \in 1..Len(p) : ~OwnTask(p[j], c) => p[j].kind = "revoke" \/ InQueue(q, p[j])
  BY <1>1, <1>3, <1>4 DEF InQueue, OwnTask
<1>7. \A i, j \in 1..Len(q) : i < j => Follows(q[i], q[j])
  BY <1>2, <1>3
<1>8. \A i \in 1..Len(q) : Follows(Head(p), q[i])
  BY <1>2, <1>3
<1>. QED BY <1>3, <1>5, <1>6, <1>7, <1>8 DEF SameTasks, p, q

-----------------------------------------------------------------------------
(* Settling a call                                                         *)

(* What must not change in a call: its outcome, and its readers' answers *)
Advances(x, y) ==
    /\ y.state = "unused" => x.state = "unused"
    /\ y.state = "settled" => x.state = "settled" /\ x.outcome = y.outcome
    /\ Len(y.readers) <= Len(x.readers)
    /\ \A i \in 1..Len(y.readers) : y.readers[i] \in Answered => x.readers[i] = y.readers[i]

Advance(r, s) == \A d \in Calls : Advances(r.calls[d], s.calls[d])

(* A call left alone advances, *)
LEMMA SameCoreAdvances ==
    ASSUME NEW x, NEW y \in CallRecords, SameCore(x, y)
    PROVE  Advances(x, y)
<1>1. Len(y.readers) \in Nat
  BY DEF CallRecords
<1>. QED BY <1>1 DEF SameCore, Advances

(* and so does a pending call that settles. *)
LEMMA SettledAdvances ==
    ASSUME NEW y \in CallRecords, NEW outcome \in Outcomes, NEW x,
           IsSettled(x, y, outcome), y.state = "active"
    PROVE  Advances(x, y)
<1>1. y.readers \in Seq(ReaderStates) /\ Len(y.readers) \in Nat
  BY DEF CallRecords
<1>. DEFINE p == y.readers
<1>. HIDE DEF p
<1>2. /\ Len(LastAnswers(y, outcome)) = Len(p)
      /\ \A i \in 1..Len(p) : p[i] \in Answered => LastAnswers(y, outcome)[i] = p[i]
  <2>1. p \in Seq(ReaderStates)
    BY <1>1 DEF p
  <2>2. \A a \in Answered : a \notin {"waiting", "assigned"}
    BY DEF Answered
  <2>3. "error" \in ReaderStates /\ "end" \in ReaderStates
    BY DEF ReaderStates
  <2>4. CASE outcome \in Errors
    <3>1. LastAnswers(y, outcome) = Answer(p, {"waiting", "assigned"}, "error")
      BY <2>4 DEF LastAnswers, p
    <3>. QED BY <2>1, <2>2, <2>3, <3>1, AnswerProperties
  <2>5. CASE outcome \notin Errors
    <3>1. LastAnswers(y, outcome) = Answer(p, {"waiting"}, "end")
      BY <2>5 DEF LastAnswers, p
    <3>. QED BY <2>1, <2>2, <2>3, <3>1, AnswerProperties
  <2>. QED BY <2>4, <2>5
<1>. QED BY <1>1, <1>2 DEF Advances, IsSettled, p

(* A call that settles is over, when an error answers all its readers or   *)
(* no chunk is left to answer one.                                         *)
LEMMA SettledOver ==
    ASSUME NEW y \in CallRecords, NEW outcome \in Outcomes, NEW x,
           IsSettled(x, y, outcome),
           outcome \in Errors \/ \A i \in 1..Len(y.readers) : y.readers[i] # "assigned",
           outcome = "failure" => y.cancelIssued
    PROVE  Over(x)
<1>1. y.readers \in Seq(ReaderStates) /\ Len(y.readers) \in Nat
  BY DEF CallRecords
<1>. DEFINE p == y.readers
            a == LastAnswers(y, outcome)
<1>. HIDE DEF p
<1>2. p \in Seq(ReaderStates) /\ \A i \in 1..Len(p) : p[i] \in ReaderStates
  BY <1>1 DEF p
<1>3. "error" \in ReaderStates /\ "end" \in ReaderStates
        /\ "error" \in Answered /\ "end" \in Answered
        /\ \A b \in ReaderStates : b \notin {"waiting", "assigned"} => b \in Answered
  BY DEF ReaderStates, Answered
<1>4. \A i \in 1..Len(a) : a[i] \in Answered
  <2>1. CASE outcome \in Errors
    <3>1. a = Answer(p, {"waiting", "assigned"}, "error")
      BY <2>1 DEF LastAnswers, p
    <3>2. Len(a) = Len(p)
          /\ \A i \in 1..Len(p) : a[i] = IF p[i] \in {"waiting", "assigned"} THEN "error" ELSE p[i]
      BY <1>2, <1>3, <3>1, AnswerProperties
    <3>. QED BY <1>2, <1>3, <3>2
  <2>2. CASE outcome \notin Errors
    <3>1. a = Answer(p, {"waiting"}, "end")
      BY <2>2 DEF LastAnswers, p
    <3>2. Len(a) = Len(p)
          /\ \A i \in 1..Len(p) : a[i] = IF p[i] \in {"waiting"} THEN "end" ELSE p[i]
      BY <1>2, <1>3, <3>1, AnswerProperties
    <3>3. \A i \in 1..Len(p) : p[i] # "assigned"
      BY <2>2 DEF p
    <3>. QED BY <1>2, <1>3, <3>2, <3>3
  <2>. QED BY <2>1, <2>2
<1>. QED BY <1>4 DEF Over, IsSettled

(* A settled call that is over is as the control invariant wants it. *)
LEMMA OverOk ==
    ASSUME NEW x, Over(x), x.state = "settled"
    PROVE  CallOk(x)
BY DEF Over, CallOk, CompletionOk, NoCompletion

(* A call that is settled takes its tasks with it. *)
LEMMA SettledControl ==
    ASSUME NEW s \in Bridges, NEW r \in Bridges, NEW c \in Calls, OthersOk(s, c),
           r.queue = Cleared(s.queue, TasksOf(s.queue, c)), r.stack = s.stack,
           SameCores(r, s, c), r.calls[c].state = "settled", Over(r.calls[c])
    PROVE  ControlOk(r)
<1>1. /\ SameTasks(r.queue, s.queue, c)
      /\ \A i \in 1..Len(r.queue) : ~OwnTask(r.queue[i], c)
  BY WithoutTasks
<1>2. SameStacks(r, s, c)
  BY SameTasksRefl DEF SameStacks, OnStack
<1>3. OthersOk(r, c)
  BY <1>1, <1>2, OthersKept
<1>4. CallOk(r.calls[c]) /\ r.calls[c].deliveries = {}
  BY OverOk DEF Over
<1>5. MineOk(r, c)
  BY <1>1, <1>4 DEF MineOk, CallControl, AwaitedOne, StackedOne
<1>. QED BY <1>3, <1>5, ControlParts

(* The deliveries of a call are finitely many: they have different numbers. *)
LEMMA DeliveriesFinite ==
    ASSUME NEW y \in CallRecords, CallOk(y)
    PROVE  IsFiniteSet(y.deliveries) /\ QueuedBinaries(y) \in Nat
<1>1. IsFiniteSet(y.deliveries)
  <2>1. CASE y.state # "active"
    BY <2>1, FS_EmptySet DEF CallOk, Over
  <2>2. CASE y.state = "active"
    <3>. DEFINE D == y.deliveries
                n == y.nextSequence
                f == [d \in D |-> d.sequence]
    <3>1. /\ n \in Nat
          /\ \A d \in D : d.sequence \in Nat /\ d.sequence < n
          /\ \A d, e \in D : d.sequence = e.sequence => d = e
      BY <2>2 DEF CallOk, StreamInOrder, AnswersInOrder, CallRecords, Deliveries
    <3>. HIDE DEF D, n
    <3>2. f \in Injection(D, 0..n)
      BY <3>1 DEF Injection, IsInjective
    <3>3. IsFiniteSet(0..n)
      BY <3>1, FS_Interval
    <3>4. IsFiniteSet(D)
      BY <3>2, <3>3, FS_Injection
    <3>. QED BY <3>4 DEF D
  <2>. QED BY <2>1, <2>2
<1>2. LET B == {d \in y.deliveries : d.binary = 1}
      IN IsFiniteSet(B) /\ Cardinality(B) \in Nat
  BY <1>1, FS_Subset, FS_CardinalityType
<1>3. y.completion.binary \in Nat
  BY DEF CallRecords, Completions
<1>. QED BY <1>1, <1>2, <1>3 DEF QueuedBinaries

(* Settle keeps the control invariant of a call about to end. *)
LEMMA SettleControl ==
    ASSUME NEW s \in Bridges, NEW c \in Calls, NEW outcome \in Outcomes, OthersOk(s, c),
           QueuedBinaries(s.calls[c]) \in Int, s.calls[c].state = "active",
           \/ outcome \in Errors
           \/ \A i \in 1..Len(s.calls[c].readers) : s.calls[c].readers[i] # "assigned",
           outcome = "failure" => s.calls[c].cancelIssued
    PROVE  LET r == Settle(s, c, outcome)
           IN r \in Bridges /\ ControlOk(r) /\ Advance(r, s)
<1>. DEFINE r == Settle(s, c, outcome)
<1>1. /\ r \in Bridges
      /\ r.queue = Cleared(s.queue, TasksOf(s.queue, c)) /\ r.stack = s.stack
      /\ \A d \in Calls : d # c => r.calls[d] = s.calls[d]
      /\ IsSettled(r.calls[c], s.calls[c], outcome)
      /\ \A t \in Tokens : r.held[t] = s.held[t] \/ s.held[t] = c
  BY SettleLoop
<1>. HIDE DEF r
<1>2. \A d \in Calls : s.calls[d] \in CallRecords
  BY DEF Bridges
<1>3. \A y : SameCore(y, y)
  BY DEF SameCore
<1>4. SameCores(r, s, c)
  BY <1>1, <1>3, Constants DEF SameCores
<1>5. Over(r.calls[c]) /\ Advances(r.calls[c], s.calls[c])
  BY <1>1, <1>2, SettledOver, SettledAdvances
<1>6. r.calls[c].state = "settled"
  BY <1>1 DEF IsSettled
<1>7. ControlOk(r)
  BY <1>1, <1>4, <1>5, <1>6, SettledControl
<1>8. Advance(r, s)
  BY <1>1, <1>2, <1>3, <1>5, SameCoreAdvances DEF Advance
<1>. QED BY <1>1, <1>7, <1>8 DEF r

(* Abort keeps the control invariant, whatever was locked before. *)
LEMMA AbortControl ==
    ASSUME NEW s \in Bridges, NEW c \in Calls, OthersOk(s, c),
           QueuedBinaries(s.calls[c]) \in Int, s.calls[c].state = "active"
    PROVE  LET r == Abort(s, c)
           IN r \in Bridges /\ ControlOk(r) /\ Advance(r, s)
<1>. DEFINE s1 == Settle(s, c, "failure")
            r == CancelProvider(s1, c)
<1>1. "failure" \in Outcomes /\ "failure" \in Errors
  BY DEF Outcomes, Errors
<1>2. /\ s1 \in Bridges
      /\ s1.queue = Cleared(s.queue, TasksOf(s.queue, c)) /\ s1.stack = s.stack
      /\ \A d \in Calls : d # c => s1.calls[d] = s.calls[d]
      /\ IsSettled(s1.calls[c], s.calls[c], "failure")
      /\ \A t \in Tokens : s1.held[t] = s.held[t] \/ s.held[t] = c
  BY <1>1, SettleLoop
<1>3. Abort(s, c) = r
  BY DEF Abort
<1>. HIDE DEF s1
<1>4. /\ r \in Bridges
      /\ r.queue = s1.queue /\ r.stack = s1.stack
      /\ SameProvider(r, s1) /\ SameCalls(r, s1, c)
      /\ r.calls[c] = CancelledCall(s1.calls[c])
  BY <1>2, CancelFields
<1>. HIDE DEF r
<1>5. \A d \in Calls : s.calls[d] \in CallRecords /\ s1.calls[d] \in CallRecords
  BY <1>2 DEF Bridges
<1>6. \A y : SameCore(y, y)
  BY DEF SameCore
<1>7. SameCores(r, s, c)
  BY <1>2, <1>4, <1>6, Constants DEF SameCores, SameProvider, SameCalls
<1>. DEFINE y == [s.calls[c] EXCEPT !.cancelIssued = TRUE]
<1>8. IsSettled(r.calls[c], y, "failure") /\ y \in CallRecords /\ y.cancelIssued
      /\ y.readers = s.calls[c].readers /\ y.state = s.calls[c].state
      /\ y.outcome = s.calls[c].outcome
  <2>1. s.calls[c] \in CallRecords
    BY DEF Bridges
  <2>2. y \in CallRecords /\ y.cancelIssued /\ y.readers = s.calls[c].readers
        /\ y.id = s.calls[c].id /\ y.mode = s.calls[c].mode /\ y.input = s.calls[c].input
        /\ y.nextSequence = s.calls[c].nextSequence /\ y.state = s.calls[c].state
        /\ y.outcome = s.calls[c].outcome
    BY <2>1 DEF CallRecords
  <2>3. LET z == r.calls[c] IN
        /\ z.state = s1.calls[c].state /\ z.completion = s1.calls[c].completion
        /\ z.deliveries = s1.calls[c].deliveries /\ z.credits = s1.calls[c].credits
        /\ z.registered = s1.calls[c].registered /\ z.deadline = s1.calls[c].deadline
        /\ z.outcome = s1.calls[c].outcome /\ z.readers = s1.calls[c].readers
        /\ z.id = s1.calls[c].id /\ z.mode = s1.calls[c].mode /\ z.input = s1.calls[c].input
        /\ z.nextSequence = s1.calls[c].nextSequence /\ z.cancelIssued = TRUE
    BY <1>4, <1>5 DEF CancelledCall, CallRecords
  <2>4. LastAnswers(y, "failure") = LastAnswers(s.calls[c], "failure")
    BY <2>2 DEF LastAnswers
  <2>. HIDE DEF y
  <2>5. IsSettled(r.calls[c], y, "failure")
    BY <1>2, <2>2, <2>3, <2>4 DEF IsSettled
  <2>. QED BY <2>2, <2>5
<1>. HIDE DEF y
<1>9. Over(r.calls[c]) /\ Advances(r.calls[c], y)
  BY <1>1, <1>8, SettledOver, SettledAdvances
<1>10. Advances(r.calls[c], s.calls[c])
  BY <1>8, <1>9 DEF Advances
<1>11. r.calls[c].state = "settled"
  BY <1>8 DEF IsSettled
<1>12. ControlOk(r)
  BY <1>2, <1>4, <1>7, <1>9, <1>11, SettledControl
<1>13. Advance(r, s)
  BY <1>2, <1>4, <1>5, <1>6, <1>10, SameCoreAdvances DEF Advance, SameCalls
<1>. QED BY <1>3, <1>4, <1>12, <1>13 DEF r

-----------------------------------------------------------------------------
(* Locking and scheduling the terminal of a call                           *)

LEMMA VariantFields ==
    ASSUME NEW y \in CallRecords, NEW completion
    PROVE  /\ LET x == LockedCall(y, completion) IN
              /\ x.completion = completion /\ x.credits = 0
              /\ x.id = y.id /\ x.mode = y.mode /\ x.state = y.state /\ x.input = y.input
              /\ x.deliveries = y.deliveries /\ x.nextSequence = y.nextSequence
              /\ x.readers = y.readers /\ x.registered = y.registered
              /\ x.deadline = y.deadline /\ x.cancelIssued = y.cancelIssued
              /\ x.outcome = y.outcome /\ x.closedTokens = y.closedTokens /\ x.todo = y.todo
           /\ LET x == CancelledCall(y) IN
              /\ x.completion = y.completion /\ x.credits = y.credits
              /\ x.id = y.id /\ x.mode = y.mode /\ x.state = y.state /\ x.input = y.input
              /\ x.deliveries = y.deliveries /\ x.nextSequence = y.nextSequence
              /\ x.readers = y.readers /\ x.registered = y.registered
              /\ x.deadline = y.deadline /\ x.cancelIssued
              /\ x.outcome = y.outcome /\ x.closedTokens = y.closedTokens /\ x.todo = y.todo
           /\ LET x == ScheduledCall(y) IN
              /\ x.completion = y.completion /\ x.credits = y.credits
              /\ x.id = y.id /\ x.mode = y.mode /\ x.state = y.state /\ x.input = y.input
              /\ x.deliveries = y.deliveries /\ x.nextSequence = y.nextSequence
              /\ x.readers = y.readers /\ ~x.registered
              /\ x.deadline = y.deadline /\ x.cancelIssued = y.cancelIssued
              /\ x.outcome = y.outcome /\ x.closedTokens = y.closedTokens /\ x.todo = y.todo
BY DEF CallRecords, LockedCall, CancelledCall, ScheduledCall

(* The order of answers is about the readers and the deliveries of a       *)
(* call.                                                                   *)
LEMMA AnswersSame ==
    ASSUME NEW x, NEW y, AnswersInOrder(y),
           x.mode = y.mode, x.deliveries = y.deliveries, x.nextSequence = y.nextSequence,
           x.readers = y.readers
    PROVE  AnswersInOrder(x)
BY DEF AnswersInOrder

(* A call stays in order when it is cancelled, scheduled, or locked. *)
LEMMA VariantOk ==
    ASSUME NEW y \in CallRecords, CallOk(y)
    PROVE  /\ CallOk(CancelledCall(y)) /\ CallOk(ScheduledCall(y))
           /\ \A completion \in Completions :
                 y.state = "active" /\ CompletionOk(completion) /\ completion.kind # "none"
                     => CallOk(LockedCall(y, completion))
<1>1. CallOk(CancelledCall(y))
  <2>. DEFINE x == CancelledCall(y)
  <2>1. /\ x.completion = y.completion /\ x.credits = y.credits
        /\ x.mode = y.mode /\ x.state = y.state
        /\ x.deliveries = y.deliveries /\ x.nextSequence = y.nextSequence
        /\ x.readers = y.readers /\ x.registered = y.registered
        /\ x.deadline = y.deadline /\ x.cancelIssued
        /\ x.outcome = y.outcome
    BY VariantFields
  <2>. SUFFICES CallOk(x)
    OBVIOUS
  <2>. HIDE DEF x
  <2>2. AnswersInOrder(y) => AnswersInOrder(x)
    BY <2>1, AnswersSame
  <2>. QED BY <2>1, <2>2 DEF CallOk, Over, StreamInOrder
<1>2. CallOk(ScheduledCall(y))
  <2>. DEFINE x == ScheduledCall(y)
  <2>1. /\ x.completion = y.completion /\ x.credits = y.credits
        /\ x.mode = y.mode /\ x.state = y.state
        /\ x.deliveries = y.deliveries /\ x.nextSequence = y.nextSequence
        /\ x.readers = y.readers /\ ~x.registered
        /\ x.deadline = y.deadline /\ x.cancelIssued = y.cancelIssued
        /\ x.outcome = y.outcome
    BY VariantFields
  <2>. SUFFICES CallOk(x)
    OBVIOUS
  <2>. HIDE DEF x
  <2>2. AnswersInOrder(y) => AnswersInOrder(x)
    BY <2>1, AnswersSame
  <2>. QED BY <2>1, <2>2 DEF CallOk, Over, StreamInOrder
<1>3. ASSUME NEW completion \in Completions,
             y.state = "active", CompletionOk(completion), completion.kind # "none"
      PROVE  CallOk(LockedCall(y, completion))
  <2>. DEFINE x == LockedCall(y, completion)
  <2>1. /\ x.completion = completion /\ x.credits = 0
        /\ x.mode = y.mode /\ x.state = y.state
        /\ x.deliveries = y.deliveries /\ x.nextSequence = y.nextSequence
        /\ x.readers = y.readers
    BY VariantFields
  <2>2. completion # NoCompletion
    BY <1>3 DEF NoCompletion
  <2>. SUFFICES CallOk(x)
    OBVIOUS
  <2>. HIDE DEF x
  <2>3. StreamInOrder(x)
    BY <1>3, <2>1, <2>2, AnswersSame DEF CallOk, StreamInOrder
  <2>. QED BY <1>3, <2>1, <2>2, <2>3 DEF CallOk
<1>. QED BY <1>1, <1>2, <1>3

(* ScheduleTerminal queues the terminal of a locked call behind its        *)
(* chunks.                                                                 *)
LEMMA ScheduleControl ==
    ASSUME NEW s \in Bridges, NEW c \in Calls, OthersOk(s, c), CallOk(s.calls[c]),
           \A x \in s.calls[c].deliveries : InQueue(s.queue, Chunk(c, x.sequence)),
           s.calls[c].state = "active", s.calls[c].completion # NoCompletion,
           s.calls[c].completion.kind = "failure" => s.calls[c].cancelIssued,
           ~OnStack(s, c),
           \A i \in 1..Len(s.queue) : OwnTask(s.queue[i], c) =>
               s.queue[i].kind = "chunk" /\ TaskOk(s, s.queue[i])
    PROVE  LET r == ScheduleTerminal(s, c)
           IN r \in Bridges /\ ControlOk(r) /\ Advance(r, s)
<1>. DEFINE r == ScheduleTerminal(s, c)
            y == s.calls[c]
            x == ScheduledCall(y)
            p == s.queue
            q == Append(p, Terminal(c))
<1>1. /\ r \in Bridges
      /\ r.stack = s.stack /\ SameProvider(r, s) /\ SameCalls(r, s, c)
      /\ r.queue = q /\ r.calls[c] = x
  BY ScheduleFields DEF IsCurrent, Locked
<1>. HIDE DEF r
<1>2. y \in CallRecords /\ \A d \in Calls : s.calls[d] \in CallRecords
  BY DEF Bridges
<1>3. CallOk(x) /\ x.completion = y.completion /\ x.deliveries = y.deliveries
      /\ x.state = y.state /\ x.cancelIssued = y.cancelIssued /\ x.readers = y.readers
      /\ x.outcome = y.outcome
  <2>. HIDE DEF y
  <2>. QED BY <1>2, VariantOk, VariantFields DEF y
<1>. HIDE DEF x
<1>4. Terminal(c) \in Tasks /\ OwnTask(Terminal(c), c) /\ Terminal(c).kind = "terminal"
      /\ Terminal(c).call = c /\ Terminal(c).arg = 0
  BY DEF Terminal, Tasks, OwnTask
<1>5. \A i \in 1..Len(p) : OwnTask(p[i], c) => Follows(p[i], Terminal(c))
  BY <1>4 DEF Follows
<1>6. SameTasks(q, p, c)
  BY <1>4, <1>5, AppendTask
<1>7. \A z : SameCore(z, z)
  BY DEF SameCore
<1>8. SameCores(r, s, c) /\ SameStacks(r, s, c)
  BY <1>1, <1>7, SameTasksRefl DEF SameCores, SameStacks, SameCalls, SameProvider, OnStack
<1>9. OthersOk(r, c)
  BY <1>1, <1>6, <1>8, OthersKept
<1>10. p \in Seq(Tasks)
  BY DEF Bridges
<1>. HIDE DEF p
<1>11. /\ \A task : InQueue(p, task) => InQueue(q, task)
       /\ InQueue(q, Terminal(c))
       /\ \A i \in 1..Len(q) : q[i] = Terminal(c) \/ (i \in 1..Len(p) /\ q[i] = p[i])
  <2>1. Len(q) = Len(p) + 1 /\ Len(p) \in Nat /\ q[Len(q)] = Terminal(c)
        /\ \A i \in 1..Len(p) : q[i] = p[i] /\ i \in 1..Len(q)
    BY <1>10
  <2>2. \A i \in 1..Len(q) : i \in 1..Len(p) \/ i = Len(q)
    BY <2>1
  <2>3. Len(q) \in 1..Len(q)
    BY <2>1
  <2>. HIDE DEF q
  <2>. QED BY <2>1, <2>2, <2>3 DEF InQueue
<1>. HIDE DEF q
<1>12. OnStack(r, c) <=> OnStack(s, c)
  BY <1>1 DEF OnStack
<1>13. CallControl(r, c)
  BY <1>1, <1>3, <1>11, <1>12 DEF CallControl, AwaitedOne, StackedOne, p, y
<1>14. \A i \in 1..Len(q) : OwnTask(q[i], c) => TaskOk(r, q[i])
  <2>1. TaskOk(r, Terminal(c))
    BY <1>1, <1>3, <1>4, <1>12 DEF TaskOk, y
  <2>2. ASSUME NEW i \in 1..Len(p), OwnTask(p[i], c) PROVE TaskOk(r, p[i])
    BY <1>1, <1>3, <1>12, <2>2 DEF TaskOk, OwnTask, p, y
  <2>. QED BY <1>11, <2>1, <2>2
<1>15. MineOk(r, c)
  BY <1>1, <1>13, <1>14 DEF MineOk
<1>16. Advance(r, s)
  <2>1. Len(y.readers) \in Nat
    BY <1>2 DEF CallRecords
  <2>2. Advances(x, y)
    BY <1>3, <2>1 DEF Advances
  <2>. QED BY <1>1, <1>2, <1>7, <2>2, SameCoreAdvances DEF Advance, SameCalls, y
<1>. QED BY <1>1, <1>9, <1>15, <1>16, ControlParts DEF r

(* To advance twice is to advance. *)
LEMMA AdvanceTrans ==
    ASSUME NEW s, NEW q, NEW r, Advance(r, q), Advance(q, s),
           \A d \in Calls : /\ Len(s.calls[d].readers) \in Nat
                            /\ Len(q.calls[d].readers) \in Nat
                            /\ Len(r.calls[d].readers) \in Nat
    PROVE  Advance(r, s)
<1>. SUFFICES ASSUME NEW d \in Calls PROVE Advances(r.calls[d], s.calls[d])
  BY DEF Advance
<1>. DEFINE x == r.calls[d]
            y == q.calls[d]
            z == s.calls[d]
<1>1. Advances(x, y) /\ Advances(y, z)
      /\ Len(x.readers) \in Nat /\ Len(y.readers) \in Nat /\ Len(z.readers) \in Nat
  BY DEF Advance
<1>. HIDE DEF x, y, z
<1>2. \A i \in 1..Len(z.readers) : i \in 1..Len(y.readers)
  BY <1>1 DEF Advances
<1>3. Advances(x, z)
  BY <1>1, <1>2 DEF Advances
<1>. QED BY <1>3 DEF x, z

-----------------------------------------------------------------------------
(* The handlers, one by one: the calls and the tasks they leave            *)

StepOk(r, s) == r \in Bridges /\ ControlOk(r) /\ Advance(r, s)

(* The record of a call has its type, *)
LEMMA CallOfBridge ==
    ASSUME NEW s \in Bridges, NEW c \in Calls
    PROVE  s.calls[c] \in CallRecords /\ Len(s.calls[c].readers) \in Nat
<1>1. s.calls[c] \in CallRecords
  BY DEF Bridges
<1>2. \A y \in CallRecords : Len(y.readers) \in Nat
  BY DEF CallRecords
<1>. QED BY <1>1, <1>2

(* and so has a task of the queue. *)
LEMMA TaskOfBridge ==
    ASSUME NEW s \in Bridges, NEW i \in 1..Len(s.queue)
    PROVE  /\ s.queue[i] \in Tasks /\ s.queue[i].call \in Calls
           /\ s.queue[i].kind \in {"terminal", "chunk", "revoke"}
<1>1. s.queue[i] \in Tasks
  BY DEF Bridges
<1>. QED BY <1>1 DEF Tasks

(* A call whose answers are unchanged advances. *)
LEMMA SameAnswersAdvance ==
    ASSUME NEW x, NEW y, Len(y.readers) \in Nat,
           x.state = y.state, x.outcome = y.outcome, x.readers = y.readers
    PROVE  Advances(x, y)
BY DEF Advances

(* A step that leaves calls and tasks alone *)
LEMMA SameLoopStep ==
    ASSUME NEW s \in Bridges, NEW r \in Bridges, ControlOk(s),
           r.queue = s.queue, r.stack = s.stack,
           \A d \in Calls : SameCore(r.calls[d], s.calls[d]),
           \A t \in Tokens : s.held[t] = Revoked => r.held[t] = Revoked
    PROVE  StepOk(r, s)
<1>1. ControlOk(r)
  BY ControlSame
<1>2. Advance(r, s)
  BY SameCoreAdvances, CallOfBridge DEF Advance
<1>. QED BY <1>1, <1>2 DEF StepOk

(* A call left alone is the same. *)
LEMMA SameCoreRefl == \A y : SameCore(y, y)
BY DEF SameCore

(* Before its terminal is scheduled, a call has only chunks in the queue. *)
LEMMA OwnChunks ==
    ASSUME NEW s \in Bridges, NEW c \in Calls, MineOk(s, c),
           s.calls[c].completion = NoCompletion \/ OnStack(s, c),
           NEW i \in 1..Len(s.queue), OwnTask(s.queue[i], c)
    PROVE  s.queue[i].kind = "chunk" /\ TaskOk(s, s.queue[i])
<1>1. TaskOk(s, s.queue[i])
  BY DEF MineOk
<1>. QED BY <1>1, TaskOfBridge DEF TaskOk, OwnTask

(* A call that is not pending has no task. *)
LEMMA NoOwnTask ==
    ASSUME NEW s \in Bridges, NEW c \in Calls, MineOk(s, c), s.calls[c].state # "active",
           NEW i \in 1..Len(s.queue)
    PROVE  ~OwnTask(s.queue[i], c)
<1>1. OwnTask(s.queue[i], c) => TaskOk(s, s.queue[i])
  BY DEF MineOk
<1>. QED BY <1>1, TaskOfBridge DEF TaskOk, OwnTask

(* cancelPending, handleDeadline, a pending call of terminateBridge *)
LEMMA AbortStep ==
    ASSUME NEW s \in Bridges, NEW c \in Calls, ControlOk(s), s.calls[c].state = "active"
    PROVE  StepOk(Abort(s, c), s)
<1>1. OthersOk(s, c) /\ MineOk(s, c)
  BY ControlParts
<1>2. QueuedBinaries(s.calls[c]) \in Int
  BY <1>1, DeliveriesFinite, CallOfBridge DEF MineOk, CallControl
<1>. QED BY <1>1, <1>2, AbortControl DEF StepOk

(* A record of the call that only differs in what does not concern others *)
LEMMA WithCallKept ==
    ASSUME NEW s \in Bridges, NEW c \in Calls, OthersOk(s, c), NEW r \in Bridges,
           r.queue = s.queue, r.stack = s.stack, r.held = s.held, SameCalls(r, s, c)
    PROVE  OthersOk(r, c)
<1>1. SameCores(r, s, c)
  BY SameCoreRefl DEF SameCores, SameCalls
<1>. QED BY <1>1, OthersSame

(* An event that is an error, and a rejected promise *)
LEMMA LockStep ==
    ASSUME NEW s \in Bridges, NEW c \in Calls, ControlOk(s), s.calls[c].state = "active",
           s.calls[c].completion = NoCompletion,
           NEW completion \in Completions, CompletionOk(completion),
           completion.kind \notin {"none", "failure"}
    PROVE  StepOk(ScheduleTerminal(LockTerminal(s, c, completion), c), s)
<1>. DEFINE q == LockTerminal(s, c, completion)
            y == s.calls[c]
            x == LockedCall(y, completion)
<1>1. OthersOk(s, c) /\ MineOk(s, c) /\ y \in CallRecords
  BY ControlParts, CallOfBridge
<1>2. /\ q \in Bridges /\ q.queue = s.queue /\ q.stack = s.stack
      /\ q.held = s.held /\ SameCalls(q, s, c) /\ q.calls[c] = x
  BY LockFields DEF SameProvider
<1>. HIDE DEF q
<1>3. CallOk(x)
  BY <1>1, VariantOk DEF MineOk, CallControl
<1>4. /\ x.completion = completion /\ x.state = y.state
      /\ x.deliveries = y.deliveries /\ x.readers = y.readers
      /\ x.cancelIssued = y.cancelIssued /\ x.outcome = y.outcome
  BY <1>1, VariantFields
<1>. HIDE DEF x
<1>5. OthersOk(q, c)
  BY <1>1, <1>2, WithCallKept
<1>6. ~OnStack(s, c) /\ (OnStack(q, c) <=> OnStack(s, c))
  <2>1. ~OnStack(s, c)
    BY <1>1 DEF MineOk, CallControl, StackedOne
  <2>. QED BY <1>2, <2>1 DEF OnStack
<1>7. \A i \in 1..Len(q.queue) : OwnTask(q.queue[i], c) =>
          q.queue[i].kind = "chunk" /\ TaskOk(q, q.queue[i])
  BY <1>1, <1>2, <1>4, OwnChunks DEF TaskOk, OwnTask
<1>8. completion # NoCompletion
  BY DEF NoCompletion
<1>9. LET r == ScheduleTerminal(q, c)
      IN r \in Bridges /\ ControlOk(r) /\ Advance(r, q)
  BY <1>1, <1>2, <1>3, <1>4, <1>5, <1>6, <1>7, <1>8, ScheduleControl DEF MineOk, CallControl
<1>10. Advance(q, s)
  <2>1. Advances(x, y)
    BY <1>4, CallOfBridge, SameAnswersAdvance
  <2>. QED BY <1>2, <2>1, SameCoreAdvances, SameCoreRefl, CallOfBridge DEF Advance, SameCalls
<1>11. Advance(ScheduleTerminal(q, c), s)
  BY <1>2, <1>9, <1>10, AdvanceTrans, CallOfBridge
<1>. QED BY <1>9, <1>11 DEF StepOk, q

(* Two methods in a row that keep the control invariant keep it together. *)
LEMMA StepTrans ==
    ASSUME NEW s \in Bridges, NEW q, NEW r, StepOk(q, s), StepOk(r, q)
    PROVE  StepOk(r, s)
BY AdvanceTrans, CallOfBridge DEF StepOk

FailureIsCompletion == FailureCompletion \in Completions /\ FailureCompletion.kind = "failure"
                       /\ CompletionOk(FailureCompletion) /\ FailureCompletion # NoCompletion

(* The completion of a call that the bridge fails *)
LEMMA FailureOk == FailureIsCompletion
BY DEF FailureIsCompletion, FailureCompletion, Completions, CompletionOk, NoCompletion

(* failProvider *)
LEMMA FailStep ==
    ASSUME NEW s \in Bridges, NEW c \in Calls, ControlOk(s)
    PROVE  StepOk(FailProvider(s, c), s)
<1>0. CASE ~(IsCurrent(s, c) /\ ~Locked(s, c))
  <2>1. FailProvider(s, c) = s
    BY <1>0 DEF FailProvider
  <2>. QED BY <2>1, SameLoopStep, SameCoreRefl
<1>00. CASE IsCurrent(s, c) /\ ~Locked(s, c)
  <2>. DEFINE q == LockTerminal(s, c, FailureCompletion)
              p == CancelProvider(q, c)
              y == s.calls[c]
              x == LockedCall(y, FailureCompletion)
              z == CancelledCall(x)
  <2>0. FailProvider(s, c) = ScheduleTerminal(p, c)
    BY <1>00 DEF FailProvider
  <2>1. OthersOk(s, c) /\ MineOk(s, c) /\ y \in CallRecords
        /\ y.state = "active" /\ y.completion = NoCompletion
    BY <1>00, ControlParts, CallOfBridge DEF IsCurrent, Locked
  <2>2. /\ q \in Bridges /\ q.queue = s.queue /\ q.stack = s.stack
        /\ q.held = s.held /\ SameCalls(q, s, c) /\ q.calls[c] = x
    BY FailureOk, LockFields DEF SameProvider, FailureIsCompletion
  <2>. HIDE DEF q
  <2>3. /\ p \in Bridges /\ p.queue = q.queue /\ p.stack = q.stack
        /\ p.held = q.held /\ SameCalls(p, q, c) /\ p.calls[c] = z
    BY <2>2, CancelFields DEF SameProvider
  <2>. HIDE DEF p
  <2>4. CallOk(x) /\ x \in CallRecords
    BY <2>1, FailureOk, VariantOk, CallVariants DEF MineOk, CallControl, FailureIsCompletion
  <2>5. /\ x.completion = FailureCompletion /\ x.state = y.state
        /\ x.deliveries = y.deliveries /\ x.readers = y.readers
        /\ x.outcome = y.outcome
    BY <2>1, VariantFields
  <2>. HIDE DEF x
  <2>6. CallOk(z)
    BY <2>4, VariantOk
  <2>7. /\ z.completion = FailureCompletion /\ z.state = y.state
        /\ z.deliveries = y.deliveries /\ z.readers = y.readers
        /\ z.cancelIssued /\ z.outcome = y.outcome
    BY <2>4, <2>5, VariantFields
  <2>. HIDE DEF z
  <2>8. SameCalls(p, s, c)
    BY <2>2, <2>3 DEF SameCalls
  <2>9. OthersOk(p, c)
    BY <2>1, <2>2, <2>3, <2>8, WithCallKept
  <2>10. ~OnStack(s, c) /\ ~OnStack(p, c)
    <3>1. ~OnStack(s, c)
      BY <2>1 DEF MineOk, CallControl, StackedOne
    <3>. QED BY <2>2, <2>3, <3>1 DEF OnStack
  <2>11. \A i \in 1..Len(p.queue) : OwnTask(p.queue[i], c) =>
            p.queue[i].kind = "chunk" /\ TaskOk(p, p.queue[i])
    BY <2>1, <2>2, <2>3, <2>7, OwnChunks DEF TaskOk, OwnTask
  <2>12. LET r == ScheduleTerminal(p, c)
        IN r \in Bridges /\ ControlOk(r) /\ Advance(r, p)
    BY <2>1, <2>2, <2>3, <2>6, <2>7, <2>9, <2>10, <2>11, FailureOk, ScheduleControl
       DEF MineOk, CallControl, FailureIsCompletion
  <2>13. Advance(p, s)
    <3>1. Advances(z, y)
      BY <2>7, CallOfBridge, SameAnswersAdvance
    <3>. QED BY <2>3, <2>8, <3>1, SameCoreAdvances, SameCoreRefl, CallOfBridge
         DEF Advance, SameCalls
  <2>14. Advance(ScheduleTerminal(p, c), s)
    BY <2>3, <2>12, <2>13, AdvanceTrans, CallOfBridge
  <2>. QED BY <2>0, <2>12, <2>14 DEF StepOk
<1>. QED BY <1>0, <1>00

(* An event that reserves its output, and one that fails its call *)
LEMMA GrantStep ==
    ASSUME NEW s \in Bridges, NEW c \in Calls, NEW T \in SUBSET Tokens, ControlOk(s)
    PROVE  LET r == Grant(s, c, T)
           IN StepOk(r, s) /\ r.calls = s.calls /\ r.queue = s.queue /\ r.stack = s.stack
<1>. DEFINE r == Grant(s, c, T)
<1>1. /\ r \in Bridges /\ SameLoop(r, s) /\ r.stack = s.stack
      /\ \A t \in Tokens : r.held[t] = IF t \in T /\ s.held[t] = Fresh THEN c ELSE s.held[t]
  BY GrantFields
<1>2. \A t \in Tokens : s.held[t] = Revoked => r.held[t] = Revoked
  BY <1>1 DEF Fresh, Revoked
<1>. QED BY <1>1, <1>2, SameLoopStep, SameCoreRefl DEF SameLoop

(* ReserveOutput touches neither calls nor loop. *)
LEMMA ReserveStep ==
    ASSUME NEW s \in Bridges, NEW c \in Calls, NEW T \in SUBSET Tokens, NEW b \in Int,
           ControlOk(s)
    PROVE  LET r == ReserveOutput(Grant(s, c, T), c, T, b)
           IN StepOk(r, s) /\ r.calls = s.calls /\ r.queue = s.queue /\ r.stack = s.stack
<1>. DEFINE q == Grant(s, c, T)
            r == ReserveOutput(q, c, T, b)
<1>1. StepOk(q, s) /\ q.calls = s.calls /\ q.queue = s.queue /\ q.stack = s.stack
  BY GrantStep
<1>. HIDE DEF q
<1>02. r \in Bridges /\ ReserveEffect(r, q, c, T, b)
  BY <1>1, ReserveFields DEF StepOk
<1>. HIDE DEF r
<1>2. /\ r \in Bridges /\ SameLoop(r, q) /\ r.stack = q.stack /\ r.held = q.held
  BY <1>02 DEF ReserveEffect
<1>3. StepOk(r, q)
  BY <1>1, <1>2, SameLoopStep, SameCoreRefl DEF SameLoop, StepOk
<1>. QED BY <1>1, <1>2, <1>3, StepTrans DEF SameLoop, q, r

(* The terminal of a call with its output keeps the control invariant. *)
LEMMA ReservedTerminalStep ==
    ASSUME NEW s \in Bridges, NEW c \in Calls, ControlOk(s), s.calls[c].state = "active",
           s.calls[c].completion = NoCompletion,
           NEW T \in SUBSET Tokens, NEW b \in 0..1
    PROVE  LET q == ReserveOutput(Grant(s, c, T), c, T, b)
               completion == [kind |-> "output", binary |-> b, grants |-> T]
           IN StepOk(ScheduleTerminal(LockTerminal(q, c, completion), c), s)
<1>. DEFINE q == ReserveOutput(Grant(s, c, T), c, T, b)
            completion == [kind |-> "output", binary |-> b, grants |-> T]
<1>1. StepOk(q, s) /\ q.calls = s.calls
  BY ReserveStep
<1>2. completion \in Completions /\ CompletionOk(completion)
      /\ completion.kind \notin {"none", "failure"}
  BY DEF Completions, CompletionOk
<1>. HIDE DEF q, completion
<1>3. StepOk(ScheduleTerminal(LockTerminal(q, c, completion), c), q)
  BY <1>1, <1>2, LockStep DEF StepOk
<1>. QED BY <1>1, <1>3, StepTrans DEF q, completion

(* CloseUndeliveredGrants touches the cleanup of its call only. *)
LEMMA CloseUndeliveredStep ==
    ASSUME NEW s \in Bridges, NEW c \in Calls, NEW T \in SUBSET Tokens, ControlOk(s)
    PROVE  StepOk(CloseUndeliveredGrants(s, c, T), s)
<1>. DEFINE r == CloseUndeliveredGrants(s, c, T)
<1>1. /\ r \in Bridges
      /\ r.queue = s.queue /\ r.stack = s.stack
      /\ ClosesUp(r, s, c, New(s, c, T))
  BY CloseUndeliveredFields
<1>. HIDE DEF r
<1>2. \A t \in Tokens : s.held[t] = Revoked => r.held[t] = Revoked
  BY <1>1, Constants DEF ClosesUp
<1>3. \A d \in Calls : SameCore(r.calls[d], s.calls[d])
  BY <1>1 DEF ClosesUp
<1>4. StepOk(r, s)
  BY <1>1, <1>2, <1>3, SameLoopStep
<1>. QED BY <1>4 DEF r

(* The call is locked, and its cleanup begins *)
LEMMA PushStep ==
    ASSUME NEW s \in Bridges, NEW c \in Calls, ControlOk(s), s.calls[c].state = "active",
           s.calls[c].completion = NoCompletion
    PROVE  StepOk(Push(LockTerminal(s, c, FailureCompletion), c), s)
<1>. DEFINE q == LockTerminal(s, c, FailureCompletion)
            r == Push(q, c)
            y == s.calls[c]
            x == LockedCall(y, FailureCompletion)
<1>1. OthersOk(s, c) /\ MineOk(s, c) /\ y \in CallRecords
  BY ControlParts, CallOfBridge
<1>2. /\ q \in Bridges /\ q.queue = s.queue /\ q.stack = s.stack
      /\ q.held = s.held /\ SameCalls(q, s, c) /\ q.calls[c] = x
  BY FailureOk, LockFields DEF SameProvider, FailureIsCompletion
<1>. HIDE DEF q
<1>3. /\ r \in Bridges /\ r.calls = q.calls /\ r.queue = q.queue /\ r.held = q.held
      /\ r.stack = Append(q.stack, c)
  BY <1>2, Constants, PushFields DEF SameLoop, SameProvider
<1>. HIDE DEF r
<1>4. CallOk(x)
  BY <1>1, FailureOk, VariantOk DEF MineOk, CallControl, FailureIsCompletion
<1>5. /\ x.completion = FailureCompletion /\ x.state = y.state
      /\ x.deliveries = y.deliveries /\ x.readers = y.readers
      /\ x.cancelIssued = y.cancelIssued /\ x.outcome = y.outcome
  BY <1>1, VariantFields
<1>. HIDE DEF x
<1>6. ~OnStack(s, c)
  BY <1>1 DEF MineOk, CallControl, StackedOne
<1>7. /\ \A d : OnStack(r, d) <=> OnStack(s, d) \/ d = c
      /\ \A i, j \in 1..Len(r.stack) : r.stack[i] = r.stack[j] => i = j
  <2>. DEFINE p == s.stack
  <2>1. p \in Seq(0..MaxCalls) /\ r.stack = Append(p, c)
    BY <1>2, <1>3 DEF Bridges
  <2>2. \A i, j \in 1..Len(p) : p[i] = p[j] => i = j
    BY <1>1 DEF OthersOk
  <2>3. \A i \in 1..Len(p) : p[i] # c
    BY <1>6 DEF OnStack
  <2>. DEFINE q2 == Append(p, c)
  <2>4. Len(q2) = Len(p) + 1 /\ Len(p) \in Nat /\ q2[Len(q2)] = c
        /\ \A i \in 1..Len(p) : q2[i] = p[i] /\ i \in 1..Len(q2)
    BY <2>1
  <2>5. \A i \in 1..Len(q2) : i \in 1..Len(p) \/ i = Len(q2)
    BY <2>4
  <2>6. \A i, j \in 1..Len(q2) : q2[i] = q2[j] => i = j
    <3>. HIDE DEF q2, p
    <3>. QED BY <2>2, <2>3, <2>4, <2>5
  <2>7. Len(q2) \in 1..Len(q2)
    BY <2>4
  <2>8. \A d : (\E i \in 1..Len(q2) : q2[i] = d) <=> (\E i \in 1..Len(p) : p[i] = d) \/ d = c
    <3>. HIDE DEF q2, p
    <3>. QED BY <2>4, <2>5, <2>7
  <2>. QED BY <2>1, <2>6, <2>8 DEF OnStack
<1>8. SameStacks(r, s, c) /\ SameCores(r, s, c)
  BY <1>2, <1>3, <1>7, SameCoreRefl DEF SameStacks, SameCores, SameCalls
<1>9. OthersOk(r, c)
  BY <1>1, <1>2, <1>3, <1>8, SameTasksRefl, OthersKept
<1>10. CallControl(r, c)
  BY <1>1, <1>2, <1>3, <1>4, <1>5, <1>7, FailureOk
     DEF MineOk, CallControl, AwaitedOne, StackedOne, FailureIsCompletion
<1>11. \A i \in 1..Len(r.queue) : OwnTask(r.queue[i], c) => TaskOk(r, r.queue[i])
  BY <1>1, <1>2, <1>3, <1>5, OwnChunks DEF TaskOk, OwnTask
<1>12. ControlOk(r)
  BY <1>9, <1>10, <1>11, ControlParts DEF MineOk
<1>13. Advance(r, s)
  <2>1. Advances(x, y)
    BY <1>5, CallOfBridge, SameAnswersAdvance
  <2>. QED BY <1>2, <1>3, <2>1, SameCoreAdvances, SameCoreRefl, CallOfBridge
       DEF Advance, SameCalls
<1>. QED BY <1>3, <1>12, <1>13 DEF StepOk, r, q

(* failProviderWithUndelivered *)
LEMMA FailUndeliveredStep ==
    ASSUME NEW s \in Bridges, NEW c \in Calls, ControlOk(s), s.calls[c].state = "active",
           s.calls[c].completion = NoCompletion, NEW T \in SUBSET Tokens
    PROVE  StepOk(FailProviderWithUndelivered(Grant(s, c, T), c, T), s)
<1>. DEFINE q == Grant(s, c, T)
            p == Push(LockTerminal(q, c, FailureCompletion), c)
<1>1. StepOk(q, s) /\ q.calls = s.calls
  BY GrantStep
<1>2. FailProviderWithUndelivered(q, c, T) = CloseUndeliveredGrants(p, c, T)
  BY DEF FailProviderWithUndelivered
<1>. HIDE DEF q
<1>3. StepOk(p, q)
  BY <1>1, PushStep DEF StepOk
<1>. HIDE DEF p
<1>4. StepOk(CloseUndeliveredGrants(p, c, T), p)
  BY <1>3, CloseUndeliveredStep DEF StepOk
<1>5. StepOk(CloseUndeliveredGrants(p, c, T), q)
  BY <1>1, <1>3, <1>4, StepTrans DEF StepOk
<1>6. StepOk(CloseUndeliveredGrants(p, c, T), s)
  BY <1>1, <1>5, StepTrans
<1>. QED BY <1>2, <1>6 DEF q

(* request, stream: the call that is admitted *)
NewCall(id, mode, input, deadline) ==
    [UnusedCall EXCEPT !.id = id, !.mode = mode, !.state = "active",
                       !.input = input, !.registered = TRUE, !.deadline = deadline]

AfterAdmit(s, c, call) ==
    [s EXCEPT !.calls[c] = call, !.inFlight = @ + call.input,
              !.openHandles = @ + (call.input + StreamHandle(call))]

AdmitEffect(r, s, c, call) ==
    /\ r.queue = s.queue /\ r.stack = s.stack
    /\ SameProvider(r, s) /\ SameCalls(r, s, c) /\ r.calls[c] = call
    /\ r.credits = s.credits /\ r.openResources = s.openResources
    /\ r.inFlight = s.inFlight + call.input
    /\ r.openHandles = s.openHandles + (call.input + StreamHandle(call))

(* The record of an admitted call *)
LEMMA NewCallFields ==
    ASSUME NEW id \in Ids, NEW mode \in {"result", "stream"}, NEW input \in 0..1,
           NEW deadline \in BOOLEAN
    PROVE  LET x == NewCall(id, mode, input, deadline)
           IN /\ x \in CallRecords
              /\ x.id = id /\ x.mode = mode /\ x.state = "active" /\ x.input = input
              /\ x.completion = NoCompletion /\ x.deliveries = {} /\ x.nextSequence = 0
              /\ x.credits = 0 /\ x.readers = <<>> /\ x.registered
              /\ x.closedTokens = {} /\ x.todo = {} /\ ~x.cancelIssued
              /\ x.deadline = deadline /\ x.outcome = "none"
<1>. DEFINE x == NewCall(id, mode, input, deadline)
<1>1. UnusedCall \in CallRecords
  <2>1. NoCompletion \in Completions /\ <<>> \in Seq(ReaderStates)
    BY DEF NoCompletion, Completions
  <2>. QED BY <2>1 DEF CallRecords, UnusedCall
<1>. DEFINE u == [UnusedCall EXCEPT !.id = id, !.mode = mode, !.state = "active"]
            v == [u EXCEPT !.input = input, !.registered = TRUE, !.deadline = deadline]
<1>2. u \in CallRecords /\ u.id = id /\ u.mode = mode /\ u.state = "active"
      /\ u.completion = NoCompletion /\ u.deliveries = {} /\ u.nextSequence = 0
      /\ u.credits = 0 /\ u.readers = <<>> /\ u.closedTokens = {} /\ u.todo = {}
      /\ ~u.cancelIssued /\ u.outcome = "none"
  BY <1>1 DEF CallRecords, UnusedCall
<1>3. x = v
  BY DEF NewCall
<1>. HIDE DEF u, x
<1>4. v \in CallRecords /\ v.id = u.id /\ v.mode = u.mode /\ v.state = u.state
      /\ v.input = input /\ v.registered /\ v.deadline = deadline
      /\ v.completion = u.completion /\ v.deliveries = u.deliveries
      /\ v.nextSequence = u.nextSequence /\ v.credits = u.credits
      /\ v.readers = u.readers /\ v.closedTokens = u.closedTokens /\ v.todo = u.todo
      /\ v.cancelIssued = u.cancelIssued /\ v.outcome = u.outcome
  BY <1>2 DEF CallRecords
<1>. HIDE DEF v
<1>. QED BY <1>2, <1>3, <1>4 DEF x

(* The admission of a call, field by field *)
LEMMA AdmitFields ==
    ASSUME NEW s \in Bridges, NEW c \in Calls, NEW call \in CallRecords
    PROVE  LET r == AfterAdmit(s, c, call)
           IN r \in Bridges /\ AdmitEffect(r, s, c, call)
<1>. DEFINE n == call.input
            h == call.input + StreamHandle(call)
            q == WithCall(s, c, call)
            r == [q EXCEPT !.inFlight = @ + n, !.openHandles = @ + h]
<1>1. n \in Int /\ h \in Int
  BY DEF CallRecords, StreamHandle
<1>2. AfterAdmit(s, c, call) = r
  BY DEF AfterAdmit, WithCall
<1>. HIDE DEF n, h
<1>3. /\ q \in Bridges
      /\ q.queue = s.queue /\ q.stack = s.stack
      /\ q.held = s.held /\ q.strayClose = s.strayClose
      /\ q.resources = s.resources /\ q.byToken = s.byToken
      /\ q.inFlight = s.inFlight /\ q.credits = s.credits
      /\ q.openHandles = s.openHandles /\ q.openResources = s.openResources
      /\ q.calls[c] = call
      /\ \A d \in Calls : d # c => q.calls[d] = s.calls[d]
  BY CallFields
<1>. HIDE DEF q
<1>4. r \in Bridges
  <2>1. q.inFlight + n \in Int /\ q.openHandles + h \in Int
    BY <1>1, <1>3 DEF Bridges
  <2>. QED BY <1>3, <2>1 DEF Bridges
<1>5. /\ r.queue = q.queue /\ r.stack = q.stack
      /\ r.held = q.held /\ r.strayClose = q.strayClose
      /\ r.resources = q.resources /\ r.byToken = q.byToken
      /\ r.credits = q.credits /\ r.openResources = q.openResources /\ r.calls = q.calls
      /\ r.inFlight = q.inFlight + n /\ r.openHandles = q.openHandles + h
  BY <1>3 DEF Bridges
<1>. HIDE DEF r
<1>6. AdmitEffect(r, s, c, call)
  BY <1>3, <1>5 DEF AdmitEffect, SameProvider, SameCalls, n, h
<1>. QED BY <1>2, <1>4, <1>6

(* An admitted call is in order: it keeps the loop alive. *)
LEMMA AdmitStep ==
    ASSUME NEW s \in Bridges, NEW c \in Calls, ControlOk(s), s.calls[c].state = "unused",
           NEW id \in Ids, NEW mode \in {"result", "stream"}, NEW input \in 0..1,
           NEW deadline \in BOOLEAN
    PROVE  LET r == AfterAdmit(s, c, NewCall(id, mode, input, deadline))
           IN /\ r \in Bridges /\ ControlOk(r)
              /\ SameCalls(r, s, c) /\ s.calls[c].readers = <<>>
<1>. DEFINE x == NewCall(id, mode, input, deadline)
            r == AfterAdmit(s, c, x)
            y == s.calls[c]
<1>1. OthersOk(s, c) /\ MineOk(s, c) /\ y \in CallRecords /\ Over(y)
  BY ControlParts, CallOfBridge DEF MineOk, CallControl, CallOk
<1>2. /\ x \in CallRecords /\ x.state = "active" /\ x.completion = NoCompletion
      /\ x.deliveries = {} /\ x.nextSequence = 0 /\ x.credits = 0 /\ x.readers = <<>>
      /\ x.registered
  BY NewCallFields
<1>. HIDE DEF x
<1>3. r \in Bridges /\ AdmitEffect(r, s, c, x)
  BY <1>2, AdmitFields
<1>. HIDE DEF r
<1>4. /\ r.queue = s.queue /\ r.stack = s.stack /\ r.held = s.held
      /\ SameCalls(r, s, c) /\ r.calls[c] = x
  BY <1>3 DEF AdmitEffect, SameProvider
<1>5. OthersOk(r, c)
  BY <1>1, <1>3, <1>4, WithCallKept
<1>6. CallOk(x)
  <2>1. CompletionOk(x.completion) /\ x.completion.kind = "none"
    BY <1>2 DEF CompletionOk, NoCompletion
  <2>2. AnswersInOrder(x)
    BY <1>2, Constants DEF AnswersInOrder
  <2>. QED BY <1>2, <2>1, <2>2 DEF CallOk, StreamInOrder
<1>7. ~OnStack(s, c)
  BY <1>1 DEF MineOk, CallControl, StackedOne
<1>8. CallControl(r, c)
  BY <1>2, <1>4, <1>6, <1>7 DEF CallControl, AwaitedOne, StackedOne, OnStack
<1>9. \A i \in 1..Len(r.queue) : ~OwnTask(r.queue[i], c)
  BY <1>1, <1>4, NoOwnTask
<1>10. ControlOk(r)
  BY <1>5, <1>8, <1>9, ControlParts DEF MineOk
<1>11. y.readers = <<>>
  BY <1>1 DEF MineOk, CallControl, CallOk
<1>. QED BY <1>3, <1>4, <1>10, <1>11 DEF r, x

(* A task at the end of the queue *)
LEMMA QueueEnd ==
    ASSUME NEW p \in Seq(Tasks), NEW task \in Tasks
    PROVE  /\ \A z : InQueue(Append(p, task), z) <=> InQueue(p, z) \/ z = task
           /\ \A i \in 1..Len(Append(p, task)) :
                 Append(p, task)[i] = task \/ (i \in 1..Len(p) /\ Append(p, task)[i] = p[i])
<1>. DEFINE q == Append(p, task)
<1>1. Len(q) = Len(p) + 1 /\ Len(p) \in Nat /\ q[Len(q)] = task
      /\ \A i \in 1..Len(p) : q[i] = p[i] /\ i \in 1..Len(q)
  OBVIOUS
<1>2. \A i \in 1..Len(q) : i \in 1..Len(p) \/ i = Len(q)
  BY <1>1
<1>3. Len(q) \in 1..Len(q)
  BY <1>1
<1>. HIDE DEF q
<1>4. \A z : InQueue(q, z) <=> InQueue(p, z) \/ z = task
  BY <1>1, <1>2, <1>3 DEF InQueue
<1>5. \A i \in 1..Len(q) : q[i] = task \/ (i \in 1..Len(p) /\ q[i] = p[i])
  BY <1>1, <1>2
<1>. QED BY <1>4, <1>5 DEF q

(* A step that changes one call, and neither its outputs nor its terminal *)
LEMMA OneCallStep ==
    ASSUME NEW s \in Bridges, NEW r \in Bridges, NEW c \in Calls, ControlOk(s),
           r.queue = s.queue, r.stack = s.stack, r.held = s.held, SameCalls(r, s, c),
           r.calls[c].state = s.calls[c].state,
           r.calls[c].completion = s.calls[c].completion,
           r.calls[c].deliveries = s.calls[c].deliveries,
           r.calls[c].registered = s.calls[c].registered,
           s.calls[c].cancelIssued => r.calls[c].cancelIssued,
           CallOk(r.calls[c]), Advances(r.calls[c], s.calls[c])
    PROVE  StepOk(r, s)
<1>1. OthersOk(s, c) /\ MineOk(s, c)
  BY ControlParts
<1>2. OthersOk(r, c)
  BY <1>1, WithCallKept
<1>3. OnStack(r, c) <=> OnStack(s, c)
  BY DEF OnStack
<1>4. CallControl(r, c)
  BY <1>1, <1>3 DEF MineOk, CallControl, AwaitedOne, StackedOne
<1>5. \A i \in 1..Len(r.queue) : OwnTask(r.queue[i], c) => TaskOk(r, r.queue[i])
  BY <1>1, <1>3 DEF MineOk, TaskOk, OwnTask
<1>6. ControlOk(r)
  BY <1>2, <1>4, <1>5, ControlParts DEF MineOk
<1>7. Advance(r, s)
  BY SameCoreAdvances, SameCoreRefl, CallOfBridge DEF Advance, SameCalls
<1>. QED BY <1>6, <1>7 DEF StepOk

(* cancelPendingProvider *)
LEMMA CancelStep ==
    ASSUME NEW s \in Bridges, NEW c \in Calls, ControlOk(s)
    PROVE  StepOk(CancelProvider(s, c), s)
<1>. DEFINE r == CancelProvider(s, c)
            y == s.calls[c]
            x == CancelledCall(y)
<1>1. y \in CallRecords /\ CallOk(y) /\ Len(y.readers) \in Nat
  BY CallOfBridge DEF ControlOk
<1>2. /\ r \in Bridges /\ r.queue = s.queue /\ r.stack = s.stack
      /\ r.held = s.held /\ SameCalls(r, s, c) /\ r.calls[c] = x
  BY CancelFields DEF SameProvider
<1>3. CallOk(x)
  BY <1>1, VariantOk
<1>4. /\ x.state = y.state /\ x.completion = y.completion
      /\ x.deliveries = y.deliveries /\ x.registered = y.registered /\ x.cancelIssued
      /\ x.outcome = y.outcome /\ x.readers = y.readers
  BY <1>1, VariantFields
<1>. HIDE DEF r, x, y
<1>5. Advances(x, y)
  BY <1>1, <1>4, SameAnswersAdvance
<1>. QED BY <1>2, <1>3, <1>4, <1>5, OneCallStep DEF r, y

(* readStream of a stream whose end is known, and of one that is open *)
ReadCall(call) == [call EXCEPT !.readers = Append(@, "waiting")]
CreditedCall(call) == [ReadCall(call) EXCEPT !.credits = @ + 1]
AfterRead(s, c) == [s EXCEPT !.calls[c].readers = Append(@, "waiting")]
AfterCredit(s, c) == [AfterRead(s, c) EXCEPT !.calls[c].credits = @ + 1, !.credits = @ + 1]

ReadEffect(r, s, c, x, k) ==
    /\ r.queue = s.queue /\ r.stack = s.stack
    /\ SameProvider(r, s) /\ SameCounters(r, s) /\ SameCalls(r, s, c)
    /\ r.calls[c] = x /\ r.credits = s.credits + k

(* The record of a call with one more next() *)
LEMMA ReadCallFields ==
    ASSUME NEW y \in CallRecords
    PROVE  /\ LET x == ReadCall(y) IN
              /\ x \in CallRecords /\ x.credits = y.credits
              /\ x.id = y.id /\ x.mode = y.mode /\ x.state = y.state /\ x.input = y.input
              /\ x.completion = y.completion
              /\ x.deliveries = y.deliveries /\ x.nextSequence = y.nextSequence
              /\ x.readers = Append(y.readers, "waiting") /\ x.registered = y.registered
              /\ x.deadline = y.deadline /\ x.cancelIssued = y.cancelIssued
              /\ x.outcome = y.outcome /\ x.closedTokens = y.closedTokens /\ x.todo = y.todo
           /\ LET x == CreditedCall(y) IN
              /\ x \in CallRecords /\ x.credits = y.credits + 1
              /\ x.id = y.id /\ x.mode = y.mode /\ x.state = y.state /\ x.input = y.input
              /\ x.completion = y.completion
              /\ x.deliveries = y.deliveries /\ x.nextSequence = y.nextSequence
              /\ x.readers = Append(y.readers, "waiting") /\ x.registered = y.registered
              /\ x.deadline = y.deadline /\ x.cancelIssued = y.cancelIssued
              /\ x.outcome = y.outcome /\ x.closedTokens = y.closedTokens /\ x.todo = y.todo
<1>1. Append(y.readers, "waiting") \in Seq(ReaderStates) /\ y.credits + 1 \in Nat
  <2>1. y.readers \in Seq(ReaderStates) /\ y.credits \in Nat /\ "waiting" \in ReaderStates
    BY DEF CallRecords, ReaderStates
  <2>. QED BY <2>1
<1>. QED BY <1>1 DEF CallRecords, ReadCall, CreditedCall

(* ReadStream, field by field *)
LEMMA ReadFields ==
    ASSUME NEW s \in Bridges, NEW c \in Calls
    PROVE  /\ AfterRead(s, c) \in Bridges
           /\ ReadEffect(AfterRead(s, c), s, c, ReadCall(s.calls[c]), 0)
           /\ AfterCredit(s, c) \in Bridges
           /\ ReadEffect(AfterCredit(s, c), s, c, CreditedCall(s.calls[c]), 1)
<1>. DEFINE y == s.calls[c]
            q == WithCall(s, c, ReadCall(y))
            p == WithCall(q, c, CreditedCall(y))
            r == [p EXCEPT !.credits = @ + 1]
<1>1. y \in CallRecords /\ ReadCall(y) \in CallRecords /\ CreditedCall(y) \in CallRecords
  BY CallOfBridge, ReadCallFields
<1>2. AfterRead(s, c) = q
  BY <1>1 DEF AfterRead, WithCall, ReadCall, Bridges
<1>3. q \in Bridges /\ q.calls[c] = ReadCall(y) /\ ReadEffect(q, s, c, ReadCall(y), 0)
  <2>1. s.credits + 0 = s.credits
    BY DEF Bridges
  <2>. QED BY <1>1, <2>1, CallFields DEF ReadEffect, SameProvider, SameCounters, SameCalls
<1>4. AfterCredit(s, c) = r
  <2>. HIDE DEF q
  <2>. QED BY <1>2, <1>3 DEF AfterCredit, WithCall, CreditedCall, Bridges
<1>. HIDE DEF q
<1>5. /\ p \in Bridges
      /\ p.queue = q.queue /\ p.stack = q.stack /\ p.credits = q.credits
      /\ SameProvider(p, q) /\ SameCounters(p, q) /\ SameCalls(p, q, c)
      /\ p.calls[c] = CreditedCall(y)
  BY <1>1, <1>3, CallFields DEF SameProvider, SameCounters, SameCalls
<1>. HIDE DEF p
<1>6. p.credits + 1 \in Int /\ p.credits = s.credits
  BY <1>3, <1>5 DEF Bridges, ReadEffect
<1>7. r \in Bridges /\ r.queue = p.queue /\ r.stack = p.stack /\ r.credits = p.credits + 1
      /\ SameProvider(r, p) /\ SameCounters(r, p) /\ r.calls = p.calls
  BY <1>5, <1>6 DEF Bridges, SameProvider, SameCounters
<1>. HIDE DEF r
<1>8. ReadEffect(r, s, c, CreditedCall(y), 1)
  BY <1>3, <1>5, <1>6, <1>7 DEF ReadEffect, SameProvider, SameCounters, SameCalls
<1>. QED BY <1>2, <1>3, <1>4, <1>7, <1>8

(* One more reader waits. *)
LEMMA ReadAnswers ==
    ASSUME NEW y \in CallRecords, NEW x, AnswersInOrder(y), Len(y.readers) < MaxReads,
           y.mode = "stream", x.mode = y.mode, x.deliveries = y.deliveries,
           x.nextSequence = y.nextSequence, x.readers = Append(y.readers, "waiting")
    PROVE  /\ AnswersInOrder(x) /\ Len(x.readers) = Len(y.readers) + 1
           /\ \A i \in 1..Len(y.readers) : x.readers[i] = y.readers[i]
<1>. DEFINE p == y.readers
            q == Append(p, "waiting")
            n == Len(p)
<1>1. p \in Seq(ReaderStates) /\ y.nextSequence \in Nat /\ y.deliveries \in SUBSET Deliveries
  BY DEF CallRecords
<1>2. /\ Len(q) = n + 1 /\ n \in Nat /\ q[n + 1] = "waiting"
      /\ \A i \in 1..n : q[i] = p[i]
  BY <1>1
<1>3. \A i \in 1..(n + 1) : i \in 1..n \/ i = n + 1
  BY <1>2
<1>4. \A d \in y.deliveries : d.sequence \in Nat
  BY <1>1 DEF Deliveries
<1>5. n + 1 <= MaxReads
  BY <1>2, Constants
<1>. HIDE DEF p, q
<1>6. x.readers = q /\ Len(x.readers) = n + 1
  BY <1>2 DEF p, q
<1>. HIDE DEF n
<1>7. \A i \in 1..(n + 1) :
          /\ q[i] = "waiting" <=> y.nextSequence < i
          /\ q[i] = "assigned" => \E d \in y.deliveries : d.sequence = i - 1
          /\ \A j \in 1..(n + 1) :
                 i < j /\ q[i] = "assigned" => q[j] \in {"assigned", "waiting"}
          /\ q[i] # "end"
  <2>1. \A i \in 1..n : /\ p[i] = "waiting" <=> y.nextSequence < i
                        /\ p[i] = "assigned" => \E d \in y.deliveries : d.sequence = i - 1
                        /\ \A j \in 1..n : i < j /\ p[i] = "assigned" =>
                                              p[j] \in {"assigned", "waiting"}
                        /\ p[i] # "end"
    BY DEF AnswersInOrder, p, n
  <2>2. y.nextSequence < n + 1
    BY <1>1, <1>2 DEF AnswersInOrder, p, n
  <2>3. q[n + 1] = "waiting" /\ y.nextSequence < n + 1
    BY <1>2, <2>2
  <2>4. ASSUME NEW i \in 1..(n + 1)
        PROVE  /\ q[i] = "waiting" <=> y.nextSequence < i
               /\ q[i] = "assigned" => \E d \in y.deliveries : d.sequence = i - 1
               /\ q[i] # "end"
    BY <1>2, <1>3, <2>1, <2>3
  <2>5. ASSUME NEW i \in 1..(n + 1), NEW j \in 1..(n + 1), i < j, q[i] = "assigned"
        PROVE  q[j] \in {"assigned", "waiting"}
    <3>1. i \in 1..n
      BY <1>2, <1>3, <2>5
    <3>. QED BY <1>2, <1>3, <2>1, <2>5, <3>1
  <2>. QED BY <2>4, <2>5
<1>8. \A d \in y.deliveries :
          /\ d.sequence < y.nextSequence /\ d.reader = d.sequence + 1
          /\ q[d.reader] = "assigned"
          /\ \A e \in y.deliveries : d.sequence = e.sequence => d = e
  <2>. SUFFICES ASSUME NEW d \in y.deliveries
                PROVE  /\ d.sequence < y.nextSequence /\ d.reader = d.sequence + 1
                       /\ q[d.reader] = "assigned"
                       /\ \A e \in y.deliveries : d.sequence = e.sequence => d = e
    OBVIOUS
  <2>1. /\ d.sequence < y.nextSequence /\ d.reader = d.sequence + 1
        /\ p[d.reader] = "assigned" /\ y.nextSequence <= n
        /\ \A e \in y.deliveries : d.sequence = e.sequence => d = e
    BY DEF AnswersInOrder, p, n
  <2>2. d.reader \in 1..n
    BY <1>1, <1>2, <1>4, <2>1
  <2>. QED BY <1>2, <2>1, <2>2
<1>9. y.nextSequence <= n + 1
  <2>1. y.nextSequence <= n
    BY DEF AnswersInOrder, p, n
  <2>. QED BY <1>1, <1>2, <2>1
<1>10. AnswersInOrder(x)
  <2>1. Len(x.readers) <= MaxReads /\ x.nextSequence <= Len(x.readers) /\ x.mode # "result"
    BY <1>5, <1>6, <1>9
  <2>2. \A i \in 1..Len(x.readers) :
           /\ x.readers[i] = "waiting" <=> x.nextSequence < i
           /\ x.readers[i] = "assigned" => \E d \in x.deliveries : d.sequence = i - 1
           /\ \A j \in 1..Len(x.readers) :
                  i < j /\ x.readers[i] = "assigned" =>
                      x.readers[j] \in {"assigned", "waiting"}
           /\ x.readers[i] # "end"
    BY <1>6, <1>7
  <2>3. \A d \in x.deliveries :
           /\ d.sequence < x.nextSequence /\ d.reader = d.sequence + 1
           /\ x.readers[d.reader] = "assigned"
           /\ \A e \in x.deliveries : d.sequence = e.sequence => d = e
    BY <1>6, <1>8
  <2>. QED BY <2>1, <2>2, <2>3 DEF AnswersInOrder
<1>. QED BY <1>2, <1>6, <1>10 DEF p, n

(* One more next() keeps the answers in order, with a credit or without. *)
LEMMA ReadStep ==
    ASSUME NEW s \in Bridges, NEW c \in Calls, ControlOk(s), s.calls[c].state = "active",
           s.calls[c].mode = "stream", Len(s.calls[c].readers) < MaxReads
    PROVE  /\ s.calls[c].completion # NoCompletion => StepOk(AfterRead(s, c), s)
           /\ s.calls[c].completion = NoCompletion => StepOk(AfterCredit(s, c), s)
<1>. DEFINE y == s.calls[c]
<1>1. y \in CallRecords /\ CallOk(y) /\ Len(y.readers) \in Nat /\ AnswersInOrder(y)
      /\ y.nextSequence \in Nat /\ y.credits \in Nat
  BY CallOfBridge DEF ControlOk, CallOk, StreamInOrder, CallRecords
<1>2. ASSUME NEW r \in Bridges, NEW x \in CallRecords, NEW k, ReadEffect(r, s, c, x, k),
             x.mode = y.mode, x.state = y.state, x.completion = y.completion,
             x.deliveries = y.deliveries, x.nextSequence = y.nextSequence,
             x.readers = Append(y.readers, "waiting"), x.registered = y.registered,
             x.cancelIssued = y.cancelIssued,
             IF y.completion = NoCompletion THEN x.credits = y.credits + 1
                                            ELSE x.credits = y.credits
      PROVE  StepOk(r, s)
  <2>1. AnswersInOrder(x) /\ Len(x.readers) = Len(y.readers) + 1
        /\ \A i \in 1..Len(y.readers) : x.readers[i] = y.readers[i]
    BY <1>1, <1>2, ReadAnswers
  <2>. HIDE DEF y
  <2>2. CallOk(x)
    <3>1. StreamInOrder(x)
      <4>1. IF y.completion = NoCompletion
            THEN y.credits = Len(y.readers) - y.nextSequence ELSE y.credits = 0
        BY <1>1 DEF StreamInOrder, CallOk, y
      <4>2. Len(y.readers) + 1 - y.nextSequence = Len(y.readers) - y.nextSequence + 1
        BY <1>1
      <4>3. IF x.completion = NoCompletion
            THEN x.credits = Len(x.readers) - x.nextSequence ELSE x.credits = 0
        <5>1. CASE y.completion = NoCompletion
          <6>1. x.credits = y.credits + 1 /\ x.completion = NoCompletion
            BY <1>2, <5>1
          <6>2. y.credits = Len(y.readers) - y.nextSequence
            BY <4>1, <5>1
          <6>3. x.nextSequence = y.nextSequence /\ Len(x.readers) = Len(y.readers) + 1
            BY <1>2, <2>1
          <6>. QED BY <1>1, <4>2, <6>1, <6>2, <6>3
        <5>2. CASE y.completion # NoCompletion
          BY <1>2, <4>1, <5>2
        <5>. QED BY <5>1, <5>2
      <4>. QED BY <2>1, <4>3 DEF StreamInOrder
    <3>. QED BY <1>1, <1>2, <3>1 DEF CallOk, y
  <2>3. Advances(x, y)
    BY <1>1, <1>2, <2>1 DEF Advances, y
  <2>. QED BY <1>2, <2>2, <2>3, OneCallStep DEF ReadEffect, SameProvider, y
<1>3. ASSUME y.completion # NoCompletion PROVE StepOk(AfterRead(s, c), s)
  <2>1. AfterRead(s, c) \in Bridges /\ ReadEffect(AfterRead(s, c), s, c, ReadCall(y), 0)
    BY ReadFields
  <2>. HIDE DEF y
  <2>. QED BY <1>1, <1>2, <1>3, <2>1, ReadCallFields
<1>4. ASSUME y.completion = NoCompletion PROVE StepOk(AfterCredit(s, c), s)
  <2>1. AfterCredit(s, c) \in Bridges
        /\ ReadEffect(AfterCredit(s, c), s, c, CreditedCall(y), 1)
    BY ReadFields
  <2>. HIDE DEF y
  <2>. QED BY <1>1, <1>2, <1>4, <2>1, ReadCallFields
<1>. QED BY <1>3, <1>4

(* A chunk is assigned to the first reader that waits. *)
Delivery(k, i, b, T) == [sequence |-> k, reader |-> i, binary |-> b, grants |-> T]
AssignedCall(y, i, b, T) ==
    [y EXCEPT !.readers[i] = "assigned", !.credits = @ - 1,
              !.nextSequence = y.nextSequence + 1,
              !.deliveries = @ \cup {Delivery(y.nextSequence, i, b, T)}]
AfterChunk(q, c, x, k) ==
    [q EXCEPT !.calls[c] = x, !.credits = @ - 1, !.queue = Append(@, Chunk(c, k))]

ChunkEffect(r, q, c, x, k) ==
    /\ r.queue = Append(q.queue, Chunk(c, k)) /\ r.stack = q.stack
    /\ SameProvider(r, q) /\ SameCounters(r, q) /\ SameCalls(r, q, c)
    /\ r.calls[c] = x /\ r.credits = q.credits - 1

FirstWaiting(y, i) ==
    /\ i \in 1..Len(y.readers) /\ y.readers[i] = "waiting"
    /\ \A j \in 1..Len(y.readers) : y.readers[j] = "waiting" => i <= j

AssignedEffect(x, y, i, b, T) ==
    /\ x.credits = y.credits - 1
    /\ x.id = y.id /\ x.mode = y.mode /\ x.state = y.state /\ x.input = y.input
    /\ x.completion = y.completion
    /\ x.deliveries = y.deliveries \cup {Delivery(y.nextSequence, i, b, T)}
    /\ x.nextSequence = y.nextSequence + 1
    /\ x.readers = [y.readers EXCEPT ![i] = "assigned"]
    /\ x.registered = y.registered
    /\ x.deadline = y.deadline /\ x.cancelIssued = y.cancelIssued
    /\ x.outcome = y.outcome /\ x.closedTokens = y.closedTokens /\ x.todo = y.todo

(* The record of a call with one more queued chunk *)
LEMMA AssignedFields ==
    ASSUME NEW y \in CallRecords, NEW i \in Nat, NEW b \in 0..1, NEW T \in SUBSET Tokens,
           i \in 1..Len(y.readers), y.credits > 0
    PROVE  LET x == AssignedCall(y, i, b, T)
           IN x \in CallRecords /\ AssignedEffect(x, y, i, b, T)
<1>. DEFINE q == [y.readers EXCEPT ![i] = "assigned"]
            n == y.nextSequence + 1
            D == y.deliveries \cup {Delivery(y.nextSequence, i, b, T)}
            u == [y EXCEPT !.readers = q, !.credits = @ - 1]
            x == [u EXCEPT !.nextSequence = n, !.deliveries = D]
<1>1. q \in Seq(ReaderStates) /\ n \in Nat /\ y.credits - 1 \in Nat
  <2>1. y.readers \in Seq(ReaderStates) /\ "assigned" \in ReaderStates
        /\ y.nextSequence \in Nat /\ y.credits \in Nat
    BY DEF CallRecords, ReaderStates
  <2>2. y.credits - 1 \in Nat /\ n \in Nat
    BY <2>1
  <2>3. q \in Seq(ReaderStates)
    BY <2>1, ExceptSeq
  <2>. QED BY <2>2, <2>3
<1>2. D \in SUBSET Deliveries
  <2>1. Delivery(y.nextSequence, i, b, T) \in Deliveries
    BY DEF Delivery, Deliveries, CallRecords
  <2>. QED BY <2>1 DEF CallRecords
<1>3. AssignedCall(y, i, b, T) = x
  BY DEF AssignedCall, CallRecords
<1>. HIDE DEF q, n, D
<1>4. /\ u \in CallRecords /\ u.readers = q /\ u.credits = y.credits - 1
      /\ u.id = y.id /\ u.mode = y.mode /\ u.state = y.state /\ u.input = y.input
      /\ u.completion = y.completion /\ u.deliveries = y.deliveries
      /\ u.nextSequence = y.nextSequence /\ u.registered = y.registered
      /\ u.deadline = y.deadline /\ u.cancelIssued = y.cancelIssued
      /\ u.outcome = y.outcome /\ u.closedTokens = y.closedTokens /\ u.todo = y.todo
  BY <1>1 DEF CallRecords
<1>. HIDE DEF u
<1>5. /\ x \in CallRecords /\ x.nextSequence = n /\ x.deliveries = D
      /\ x.readers = u.readers /\ x.credits = u.credits
      /\ x.id = u.id /\ x.mode = u.mode /\ x.state = u.state /\ x.input = u.input
      /\ x.completion = u.completion /\ x.registered = u.registered
      /\ x.deadline = u.deadline /\ x.cancelIssued = u.cancelIssued
      /\ x.outcome = u.outcome /\ x.closedTokens = u.closedTokens /\ x.todo = u.todo
  BY <1>1, <1>2, <1>4 DEF CallRecords
<1>. HIDE DEF x
<1>6. AssignedEffect(x, y, i, b, T)
  BY <1>4, <1>5 DEF AssignedEffect, q, n, D
<1>. QED BY <1>3, <1>5, <1>6

(* ChunkEvent, field by field *)
LEMMA ChunkFields ==
    ASSUME NEW q \in Bridges, NEW c \in Calls, NEW x \in CallRecords, NEW k \in Nat
    PROVE  LET r == AfterChunk(q, c, x, k)
           IN r \in Bridges /\ ChunkEffect(r, q, c, x, k)
<1>. DEFINE p == WithCall(q, c, x)
            w == Enqueue(p, Chunk(c, k))
            r == [w EXCEPT !.credits = @ - 1]
<1>1. Chunk(c, k) \in Tasks
  BY DEF Chunk, Tasks
<1>2. AfterChunk(q, c, x, k) = r
  BY DEF AfterChunk, WithCall, Enqueue, Bridges
<1>3. /\ p \in Bridges
      /\ p.queue = q.queue /\ p.stack = q.stack /\ p.credits = q.credits
      /\ SameProvider(p, q) /\ SameCounters(p, q) /\ SameCalls(p, q, c)
      /\ p.calls[c] = x
  BY CallFields DEF SameProvider, SameCounters, SameCalls
<1>. HIDE DEF p
<1>4. /\ w \in Bridges /\ w.queue = Append(p.queue, Chunk(c, k)) /\ w.stack = p.stack
      /\ SameProvider(w, p) /\ SameCounters(w, p)
      /\ w.credits = p.credits /\ w.calls = p.calls
  BY <1>1, <1>3, EnqueueFields
<1>. HIDE DEF w
<1>5. w.credits - 1 \in Int
  BY <1>4 DEF Bridges
<1>6. r \in Bridges /\ r.queue = w.queue /\ r.stack = w.stack /\ r.credits = w.credits - 1
      /\ SameProvider(r, w) /\ SameCounters(r, w) /\ r.calls = w.calls
  BY <1>4, <1>5 DEF Bridges, SameProvider, SameCounters
<1>. HIDE DEF r
<1>7. ChunkEffect(r, q, c, x, k)
  BY <1>3, <1>4, <1>6 DEF ChunkEffect, SameProvider, SameCounters, SameCalls
<1>. QED BY <1>2, <1>6, <1>7

(* A chunk for the reader that waits longest keeps the answers in order:   *)
(* its sequence is that reader's position.                                 *)
LEMMA AssignedAnswers ==
    ASSUME NEW y \in CallRecords, NEW i \in Nat, NEW b \in 0..1, NEW T \in SUBSET Tokens,
           AnswersInOrder(y), FirstWaiting(y, i), y.credits > 0
    PROVE  LET x == AssignedCall(y, i, b, T) IN
           /\ AnswersInOrder(x) /\ i = y.nextSequence + 1
           /\ Len(x.readers) = Len(y.readers)
           /\ \A j \in 1..Len(y.readers) : j # i => x.readers[j] = y.readers[j]
<1>. DEFINE x == AssignedCall(y, i, b, T)
            k == y.nextSequence
            d == Delivery(k, i, b, T)
            n == Len(y.readers)
            p == y.readers
            q == x.readers
<1>1. k \in Nat /\ n \in Nat /\ p \in Seq(ReaderStates) /\ y.deliveries \in SUBSET Deliveries
  BY DEF CallRecords
<1>2. i = k + 1
  <2>1. i \in 1..n /\ k < i /\ k < n
    BY <1>1 DEF FirstWaiting, AnswersInOrder
  <2>2. k + 1 \in 1..n
    BY <1>1, <2>1
  <2>3. y.readers[k + 1] = "waiting"
    BY <1>1, <2>2 DEF AnswersInOrder
  <2>. QED BY <1>1, <2>1, <2>2, <2>3 DEF FirstWaiting
<1>3. /\ x.nextSequence = k + 1 /\ x.deliveries = y.deliveries \cup {d} /\ x.mode = y.mode
      /\ q = [p EXCEPT ![i] = "assigned"]
  <2>1. AssignedEffect(x, y, i, b, T)
    BY AssignedFields DEF FirstWaiting
  <2>. QED BY <2>1 DEF AssignedEffect
<1>4. /\ Len(q) = n /\ q[i] = "assigned" /\ i \in 1..n
      /\ \A j \in 1..n : j # i => q[j] = p[j]
  <2>1. i \in 1..n
    BY DEF FirstWaiting
  <2>. QED BY <1>1, <1>3, <2>1
<1>5. d.sequence = k /\ d.reader = i
  BY DEF Delivery
<1>6. \A e \in y.deliveries : e.sequence \in Nat /\ e.sequence < k /\ e.reader = e.sequence + 1
                              /\ p[e.reader] = "assigned"
                              /\ \A f \in y.deliveries : e.sequence = f.sequence => e = f
  BY <1>1 DEF AnswersInOrder, Deliveries
<1>7. \A j \in 1..n :
          /\ p[j] = "waiting" <=> k < j
          /\ p[j] = "assigned" => \E e \in y.deliveries : e.sequence = j - 1
          /\ \A l \in 1..n : j < l /\ p[j] = "assigned" => p[l] \in {"assigned", "waiting"}
          /\ p[j] # "end"
  BY DEF AnswersInOrder
<1>8. y.mode = "result" => p = <<>>
  BY DEF AnswersInOrder
<1>9. k <= n /\ n <= MaxReads
  BY DEF AnswersInOrder
<1>. HIDE DEF d, p, q, n, k
<1>10. \A j \in 1..n :
          /\ q[j] = "waiting" <=> k + 1 < j
          /\ q[j] = "assigned" => \E e \in y.deliveries \cup {d} : e.sequence = j - 1
          /\ q[j] # "end"
  <2>. TAKE j \in 1..n
  <2>1. CASE j = i
    BY <1>1, <1>2, <1>4, <1>5, <2>1
  <2>2. CASE j # i
    BY <1>1, <1>2, <1>4, <1>7, <2>2
  <2>. QED BY <2>1, <2>2
<1>11. ASSUME NEW j \in 1..n, NEW l \in 1..n, j < l, q[j] = "assigned"
       PROVE  q[l] \in {"assigned", "waiting"}
  <2>1. CASE l = i
    BY <1>4, <2>1
  <2>2. CASE l # i /\ j = i
    <3>1. k < l
      BY <1>1, <1>2, <1>11, <2>2
    <3>. QED BY <1>4, <1>7, <2>2, <3>1
  <2>3. CASE l # i /\ j # i
    <3>1. p[j] = "assigned" /\ q[l] = p[l]
      BY <1>4, <1>11, <2>3
    <3>. QED BY <1>7, <1>11, <3>1
  <2>. QED BY <2>1, <2>2, <2>3
<1>12. ASSUME NEW e \in y.deliveries \cup {d}
       PROVE  /\ e.sequence < k + 1 /\ e.reader = e.sequence + 1
              /\ q[e.reader] = "assigned"
              /\ \A f \in y.deliveries \cup {d} : e.sequence = f.sequence => e = f
  <2>1. CASE e = d
    <3>1. \A f \in y.deliveries : f.sequence # k
      BY <1>1, <1>6
    <3>. QED BY <1>1, <1>2, <1>4, <1>5, <2>1, <3>1
  <2>2. CASE e \in y.deliveries
    <3>1. e.sequence < k + 1 /\ e.sequence # k /\ e.reader = e.sequence + 1 /\ e.reader # i
          /\ e.reader \in 1..n
      BY <1>1, <1>2, <1>6, <1>9, <2>2
    <3>2. q[e.reader] = "assigned"
      BY <1>4, <1>6, <2>2, <3>1
    <3>. QED BY <1>5, <1>6, <2>2, <3>1, <3>2
  <2>. QED BY <2>1, <2>2
<1>13. n # 0 => x.mode # "result"
  BY <1>3, <1>8 DEF n, p
<1>14. k + 1 <= n /\ n # 0
  BY <1>1, <1>2, <1>4
<1>15. AnswersInOrder(x)
  <2>1. x.mode # "result" /\ x.nextSequence <= Len(x.readers) /\ Len(x.readers) <= MaxReads
    BY <1>3, <1>4, <1>9, <1>13, <1>14 DEF q
  <2>2. \A j \in 1..Len(x.readers) :
           /\ x.readers[j] = "waiting" <=> x.nextSequence < j
           /\ x.readers[j] = "assigned" => \E e \in x.deliveries : e.sequence = j - 1
           /\ \A l \in 1..Len(x.readers) :
                  j < l /\ x.readers[j] = "assigned" =>
                      x.readers[l] \in {"assigned", "waiting"}
           /\ x.readers[j] # "end"
    BY <1>3, <1>4, <1>10, <1>11 DEF q
  <2>3. \A e \in x.deliveries :
           /\ e.sequence < x.nextSequence /\ e.reader = e.sequence + 1
           /\ x.readers[e.reader] = "assigned"
           /\ \A f \in x.deliveries : e.sequence = f.sequence => e = f
    BY <1>3, <1>12 DEF q
  <2>. HIDE DEF x
  <2>. QED BY <2>1, <2>2, <2>3 DEF AnswersInOrder
<1>. QED BY <1>2, <1>4, <1>15 DEF p, q, n, k

(* A chunk event keeps the control invariant. *)
LEMMA ChunkStep ==
    ASSUME NEW s \in Bridges, NEW c \in Calls, ControlOk(s), s.calls[c].state = "active",
           s.calls[c].completion = NoCompletion, s.calls[c].credits > 0,
           NEW i \in Nat, NEW b \in 0..1, NEW T \in SUBSET Tokens, FirstWaiting(s.calls[c], i)
    PROVE  StepOk(AfterChunk(s, c, AssignedCall(s.calls[c], i, b, T),
                             s.calls[c].nextSequence), s)
<1>. DEFINE y == s.calls[c]
            k == y.nextSequence
            x == AssignedCall(y, i, b, T)
            r == AfterChunk(s, c, x, k)
            p == s.queue
            task == Chunk(c, k)
<1>1. OthersOk(s, c) /\ MineOk(s, c) /\ y \in CallRecords /\ k \in Nat
      /\ Len(y.readers) \in Nat
  BY ControlParts, CallOfBridge DEF CallRecords
<1>2. AnswersInOrder(y) /\ CallOk(y)
      /\ y.credits = Len(y.readers) - k /\ y.credits \in Nat
  BY <1>1 DEF MineOk, CallControl, CallOk, StreamInOrder, CallRecords
<1>3. AnswersInOrder(x) /\ i = k + 1 /\ Len(x.readers) = Len(y.readers)
      /\ \A j \in 1..Len(y.readers) : j # i => x.readers[j] = y.readers[j]
  <2>1. y.credits > 0 /\ FirstWaiting(y, i)
    OBVIOUS
  <2>. HIDE DEF y
  <2>. QED BY <1>1, <1>2, <2>1, AssignedAnswers
<1>4. /\ x \in CallRecords /\ x.credits = y.credits - 1
      /\ x.mode = y.mode /\ x.state = y.state /\ x.completion = y.completion
      /\ x.deliveries = y.deliveries \cup {Delivery(k, i, b, T)}
      /\ x.nextSequence = k + 1 /\ x.registered = y.registered
      /\ x.cancelIssued = y.cancelIssued /\ x.outcome = y.outcome
  <2>1. y.credits > 0
    OBVIOUS
  <2>. HIDE DEF y
  <2>2. x \in CallRecords /\ AssignedEffect(x, y, i, b, T)
    BY <1>1, <2>1, AssignedFields DEF FirstWaiting, y
  <2>. HIDE DEF x
  <2>. QED BY <2>2 DEF AssignedEffect
<1>5. Delivery(k, i, b, T).sequence = k
  BY DEF Delivery
<1>. HIDE DEF x
<1>6. r \in Bridges /\ ChunkEffect(r, s, c, x, k)
  BY <1>1, <1>4, ChunkFields
<1>7. /\ task \in Tasks /\ task.call = c /\ task.kind = "chunk" /\ task.arg = k
      /\ OwnTask(task, c)
  BY <1>1 DEF Chunk, Tasks, OwnTask
<1>. HIDE DEF r, task
<1>8. /\ r.queue = Append(p, task) /\ r.stack = s.stack /\ r.held = s.held
      /\ SameCalls(r, s, c) /\ r.calls[c] = x
  BY <1>6 DEF ChunkEffect, SameProvider, task
<1>9. p \in Seq(Tasks)
  BY DEF Bridges
<1>10. \A d \in y.deliveries : d.sequence \in Nat /\ d.sequence < k
  BY <1>1, <1>2 DEF AnswersInOrder, CallRecords, Deliveries
<1>11. \A j \in 1..Len(p) : OwnTask(p[j], c) => p[j].kind = "chunk" /\ TaskOk(s, p[j])
                                                 /\ p[j].arg < k /\ Follows(p[j], task)
  <2>. SUFFICES ASSUME NEW j \in 1..Len(p), OwnTask(p[j], c)
                PROVE  p[j].kind = "chunk" /\ TaskOk(s, p[j])
                       /\ p[j].arg < k /\ Follows(p[j], task)
    OBVIOUS
  <2>1. p[j].kind = "chunk" /\ TaskOk(s, p[j])
    BY <1>1, OwnChunks
  <2>2. p[j].call = c
    BY DEF OwnTask
  <2>3. \E d \in y.deliveries : d.sequence = p[j].arg
    BY <2>1, <2>2 DEF TaskOk
  <2>4. p[j].arg < k
    BY <1>10, <2>3
  <2>. QED BY <1>7, <2>1, <2>4 DEF Follows
<1>12. SameTasks(r.queue, p, c)
  BY <1>1, <1>7, <1>8, <1>11, AppendTask
<1>13. SameCores(r, s, c) /\ SameStacks(r, s, c)
  BY <1>1, <1>8, SameCoreRefl, SameTasksRefl DEF SameCores, SameStacks, SameCalls, OnStack
<1>14. OthersOk(r, c)
  BY <1>1, <1>6, <1>12, <1>13, OthersKept
<1>15. /\ \A z : InQueue(r.queue, z) <=> InQueue(p, z) \/ z = task
       /\ \A j \in 1..Len(r.queue) :
             r.queue[j] = task \/ (j \in 1..Len(p) /\ r.queue[j] = p[j])
  BY <1>7, <1>8, <1>9, QueueEnd
<1>16. OnStack(r, c) <=> OnStack(s, c)
  BY <1>8 DEF OnStack
<1>17. CallOk(x)
  <2>1. x.credits = Len(x.readers) - x.nextSequence
    <3>1. Len(y.readers) - k - 1 = Len(y.readers) - (k + 1)
      BY <1>1
    <3>. QED BY <1>2, <1>3, <1>4, <3>1
  <2>. QED BY <1>2, <1>3, <1>4, <2>1 DEF CallOk, StreamInOrder
<1>18. \A d \in x.deliveries : InQueue(r.queue, Chunk(c, d.sequence))
  BY <1>1, <1>4, <1>5, <1>15 DEF MineOk, CallControl, task
<1>19. CallControl(r, c)
  BY <1>1, <1>4, <1>8, <1>15, <1>16, <1>17, <1>18
     DEF MineOk, CallControl, AwaitedOne, StackedOne
<1>20. \A j \in 1..Len(r.queue) : OwnTask(r.queue[j], c) => TaskOk(r, r.queue[j])
  <2>1. TaskOk(r, task)
    BY <1>4, <1>5, <1>7, <1>8 DEF TaskOk
  <2>2. ASSUME NEW j \in 1..Len(p), OwnTask(p[j], c) PROVE TaskOk(r, p[j])
    BY <1>4, <1>8, <1>11, <2>2 DEF TaskOk, OwnTask
  <2>. QED BY <1>15, <2>1, <2>2
<1>21. ControlOk(r)
  BY <1>14, <1>19, <1>20, ControlParts DEF MineOk
<1>22. Advance(r, s)
  <2>1. Advances(x, y)
    <3>1. i \in 1..Len(y.readers) /\ y.readers[i] = "waiting"
      BY DEF FirstWaiting
    <3>. HIDE DEF y
    <3>. QED BY <1>1, <1>3, <1>4, <3>1 DEF Advances, Answered
  <2>. QED BY <1>8, <2>1, SameCoreAdvances, SameCoreRefl, CallOfBridge DEF Advance, SameCalls
<1>. QED BY <1>6, <1>21, <1>22 DEF StepOk, r, x

(* An event during the cleanup of its call *)
LEMMA ReentrantStep ==
    ASSUME NEW s \in Bridges, NEW c \in Calls, NEW T \in SUBSET Tokens, ControlOk(s)
    PROVE  StepOk(CloseUndeliveredGrants(Grant(s, c, T), c, T), s)
<1>. DEFINE q == Grant(s, c, T)
<1>1. StepOk(q, s)
  BY GrantStep
<1>. HIDE DEF q
<1>2. StepOk(CloseUndeliveredGrants(q, c, T), q)
  BY <1>1, CloseUndeliveredStep DEF StepOk
<1>. QED BY <1>1, <1>2, StepTrans DEF q

(* A resource is closed, by its handle or by terminateBridge. *)
LEMMA CloseResourceStep ==
    ASSUME NEW s \in Bridges, NEW t \in Tokens, ControlOk(s),
           s.resources[t].status = "open", s.resources[t].call \in Calls
    PROVE  StepOk(CloseResource(s, t, TRUE), s)
<1>. DEFINE r == CloseResource(s, t, TRUE)
            c == s.resources[t].call
<1>1. /\ r \in Bridges /\ SameLoop(r, s) /\ r.stack = s.stack
      /\ \A u \in Tokens : r.held[u] = IF ~s.resources[t].revokeQueued /\ u = t /\ s.held[u] = c
                                       THEN Closed ELSE s.held[u]
  BY CloseResourceFields
<1>. HIDE DEF r
<1>2. c # Revoked
  BY Constants
<1>3. \A u \in Tokens : s.held[u] = Revoked => r.held[u] = Revoked
  BY <1>1, <1>2
<1>4. StepOk(r, s)
  BY <1>1, <1>3, SameCoreRefl, SameLoopStep DEF SameLoop
<1>. QED BY <1>4 DEF r

(* One close of the cleanup of a call *)
AfterClose(s, c, t) ==
    CloseProviderResource([s EXCEPT !.calls[c].todo = @ \ {t}], c, {t})

(* One close of a cleanup, field by field *)
LEMMA CloseNextFields ==
    ASSUME NEW s \in Bridges, NEW c \in Calls, NEW t \in Tokens
    PROVE  LET r == AfterClose(s, c, t)
           IN /\ r \in Bridges
              /\ r.queue = s.queue /\ r.stack = s.stack /\ r.credits = s.credits
              /\ SameCounters(r, s)
              /\ r.resources = s.resources /\ r.byToken = s.byToken
              /\ SameCalls(r, s, c) /\ SameCore(r.calls[c], s.calls[c])
              /\ r.calls[c].todo = s.calls[c].todo \ {t}
              /\ r.calls[c].closedTokens = s.calls[c].closedTokens
              /\ \A u \in Tokens :
                    r.held[u] = IF u = t /\ s.held[u] = c THEN Closed ELSE s.held[u]
              /\ HeldFor(s, t, c) => r.strayClose = s.strayClose
<1>. DEFINE y == s.calls[c]
            A == y.closedTokens
            B == y.todo \ {t}
            x == Cleaned(y, A, B)
            q == WithCall(s, c, x)
            r == CloseProviderResource(q, c, {t})
<1>1. y \in CallRecords /\ A \in SUBSET Tokens /\ B \in SUBSET Tokens
  BY CallOfBridge DEF CallRecords
<1>2. AfterClose(s, c, t) = r
  <2>1. [y EXCEPT !.todo = @ \ {t}] = x
    BY <1>1 DEF Cleaned, CallRecords
  <2>2. [s EXCEPT !.calls[c].todo = @ \ {t}] = q
    BY <2>1 DEF WithCall, Bridges
  <2>. QED BY <2>2 DEF AfterClose
<1>. HIDE DEF A, B
<1>3. x \in CallRecords /\ SameCore(x, y) /\ x.closedTokens = A /\ x.todo = B
  BY <1>1, CleanupCore
<1>. HIDE DEF x, y
<1>4. /\ q \in Bridges
      /\ q.queue = s.queue /\ q.stack = s.stack /\ q.credits = s.credits
      /\ SameProvider(q, s) /\ SameCounters(q, s) /\ SameCalls(q, s, c)
      /\ q.calls[c] = x
  BY <1>3, CallFields DEF SameProvider, SameCounters, SameCalls
<1>. HIDE DEF q
<1>5. {t} \in SUBSET Tokens
  OBVIOUS
<1>6. /\ r \in Bridges
      /\ r.calls = q.calls /\ r.queue = q.queue /\ r.stack = q.stack
      /\ r.resources = q.resources /\ r.byToken = q.byToken
      /\ r.inFlight = q.inFlight /\ r.credits = q.credits
      /\ r.openHandles = q.openHandles /\ r.openResources = q.openResources
      /\ \A u \in Tokens : r.held[u] = IF u \in {t} /\ q.held[u] = c THEN Closed ELSE q.held[u]
      /\ (\A u \in {t} : HeldFor(q, u, c)) => r.strayClose = q.strayClose
  BY <1>4, <1>5, CloseProviderFields
<1>7. HeldFor(s, t, c) => \A u \in {t} : HeldFor(q, u, c)
  BY <1>4 DEF HeldFor, SameProvider
<1>. HIDE DEF r
<1>8. /\ r.queue = s.queue /\ r.stack = s.stack /\ r.credits = s.credits
      /\ SameCounters(r, s)
      /\ r.resources = s.resources /\ r.byToken = s.byToken
      /\ SameCalls(r, s, c) /\ r.calls[c] = x
      /\ \A u \in Tokens : r.held[u] = IF u = t /\ s.held[u] = c THEN Closed ELSE s.held[u]
      /\ HeldFor(s, t, c) => r.strayClose = s.strayClose
  BY <1>4, <1>6, <1>7 DEF SameProvider, SameCounters, SameCalls
<1>. QED BY <1>2, <1>3, <1>6, <1>8 DEF A, B, y

(* One close of a cleanup keeps the control invariant. *)
LEMMA CloseNextStep ==
    ASSUME NEW s \in Bridges, NEW c \in Calls, NEW t \in Tokens, ControlOk(s)
    PROVE  StepOk(AfterClose(s, c, t), s)
<1>. DEFINE r == AfterClose(s, c, t)
<1>1. /\ r \in Bridges /\ r.queue = s.queue /\ r.stack = s.stack
      /\ SameCalls(r, s, c) /\ SameCore(r.calls[c], s.calls[c])
      /\ \A u \in Tokens : r.held[u] = IF u = t /\ s.held[u] = c THEN Closed ELSE s.held[u]
  BY CloseNextFields
<1>. HIDE DEF r
<1>2. \A d \in Calls : SameCore(r.calls[d], s.calls[d])
  BY <1>1, SameCoreRefl DEF SameCalls
<1>3. \A u \in Tokens : s.held[u] = Revoked => r.held[u] = Revoked
  BY <1>1, Constants
<1>4. StepOk(r, s)
  BY <1>1, <1>2, <1>3, SameLoopStep
<1>. QED BY <1>4 DEF r

(* A step that leaves the calls alone, and of the tasks all but revocations *)
LEMMA SameTasksStep ==
    ASSUME NEW s \in Bridges, NEW r \in Bridges, ControlOk(s), r.calls = s.calls,
           \A d \in Calls : OnStack(r, d) <=> OnStack(s, d),
           \A i, j \in 1..Len(r.stack) : r.stack[i] = r.stack[j] => i = j,
           \A t \in Tokens : s.held[t] = Revoked => r.held[t] = Revoked,
           \A i \in 1..Len(r.queue) :
               \/ InQueue(s.queue, r.queue[i])
               \/ r.queue[i].kind = "revoke" /\ TaskOk(r, r.queue[i]),
           \A j \in 1..Len(s.queue) :
               s.queue[j].kind = "revoke" \/ InQueue(r.queue, s.queue[j]),
           \A i, j \in 1..Len(r.queue) : i < j => Follows(r.queue[i], r.queue[j])
    PROVE  StepOk(r, s)
<1>1. \A c \in Calls : \A task : task.kind # "revoke" /\ InQueue(s.queue, task) =>
                                    InQueue(r.queue, task)
  BY DEF InQueue
<1>2. \A c \in Calls : \A k : Chunk(c, k).kind # "revoke" /\ Terminal(c).kind # "revoke"
  BY DEF Chunk, Terminal
<1>3. \A task \in Tasks : TaskOk(s, task) => TaskOk(r, task)
  BY DEF TaskOk, Tasks
<1>4. QueueOk(r)
  <2>1. \A i \in 1..Len(r.queue) : TaskOk(r, r.queue[i])
    <3>. SUFFICES ASSUME NEW i \in 1..Len(r.queue), InQueue(s.queue, r.queue[i])
                  PROVE  TaskOk(r, r.queue[i])
      OBVIOUS
    <3>. QED BY <1>3, TaskOfBridge DEF InQueue, ControlOk, QueueOk
  <2>2. \A c \in Calls : \A d \in r.calls[c].deliveries :
            InQueue(r.queue, Chunk(c, d.sequence))
    BY <1>1, <1>2 DEF ControlOk, QueueOk
  <2>. QED BY <2>1, <2>2 DEF QueueOk
<1>5. Awaited(r) /\ StackOk(r)
  BY <1>1, <1>2 DEF ControlOk, Awaited, StackOk
<1>6. ControlOk(r)
  BY <1>4, <1>5 DEF ControlOk
<1>7. Advance(r, s)
  BY CallOfBridge, SameAnswersAdvance DEF Advance
<1>. QED BY <1>6, <1>7 DEF StepOk

(* The provider takes a resource back. *)
AfterRevoke(s, c, t, queued) ==
    LET q == [s EXCEPT !.held[t] = Revoked]
    IN IF queued
       THEN [q EXCEPT !.resources[t].revokeQueued = TRUE,
                      !.queue = Append(@, Revocation(c, t))]
       ELSE q

RevokeEffect(r, s, c, t, queued) ==
    /\ r.calls = s.calls /\ r.stack = s.stack /\ r.credits = s.credits
    /\ SameCounters(r, s) /\ r.byToken = s.byToken /\ r.strayClose = s.strayClose
    /\ \A u \in Tokens :
          /\ r.held[u] = IF u = t THEN Revoked ELSE s.held[u]
          /\ r.resources[u].call = s.resources[u].call
          /\ r.resources[u].status = s.resources[u].status
          /\ r.resources[u].revokeQueued =
                IF u = t /\ queued THEN TRUE ELSE s.resources[u].revokeQueued
          /\ ~(u = t /\ queued) => r.resources[u] = s.resources[u]
    /\ r.queue = IF queued THEN Append(s.queue, Revocation(c, t)) ELSE s.queue

(* RevokeEvent, field by field *)
LEMMA RevokeFields ==
    ASSUME NEW s \in Bridges, NEW c \in Calls, NEW t \in Tokens, NEW queued \in BOOLEAN
    PROVE  LET r == AfterRevoke(s, c, t, queued)
           IN r \in Bridges /\ RevokeEffect(r, s, c, t, queued)
<1>. DEFINE q == [s EXCEPT !.held[t] = Revoked]
            H == [s.held EXCEPT ![t] = Revoked]
            R == [s.resources EXCEPT ![t].revokeQueued = TRUE]
            task == Revocation(c, t)
            p == [q EXCEPT !.resources = R]
            r == Enqueue(p, task)
<1>1. H \in [Tokens -> -2..MaxCalls] /\ \A u \in Tokens : H[u] = IF u = t THEN Revoked ELSE s.held[u]
  <2>1. Revoked \in -2..MaxCalls
    BY Constants DEF Revoked
  <2>2. s.held \in [Tokens -> -2..MaxCalls]
    BY DEF Bridges
  <2>. QED BY <2>1, <2>2
<1>2. R \in [Tokens -> ResourceRecords]
      /\ \A u \in Tokens : /\ R[u].call = s.resources[u].call
                           /\ R[u].status = s.resources[u].status
                           /\ R[u].revokeQueued = IF u = t THEN TRUE
                                                  ELSE s.resources[u].revokeQueued
                           /\ u # t => R[u] = s.resources[u]
  <2>1. s.resources \in [Tokens -> ResourceRecords]
    BY DEF Bridges
  <2>2. \A u \in Tokens : s.resources[u] \in ResourceRecords
    BY <2>1
  <2>. QED BY <2>1, <2>2 DEF ResourceRecords
<1>3. task \in Tasks
  <2>1. t \in Nat
    BY Constants
  <2>. QED BY <2>1 DEF Revocation, Tasks
<1>4. q = [s EXCEPT !.held = H]
  BY DEF Bridges
<1>. HIDE DEF q, H, R, task
<1>5. /\ q \in Bridges /\ q.held = H /\ q.calls = s.calls /\ q.stack = s.stack
      /\ q.credits = s.credits /\ SameCounters(q, s) /\ q.byToken = s.byToken
      /\ q.strayClose = s.strayClose /\ q.resources = s.resources /\ q.queue = s.queue
  BY <1>1, <1>4 DEF Bridges, SameCounters
<1>6. /\ p \in Bridges /\ p.resources = R /\ p.calls = q.calls /\ p.stack = q.stack
      /\ p.credits = q.credits /\ SameCounters(p, q) /\ p.byToken = q.byToken
      /\ p.strayClose = q.strayClose /\ p.held = q.held /\ p.queue = q.queue
  BY <1>2, <1>5 DEF Bridges, SameCounters
<1>. HIDE DEF p
<1>7. /\ r \in Bridges /\ r.queue = Append(p.queue, task) /\ r.stack = p.stack
      /\ SameProvider(r, p) /\ SameCounters(r, p)
      /\ r.credits = p.credits /\ r.calls = p.calls
  BY <1>3, <1>6, EnqueueFields
<1>. HIDE DEF r
<1>8. CASE queued
  <2>1. AfterRevoke(s, c, t, queued) = r
    <3>1. [q EXCEPT !.resources[t].revokeQueued = TRUE, !.queue = Append(@, task)] = r
      BY <1>5 DEF r, p, R, Enqueue, Bridges
    <3>. QED BY <1>8, <3>1 DEF AfterRevoke, q, task
  <2>2. r.held = H /\ r.resources = R /\ r.byToken = s.byToken
        /\ r.strayClose = s.strayClose
    BY <1>5, <1>6, <1>7 DEF SameProvider
  <2>3. r.queue = Append(s.queue, Revocation(c, t))
    BY <1>5, <1>6, <1>7 DEF task
  <2>4. r.calls = s.calls /\ r.stack = s.stack /\ r.credits = s.credits
        /\ SameCounters(r, s)
    BY <1>5, <1>6, <1>7 DEF SameCounters
  <2>5. \A u \in Tokens :
          /\ r.held[u] = IF u = t THEN Revoked ELSE s.held[u]
          /\ r.resources[u].call = s.resources[u].call
          /\ r.resources[u].status = s.resources[u].status
          /\ r.resources[u].revokeQueued =
                IF u = t /\ queued THEN TRUE ELSE s.resources[u].revokeQueued
          /\ ~(u = t /\ queued) => r.resources[u] = s.resources[u]
    BY <1>1, <1>2, <1>8, <2>2
  <2>6. RevokeEffect(r, s, c, t, queued)
    BY <1>8, <2>2, <2>3, <2>4, <2>5 DEF RevokeEffect
  <2>. QED BY <1>7, <2>1, <2>6
<1>9. CASE ~queued
  <2>1. AfterRevoke(s, c, t, queued) = q
    BY <1>9 DEF AfterRevoke, q
  <2>2. RevokeEffect(q, s, c, t, queued)
    BY <1>1, <1>5, <1>9 DEF RevokeEffect
  <2>. QED BY <1>5, <2>1, <2>2
<1>. QED BY <1>8, <1>9

(* A revocation keeps the control invariant; its task is never one of a    *)
(* call.                                                                   *)
LEMMA RevokeStep ==
    ASSUME NEW s \in Bridges, NEW c \in Calls, NEW t \in Tokens, NEW queued \in BOOLEAN,
           ControlOk(s)
    PROVE  StepOk(AfterRevoke(s, c, t, queued), s)
<1>. DEFINE r == AfterRevoke(s, c, t, queued)
            p == s.queue
            task == Revocation(c, t)
<1>1. r \in Bridges /\ RevokeEffect(r, s, c, t, queued)
  BY RevokeFields
<1>2. task \in Tasks /\ task.kind = "revoke" /\ task.arg = t
  <2>1. t \in Nat
    BY Constants
  <2>. QED BY <2>1 DEF Revocation, Tasks
<1>. HIDE DEF r, task
<1>3. /\ r.calls = s.calls /\ r.stack = s.stack
      /\ \A u \in Tokens : r.held[u] = IF u = t THEN Revoked ELSE s.held[u]
      /\ r.queue = IF queued THEN Append(p, task) ELSE p
  BY <1>1 DEF RevokeEffect, task
<1>4. \A d \in Calls : OnStack(r, d) <=> OnStack(s, d)
  BY <1>3 DEF OnStack
<1>5. TaskOk(r, task)
  BY <1>2, <1>3 DEF TaskOk
<1>6. /\ \A i, j \in 1..Len(p) : i < j => Follows(p[i], p[j])
      /\ \A i, j \in 1..Len(s.stack) : s.stack[i] = s.stack[j] => i = j
  BY DEF ControlOk, QueueOk, StackOk
<1>7. p \in Seq(Tasks)
  BY DEF Bridges
<1>8. CASE ~queued
  <2>1. \A i \in 1..Len(p) : InQueue(p, p[i])
    BY DEF InQueue
  <2>2. StepOk(r, s)
    BY <1>1, <1>3, <1>4, <1>6, <1>8, <2>1, SameTasksStep
  <2>. QED BY <2>2 DEF r
<1>9. CASE queued
  <2>. DEFINE q == Append(p, task)
  <2>1. /\ \A z : InQueue(q, z) <=> InQueue(p, z) \/ z = task
        /\ \A i \in 1..Len(q) : q[i] = task \/ (i \in 1..Len(p) /\ q[i] = p[i])
    BY <1>2, <1>7, QueueEnd
  <2>2. Len(q) = Len(p) + 1 /\ Len(p) \in Nat /\ q[Len(p) + 1] = task
        /\ \A i \in 1..Len(p) : q[i] = p[i]
    BY <1>7
  <2>3. r.queue = q
    BY <1>3, <1>9
  <2>. HIDE DEF q
  <2>4. \A i, j \in 1..Len(q) : i < j => Follows(q[i], q[j])
    <3>. SUFFICES ASSUME NEW i \in 1..Len(q), NEW j \in 1..Len(q), i < j
                  PROVE  Follows(q[i], q[j])
      OBVIOUS
    <3>1. CASE j = Len(p) + 1
      BY <1>2, <2>2, <3>1 DEF Follows
    <3>2. CASE j # Len(p) + 1
      <4>1. i \in 1..Len(p) /\ j \in 1..Len(p)
        BY <2>2, <3>2
      <4>. QED BY <1>6, <2>2, <4>1
    <3>. QED BY <3>1, <3>2
  <2>5. \A i \in 1..Len(q) : InQueue(p, q[i]) \/ (q[i].kind = "revoke" /\ TaskOk(r, q[i]))
    BY <1>2, <1>5, <2>1 DEF InQueue
  <2>6. \A i \in 1..Len(p) : InQueue(q, p[i])
    BY <2>1 DEF InQueue
  <2>7. StepOk(r, s)
    BY <1>1, <1>3, <1>4, <1>6, <2>3, <2>4, <2>5, <2>6, SameTasksStep
  <2>. QED BY <2>7 DEF r
<1>. QED BY <1>8, <1>9

(* The stack without its last frame *)
LEMMA PopStack ==
    ASSUME NEW s \in Bridges, s.stack # <<>>,
           \A i, j \in 1..Len(s.stack) : s.stack[i] = s.stack[j] => i = j
    PROVE  LET r == Pop(s)
               f == s.stack[Len(s.stack)]
           IN /\ f \in 0..MaxCalls /\ OnStack(s, f)
              /\ \A d : OnStack(r, d) <=> OnStack(s, d) /\ d # f
              /\ \A i, j \in 1..Len(r.stack) : r.stack[i] = r.stack[j] => i = j
<1>. DEFINE r == Pop(s)
            p == s.stack
            q == r.stack
            n == Len(p)
<1>1. p \in Seq(0..MaxCalls)
  BY DEF Bridges
<1>2. /\ Len(q) = n - 1
      /\ \A i \in 1..Len(q) : q[i] = p[i]
  BY PopFields
<1>3. n \in Nat /\ n # 0 /\ p[n] \in 0..MaxCalls
  <2>. DEFINE F == 0..MaxCalls
  <2>1. p \in Seq(F)
    BY <1>1
  <2>2. p # <<>>
    OBVIOUS
  <2>. HIDE DEF F, p
  <2>3. Len(p) \in Nat /\ Len(p) # 0
    BY <2>1, <2>2, EmptySeq
  <2>4. Len(p) \in 1..Len(p)
    BY <2>3
  <2>5. p[Len(p)] \in F
    BY <2>1, <2>4, ElementOfSeq
  <2>. QED BY <2>3, <2>5 DEF F
<1>4. \A i, j \in 1..n : p[i] = p[j] => i = j
  OBVIOUS
<1>. HIDE DEF p, q
<1>5. \A i \in 1..Len(q) : i \in 1..n /\ i # n /\ q[i] = p[i]
  BY <1>2, <1>3
<1>6. \A i \in 1..n : i # n => i \in 1..Len(q)
  BY <1>2, <1>3
<1>7. n \in 1..n
  BY <1>3
<1>. HIDE DEF n
<1>8. \A d : (\E i \in 1..Len(q) : q[i] = d) <=> (\E i \in 1..n : p[i] = d) /\ d # p[n]
  BY <1>4, <1>5, <1>6, <1>7
<1>9. \A i, j \in 1..Len(q) : q[i] = q[j] => i = j
  BY <1>4, <1>5
<1>. QED BY <1>3, <1>7, <1>8, <1>9 DEF OnStack, p, q, n

(* The end of the cleanup of a call *)
LEMMA FinishCleanupStep ==
    ASSUME NEW s \in Bridges, NEW c \in Calls, ControlOk(s), s.stack # <<>>,
           c = s.stack[Len(s.stack)], s.calls[c].cancelIssued
    PROVE  StepOk(ScheduleTerminal(Pop(s), c), s)
<1>. DEFINE q == Pop(s)
            y == s.calls[c]
<1>1. OthersOk(s, c) /\ MineOk(s, c) /\ y \in CallRecords
  BY ControlParts, CallOfBridge
<1>2. q \in Bridges /\ q.calls = s.calls /\ q.queue = s.queue /\ q.held = s.held
  BY PopFields DEF SameLoop, SameProvider
<1>3. /\ OnStack(s, c)
      /\ \A d : OnStack(q, d) <=> OnStack(s, d) /\ d # c
      /\ \A i, j \in 1..Len(q.stack) : q.stack[i] = q.stack[j] => i = j
  BY <1>1, PopStack DEF OthersOk
<1>. HIDE DEF q
<1>4. SameStacks(q, s, c) /\ SameCores(q, s, c)
  BY <1>2, <1>3, SameCoreRefl DEF SameStacks, SameCores
<1>5. OthersOk(q, c)
  BY <1>1, <1>2, <1>4, SameTasksRefl, OthersKept
<1>6. CallOk(y) /\ \A x \in y.deliveries : InQueue(q.queue, Chunk(c, x.sequence))
  BY <1>1, <1>2 DEF MineOk, CallControl
<1>7. Advance(q, s)
  BY <1>2, CallOfBridge, SameAnswersAdvance DEF Advance
<1>8. CASE y.state = "active"
  <2>1. y.completion # NoCompletion
    BY <1>1, <1>3, <1>8 DEF MineOk, CallControl, StackedOne
  <2>2. \A i \in 1..Len(q.queue) : OwnTask(q.queue[i], c) =>
            q.queue[i].kind = "chunk" /\ TaskOk(q, q.queue[i])
    BY <1>1, <1>2, <1>3, OwnChunks DEF TaskOk
  <2>3. LET r == ScheduleTerminal(q, c)
        IN r \in Bridges /\ ControlOk(r) /\ Advance(r, q)
    BY <1>2, <1>3, <1>5, <1>6, <1>8, <2>1, <2>2, ScheduleControl
  <2>4. Advance(ScheduleTerminal(q, c), s)
    BY <1>2, <1>7, <2>3, AdvanceTrans, CallOfBridge
  <2>. QED BY <2>3, <2>4 DEF StepOk, q
<1>9. CASE y.state # "active"
  <2>1. ScheduleTerminal(q, c) = q
    BY <1>2, <1>9 DEF ScheduleTerminal, IsCurrent
  <2>2. CallControl(q, c)
    BY <1>2, <1>3, <1>6, <1>9 DEF CallControl, AwaitedOne, StackedOne
  <2>3. \A i \in 1..Len(q.queue) : ~OwnTask(q.queue[i], c)
    BY <1>1, <1>2, <1>9, NoOwnTask
  <2>4. ControlOk(q)
    BY <1>5, <2>2, <2>3, ControlParts DEF MineOk
  <2>. QED BY <1>2, <1>7, <2>1, <2>4 DEF StepOk, q
<1>. QED BY <1>8, <1>9

(* terminateBridge begins. *)
LEMMA TerminateStep ==
    ASSUME NEW s \in Bridges, ControlOk(s), ~OnStack(s, Termination)
    PROVE  /\ StepOk(Push(s, Termination), s)
           /\ \A d : OnStack(Push(s, Termination), d) <=> OnStack(s, d) \/ d = Termination
<1>. DEFINE r == Push(s, Termination)
            p == s.stack
            F == 0..MaxCalls
            q == Append(p, Termination)
<1>1. Termination \in F
  BY Constants DEF Termination
<1>2. r \in Bridges /\ SameLoop(r, s) /\ SameProvider(r, s) /\ r.stack = q
  BY <1>1, PushFields
<1>3. p \in Seq(F)
  BY DEF Bridges
<1>. HIDE DEF r, F
<1>4. /\ \A i, j \in 1..Len(p) : p[i] = p[j] => i = j
      /\ \A i \in 1..Len(p) : p[i] # Termination
  BY DEF ControlOk, StackOk, OnStack
<1>5. Len(q) = Len(p) + 1 /\ Len(p) \in Nat /\ q[Len(q)] = Termination
      /\ \A i \in 1..Len(p) : q[i] = p[i] /\ i \in 1..Len(q)
  BY <1>1, <1>3
<1>6. \A i \in 1..Len(q) : i \in 1..Len(p) \/ i = Len(q)
  BY <1>5
<1>7. Len(q) \in 1..Len(q)
  BY <1>5
<1>. HIDE DEF q, p
<1>8. \A i, j \in 1..Len(q) : q[i] = q[j] => i = j
  BY <1>4, <1>5, <1>6
<1>9. \A d : (\E i \in 1..Len(q) : q[i] = d) <=> (\E i \in 1..Len(p) : p[i] = d) \/ d = Termination
  BY <1>5, <1>6, <1>7
<1>10. \A d : OnStack(r, d) <=> OnStack(s, d) \/ d = Termination
  BY <1>2, <1>9 DEF OnStack, p
<1>11. \A d \in Calls : OnStack(r, d) <=> OnStack(s, d)
  BY <1>10, Constants
<1>12. \A i \in 1..Len(s.queue) : InQueue(s.queue, s.queue[i])
  BY DEF InQueue
<1>13. \A i, j \in 1..Len(s.queue) : i < j => Follows(s.queue[i], s.queue[j])
  BY DEF ControlOk, QueueOk
<1>14. StepOk(r, s)
  BY <1>2, <1>8, <1>11, <1>12, <1>13, SameTasksStep DEF SameLoop, SameProvider
<1>. QED BY <1>10, <1>14 DEF r

(* The end of terminateBridge: no call is pending, and no task is left. *)
AfterTermination(s) ==
    [Pop(s) EXCEPT !.queue = Cleared(@, {i \in DOMAIN @ : @[i].kind = "revoke"})]

(* Once no call is pending, the queue holds revocations only, and          *)
(* terminateBridge empties it.                                             *)
LEMMA FinishTerminationStep ==
    ASSUME NEW s \in Bridges, ControlOk(s), s.stack # <<>>,
           s.stack[Len(s.stack)] = Termination,
           \A c \in Calls : s.calls[c].state # "active"
    PROVE  LET r == AfterTermination(s)
           IN /\ StepOk(r, s)
              /\ SameProvider(r, s) /\ SameCounters(r, s) /\ r.calls = s.calls
              /\ r.credits = s.credits /\ r.queue = <<>>
              /\ \A d : OnStack(r, d) <=> OnStack(s, d) /\ d # Termination
<1>. DEFINE q == Pop(s)
            p == s.queue
            gone == {i \in DOMAIN p : p[i].kind = "revoke"}
            r == [q EXCEPT !.queue = <<>>]
<1>1. \A i, j \in 1..Len(s.stack) : s.stack[i] = s.stack[j] => i = j
  BY DEF ControlOk, StackOk
<1>2. /\ q \in Bridges /\ q.calls = s.calls /\ q.queue = p
      /\ SameProvider(q, s) /\ SameCounters(q, s) /\ q.credits = s.credits
  BY PopFields DEF SameLoop
<1>3. /\ \A d : OnStack(q, d) <=> OnStack(s, d) /\ d # Termination
      /\ \A i, j \in 1..Len(q.stack) : q.stack[i] = q.stack[j] => i = j
  BY <1>1, PopStack
<1>4. \A i \in 1..Len(p) : p[i].kind = "revoke"
  <2>1. \A i \in 1..Len(p) : TaskOk(s, p[i])
    BY DEF ControlOk, QueueOk
  <2>. QED BY <2>1, TaskOfBridge DEF TaskOk
<1>5. p \in Seq(Tasks) /\ DOMAIN p = 1..Len(p)
  BY DEF Bridges
<1>. HIDE DEF p
<1>6. Cleared(p, gone) = <<>>
  <2>. DEFINE w == Cleared(p, gone)
  <2>1. w \in Seq(Tasks) /\ \E at \in [1..Len(w) -> (1..Len(p)) \ gone] : TRUE
    BY <1>5, ClearedProperties
  <2>2. (1..Len(p)) \ gone = {}
    BY <1>4, <1>5
  <2>. HIDE DEF w
  <2>3. Len(w) \in Nat
    BY <2>1
  <2>4. Len(w) = 0
    <3>. SUFFICES ASSUME 1 \in 1..Len(w) PROVE FALSE
      BY <2>3
    <3>. QED BY <2>1, <2>2
  <2>. QED BY <2>1, <2>4, EmptySeq DEF w
<1>. HIDE DEF q
<1>7. AfterTermination(s) = r
  BY <1>2, <1>6 DEF AfterTermination, q
<1>8. /\ r \in Bridges /\ r.queue = <<>> /\ r.stack = q.stack /\ r.calls = q.calls
      /\ SameProvider(r, q) /\ SameCounters(r, q) /\ r.credits = q.credits
  <2>1. <<>> \in Seq(Tasks)
    OBVIOUS
  <2>. QED BY <1>2, <2>1 DEF Bridges, SameProvider, SameCounters
<1>. HIDE DEF r
<1>9. \A d : OnStack(r, d) <=> OnStack(s, d) /\ d # Termination
  BY <1>3, <1>8 DEF OnStack
<1>10. \A d \in Calls : OnStack(r, d) <=> OnStack(s, d)
  BY <1>9, Constants
<1>11. \A i \in 1..Len(r.queue) : FALSE
  BY <1>8
<1>12. /\ SameProvider(r, s) /\ SameCounters(r, s) /\ r.calls = s.calls
       /\ r.credits = s.credits
  BY <1>2, <1>8 DEF SameProvider, SameCounters
<1>13. StepOk(r, s)
  BY <1>3, <1>4, <1>8, <1>10, <1>11, <1>12, SameTasksStep DEF SameProvider, p
<1>. QED BY <1>7, <1>8, <1>9, <1>12, <1>13

(* The first task is taken from the queue. *)
Dequeue(s) == [s EXCEPT !.queue = Tail(@)]

(* Dequeue, field by field *)
LEMMA DequeueFields ==
    ASSUME NEW s \in Bridges, s.queue # <<>>
    PROVE  LET r == Dequeue(s)
           IN /\ r \in Bridges
              /\ r.queue = Tail(s.queue) /\ r.stack = s.stack
              /\ SameProvider(r, s) /\ SameCounters(r, s)
              /\ r.credits = s.credits /\ r.calls = s.calls
<1>1. Tail(s.queue) \in Seq(Tasks)
  <2>1. s.queue \in Seq(Tasks)
    BY DEF Bridges
  <2>. QED BY <2>1
<1>. QED BY <1>1 DEF Dequeue, Bridges, SameProvider, SameCounters

(* The queue without its first task *)
LEMMA TailOfQueue ==
    ASSUME NEW p \in Seq(Tasks), p # <<>>
    PROVE  /\ Len(Tail(p)) = Len(p) - 1 /\ Len(p) \in Nat /\ Len(p) > 0
           /\ \A i \in 1..Len(Tail(p)) : i + 1 \in 1..Len(p) /\ Tail(p)[i] = p[i + 1]
           /\ \A i \in 1..Len(p) : p[i] = Head(p) \/ InQueue(Tail(p), p[i])
           /\ Head(p) = p[1]
<1>. DEFINE q == Tail(p)
<1>1. Len(q) = Len(p) - 1 /\ Len(p) \in Nat /\ Len(p) > 0 /\ Head(p) = p[1]
      /\ \A i \in 1..Len(q) : q[i] = p[i + 1]
  BY EmptySeq
<1>2. \A i \in 1..Len(q) : i + 1 \in 1..Len(p)
  BY <1>1
<1>3. \A i \in 1..Len(p) : i = 1 \/ (i - 1 \in 1..Len(q) /\ (i - 1) + 1 = i)
  BY <1>1
<1>. HIDE DEF q
<1>4. \A i \in 1..Len(p) : p[i] = Head(p) \/ InQueue(q, p[i])
  BY <1>1, <1>3 DEF InQueue
<1>. QED BY <1>1, <1>2, <1>4 DEF q

(* A revocation leaves the queue. *)
LEMMA DequeueRevocationStep ==
    ASSUME NEW s \in Bridges, ControlOk(s), s.queue # <<>>, Head(s.queue).kind = "revoke"
    PROVE  StepOk(Dequeue(s), s)
<1>. DEFINE r == Dequeue(s)
            p == s.queue
<1>1. /\ r \in Bridges /\ r.queue = Tail(p) /\ r.stack = s.stack
      /\ SameProvider(r, s) /\ r.calls = s.calls
  BY DequeueFields
<1>. HIDE DEF r
<1>2. p \in Seq(Tasks) /\ p # <<>>
  BY DEF Bridges
<1>3. /\ Len(Tail(p)) = Len(p) - 1 /\ Len(p) \in Nat /\ Len(p) > 0
      /\ \A i \in 1..Len(Tail(p)) : i + 1 \in 1..Len(p) /\ Tail(p)[i] = p[i + 1]
      /\ \A i \in 1..Len(p) : p[i] = Head(p) \/ InQueue(Tail(p), p[i])
  BY <1>2, TailOfQueue
<1>4. /\ \A i, j \in 1..Len(p) : i < j => Follows(p[i], p[j])
      /\ \A i, j \in 1..Len(s.stack) : s.stack[i] = s.stack[j] => i = j
  BY DEF ControlOk, QueueOk, StackOk
<1>5. \A i \in 1..Len(Tail(p)) : InQueue(p, Tail(p)[i])
  BY <1>3 DEF InQueue
<1>6. \A i \in 1..Len(p) : p[i].kind = "revoke" \/ InQueue(Tail(p), p[i])
  BY <1>3
<1>7. \A i, j \in 1..Len(Tail(p)) : i < j => Follows(Tail(p)[i], Tail(p)[j])
  <2>. SUFFICES ASSUME NEW i \in 1..Len(Tail(p)), NEW j \in 1..Len(Tail(p)), i < j
                PROVE  Follows(Tail(p)[i], Tail(p)[j])
    OBVIOUS
  <2>1. i + 1 < j + 1 /\ i + 1 \in 1..Len(p) /\ j + 1 \in 1..Len(p)
    BY <1>3
  <2>. QED BY <1>3, <1>4, <2>1
<1>8. \A d \in Calls : OnStack(r, d) <=> OnStack(s, d)
  BY <1>1 DEF OnStack
<1>9. StepOk(r, s)
  BY <1>1, <1>4, <1>5, <1>6, <1>7, <1>8, SameTasksStep DEF SameProvider
<1>. QED BY <1>9 DEF r

(* applyProviderResourceRevoke *)
LEMMA ApplyRevokeStep ==
    ASSUME NEW s \in Bridges, ControlOk(s), s.queue # <<>>, Head(s.queue).kind = "revoke",
           NEW t \in Tokens
    PROVE  StepOk(Dequeue(s), s) /\ StepOk(Drop(Dequeue(s), {t}, "closed"), s)
<1>. DEFINE q == Dequeue(s)
            r == Drop(q, {t}, "closed")
<1>1. StepOk(q, s)
  BY DequeueRevocationStep
<1>. HIDE DEF q
<1>2. {t} \in SUBSET Tokens /\ q \in Bridges
  BY <1>1 DEF StepOk
<1>3. /\ r \in Bridges /\ r.calls = q.calls /\ r.queue = q.queue
      /\ r.stack = q.stack /\ r.held = q.held
  BY <1>2, DropFields
<1>. HIDE DEF r
<1>4. StepOk(r, q)
  BY <1>1, <1>2, <1>3, SameCoreRefl, SameLoopStep DEF StepOk
<1>. QED BY <1>1, <1>4, StepTrans DEF q, r

-----------------------------------------------------------------------------
(* The delivery of a terminal                                              *)

TakenCall(call) == [call EXCEPT !.completion = NoCompletion]
TakeTerminal(s, c) == [Dequeue(s) EXCEPT !.calls[c].completion = NoCompletion]

TakeEffect(r, s, c, x) ==
    /\ r.queue = Tail(s.queue) /\ r.stack = s.stack /\ r.credits = s.credits
    /\ SameProvider(r, s) /\ SameCounters(r, s) /\ SameCalls(r, s, c) /\ r.calls[c] = x

(* The record of a call whose terminal was taken *)
LEMMA TakenFields ==
    ASSUME NEW y \in CallRecords
    PROVE  LET x == TakenCall(y) IN
           /\ x \in CallRecords /\ x.completion = NoCompletion /\ x.credits = y.credits
           /\ x.id = y.id /\ x.mode = y.mode /\ x.state = y.state /\ x.input = y.input
           /\ x.deliveries = y.deliveries /\ x.nextSequence = y.nextSequence
           /\ x.readers = y.readers /\ x.registered = y.registered
           /\ x.deadline = y.deadline /\ x.cancelIssued = y.cancelIssued
           /\ x.outcome = y.outcome /\ x.closedTokens = y.closedTokens /\ x.todo = y.todo
<1>1. NoCompletion \in Completions
  BY DEF NoCompletion, Completions
<1>. QED BY <1>1 DEF CallRecords, TakenCall

(* A task taken from the queue, and its call changed *)
LEMMA TakeFields ==
    ASSUME NEW s \in Bridges, NEW c \in Calls, s.queue # <<>>, NEW x \in CallRecords
    PROVE  LET r == WithCall(Dequeue(s), c, x)
           IN r \in Bridges /\ TakeEffect(r, s, c, x)
<1>. DEFINE q == Dequeue(s)
            r == WithCall(q, c, x)
<1>1. /\ q \in Bridges
      /\ q.queue = Tail(s.queue) /\ q.stack = s.stack
      /\ SameProvider(q, s) /\ SameCounters(q, s)
      /\ q.credits = s.credits /\ q.calls = s.calls
  BY DequeueFields
<1>. HIDE DEF q
<1>2. /\ r \in Bridges
      /\ r.queue = q.queue /\ r.stack = q.stack /\ r.credits = q.credits
      /\ SameProvider(r, q) /\ SameCounters(r, q) /\ SameCalls(r, q, c)
      /\ r.calls[c] = x
  BY <1>1, CallFields DEF SameProvider, SameCounters, SameCalls
<1>. HIDE DEF r
<1>3. TakeEffect(r, s, c, x)
  BY <1>1, <1>2 DEF TakeEffect, SameProvider, SameCounters, SameCalls
<1>. QED BY <1>2, <1>3 DEF r, q

(* deliverTerminal takes the completion, field by field. *)
LEMMA TakeTerminalFields ==
    ASSUME NEW s \in Bridges, NEW c \in Calls, s.queue # <<>>
    PROVE  LET r == TakeTerminal(s, c)
           IN r \in Bridges /\ TakeEffect(r, s, c, TakenCall(s.calls[c]))
<1>. DEFINE y == s.calls[c]
            q == Dequeue(s)
<1>1. q.calls = s.calls /\ q \in Bridges
  BY DequeueFields
<1>2. TakenCall(y) \in CallRecords
  BY CallOfBridge, TakenFields
<1>. HIDE DEF q
<1>3. TakeTerminal(s, c) = WithCall(q, c, TakenCall(y))
  BY <1>1 DEF TakeTerminal, WithCall, TakenCall, Bridges, q
<1>. HIDE DEF y
<1>. QED BY <1>2, <1>3, TakeFields DEF q, y

(* Its chunks were delivered before. *)
LEMMA TerminalIsLast ==
    ASSUME NEW s \in Bridges, NEW c \in Calls, ControlOk(s), s.queue # <<>>,
           Head(s.queue) = Terminal(c)
    PROVE  /\ s.calls[c].state = "active" /\ s.calls[c].completion # NoCompletion
           /\ s.calls[c].completion.kind \in {"output", "error", "failure"}
           /\ s.calls[c].completion.kind = "failure" => s.calls[c].cancelIssued
           /\ ~OnStack(s, c)
           /\ s.calls[c].deliveries = {}
           /\ \A i \in 1..Len(s.calls[c].readers) : s.calls[c].readers[i] # "assigned"
<1>. DEFINE y == s.calls[c]
            p == s.queue
<1>1. /\ \A i \in 1..Len(p) : TaskOk(s, p[i])
      /\ \A i, j \in 1..Len(p) : i < j => Follows(p[i], p[j])
      /\ \A d \in y.deliveries : InQueue(p, Chunk(c, d.sequence))
      /\ CallOk(y)
  BY DEF ControlOk, QueueOk
<1>2. Head(p) = p[1] /\ Len(p) \in Nat /\ Len(p) > 0
  <2>1. p \in Seq(Tasks) /\ p # <<>>
    BY DEF Bridges
  <2>. QED BY <2>1, TailOfQueue
<1>3. 1 \in 1..Len(p) /\ p[1] = Terminal(c)
  BY <1>2
<1>4. /\ y.state = "active" /\ y.completion # NoCompletion
      /\ y.completion.kind = "failure" => y.cancelIssued
      /\ ~OnStack(s, c)
  BY <1>1, <1>3 DEF TaskOk, Terminal
<1>5. y.completion.kind \in {"output", "error", "failure"}
  <2>1. y.completion \in Completions
    BY CallOfBridge DEF CallRecords
  <2>. QED BY <1>1, <1>4, <2>1 DEF CallOk, Completions
<1>6. y.deliveries = {}
  <2>. SUFFICES ASSUME NEW d \in y.deliveries PROVE FALSE
    OBVIOUS
  <2>1. PICK j \in 1..Len(p) : p[j] = Chunk(c, d.sequence)
    BY <1>1 DEF InQueue
  <2>2. j # 1
    BY <1>3, <2>1 DEF Terminal, Chunk
  <2>3. 1 < j
    BY <1>2, <2>2
  <2>4. Follows(Terminal(c), Chunk(c, d.sequence))
    BY <1>1, <1>3, <2>1, <2>3
  <2>. QED BY <2>4 DEF Follows, Terminal, Chunk
<1>7. \A i \in 1..Len(y.readers) : y.readers[i] # "assigned"
  BY <1>1, <1>4, <1>6 DEF CallOk, StreamInOrder, AnswersInOrder
<1>. QED BY <1>4, <1>5, <1>6, <1>7

(* The state in which the terminal is at work *)
Taken(q, s, c) ==
    /\ q \in Bridges /\ OthersOk(q, c) /\ Advance(q, s)
    /\ q.calls[c].state = "active" /\ q.calls[c].completion = NoCompletion
    /\ q.calls[c].deliveries = {}
    /\ \A i \in 1..Len(q.calls[c].readers) : q.calls[c].readers[i] # "assigned"
    /\ s.calls[c].cancelIssued => q.calls[c].cancelIssued

(* A call whose terminal is being delivered has nothing queued any more. *)
LEMMA TakeTerminalStep ==
    ASSUME NEW s \in Bridges, NEW c \in Calls, ControlOk(s), s.queue # <<>>,
           Head(s.queue) = Terminal(c)
    PROVE  Taken(TakeTerminal(s, c), s, c)
<1>. DEFINE r == TakeTerminal(s, c)
            y == s.calls[c]
            x == TakenCall(y)
<1>1. r \in Bridges /\ TakeEffect(r, s, c, x)
  BY TakeTerminalFields
<1>2. /\ y.state = "active" /\ y.deliveries = {}
      /\ \A i \in 1..Len(y.readers) : y.readers[i] # "assigned"
  BY TerminalIsLast
<1>3. /\ x.completion = NoCompletion /\ x.state = y.state /\ x.deliveries = y.deliveries
      /\ x.readers = y.readers /\ x.cancelIssued = y.cancelIssued /\ x.outcome = y.outcome
  BY CallOfBridge, TakenFields
<1>. HIDE DEF r, x
<1>4. /\ r.queue = Tail(s.queue) /\ r.stack = s.stack /\ r.held = s.held
      /\ SameCalls(r, s, c) /\ r.calls[c] = x
  BY <1>1 DEF TakeEffect, SameProvider
<1>5. OthersOk(s, c)
  BY ControlParts
<1>6. SameTasks(r.queue, s.queue, c)
  BY <1>4, <1>5, DequeueTask DEF Terminal
<1>7. SameStacks(r, s, c) /\ SameCores(r, s, c)
  BY <1>4, <1>5, SameCoreRefl, SameTasksRefl DEF SameStacks, SameCores, SameCalls, OnStack
<1>8. OthersOk(r, c)
  BY <1>1, <1>5, <1>6, <1>7, OthersKept
<1>9. Advance(r, s)
  <2>1. Advances(x, y)
    BY <1>3, CallOfBridge, SameAnswersAdvance
  <2>. QED BY <1>4, <2>1, SameCoreAdvances, SameCoreRefl, CallOfBridge DEF Advance, SameCalls
<1>10. Taken(r, s, c)
  BY <1>1, <1>2, <1>3, <1>4, <1>8, <1>9 DEF Taken
<1>. QED BY <1>10 DEF r

(* The output of the terminal leaves the calls alone. *)
LEMMA TakenKept ==
    ASSUME NEW s \in Bridges, NEW q \in Bridges, NEW r \in Bridges, NEW c \in Calls,
           Taken(q, s, c), r.queue = q.queue, r.stack = q.stack,
           \A d \in Calls : SameCore(r.calls[d], q.calls[d]),
           \A t \in Tokens : q.held[t] = Revoked => r.held[t] = Revoked
    PROVE  Taken(r, s, c)
<1>1. OthersOk(r, c)
  BY OthersSame DEF Taken, SameCores
<1>2. Advance(r, q)
  BY SameCoreAdvances, CallOfBridge DEF Advance
<1>3. Advance(r, s)
  BY <1>2, AdvanceTrans, CallOfBridge DEF Taken
<1>4. SameCore(r.calls[c], q.calls[c])
  OBVIOUS
<1>. QED BY <1>1, <1>3, <1>4 DEF Taken, SameCore

(* What such a call still retains is a number. *)
LEMMA TakenBinaries ==
    ASSUME NEW s, NEW q, NEW c, Taken(q, s, c)
    PROVE  QueuedBinaries(q.calls[c]) \in Int
<1>1. q.calls[c].completion.binary = 0 /\ {d \in q.calls[c].deliveries : d.binary = 1} = {}
  BY DEF Taken, NoCompletion
<1>. QED BY <1>1, FS_EmptySet DEF QueuedBinaries

(* A call whose terminal was taken may settle, *)
LEMMA TakenSettles ==
    ASSUME NEW s \in Bridges, NEW q, NEW c \in Calls, Taken(q, s, c),
           NEW outcome \in Outcomes, outcome = "failure" => s.calls[c].cancelIssued
    PROVE  StepOk(Settle(q, c, outcome), s)
<1>1. /\ q \in Bridges /\ OthersOk(q, c) /\ q.calls[c].state = "active"
      /\ \A i \in 1..Len(q.calls[c].readers) : q.calls[c].readers[i] # "assigned"
      /\ outcome = "failure" => q.calls[c].cancelIssued
      /\ Advance(q, s)
  BY DEF Taken
<1>2. QueuedBinaries(q.calls[c]) \in Int
  BY TakenBinaries
<1>3. LET r == Settle(q, c, outcome)
      IN r \in Bridges /\ ControlOk(r) /\ Advance(r, q)
  BY <1>1, <1>2, SettleControl
<1>. QED BY <1>1, <1>3, AdvanceTrans, CallOfBridge DEF StepOk

(* or be aborted. *)
LEMMA TakenAborts ==
    ASSUME NEW s \in Bridges, NEW q, NEW c \in Calls, Taken(q, s, c)
    PROVE  StepOk(Abort(q, c), s)
<1>1. q \in Bridges /\ OthersOk(q, c) /\ q.calls[c].state = "active" /\ Advance(q, s)
  BY DEF Taken
<1>2. QueuedBinaries(q.calls[c]) \in Int
  BY TakenBinaries
<1>3. LET r == Abort(q, c)
      IN r \in Bridges /\ ControlOk(r) /\ Advance(r, q)
  BY <1>1, <1>2, AbortControl
<1>. QED BY <1>1, <1>3, AdvanceTrans, CallOfBridge DEF StepOk

(* deliverTerminal *)
LEMMA DeliverTerminalStep ==
    ASSUME NEW s \in Bridges, NEW c \in Calls, ControlOk(s), s.queue # <<>>,
           Head(s.queue) = Terminal(c), NEW T \in SUBSET Tokens, NEW b \in Int
    PROVE  LET q == TakeTerminal(s, c)
               kind == s.calls[c].completion.kind
           IN /\ kind \in Errors => StepOk(Settle(q, c, kind), s)
              /\ \A end \in {"result", "end"} : StepOk(Settle(DeliverOutput(q, T, b), c, end), s)
              /\ StepOk(Abort(ReleaseOutput(q, c, T, b), c), s)
<1>. DEFINE q == TakeTerminal(s, c)
            kind == s.calls[c].completion.kind
            p == DeliverOutput(q, T, b)
            r == ReleaseOutput(q, c, T, b)
<1>1. Taken(q, s, c) /\ q \in Bridges
  BY TakeTerminalStep DEF Taken
<1>. HIDE DEF q
<1>2. kind = "failure" => s.calls[c].cancelIssued
  BY TerminalIsLast
<1>3. kind \in Errors => StepOk(Settle(q, c, kind), s)
  <2>1. kind \in Errors => kind \in Outcomes
    BY DEF Errors, Outcomes
  <2>. QED BY <1>1, <1>2, <2>1, TakenSettles
<1>4. Taken(p, s, c)
  <2>1. p \in Bridges /\ DeliverEffect(p, q, T, b)
    BY <1>1, DeliverFields
  <2>. HIDE DEF p
  <2>. QED BY <1>1, <2>1, TakenKept, SameCoreRefl DEF DeliverEffect, SameLoop
<1>5. Taken(r, s, c)
  <2>1. r \in Bridges /\ r.queue = q.queue /\ r.stack = q.stack
        /\ ClosesUp(r, q, c, GivenBack(q, c, T))
    BY <1>1, ReleaseFields
  <2>. HIDE DEF r
  <2>2. \A t \in Tokens : q.held[t] = Revoked => r.held[t] = Revoked
    BY <2>1, Constants DEF ClosesUp
  <2>3. \A d \in Calls : SameCore(r.calls[d], q.calls[d])
    BY <2>1 DEF ClosesUp
  <2>. QED BY <1>1, <2>1, <2>2, <2>3, TakenKept
<1>. HIDE DEF p, r, kind
<1>6. \A end \in {"result", "end"} : StepOk(Settle(p, c, end), s)
  <2>. TAKE end \in {"result", "end"}
  <2>1. end \in Outcomes /\ end # "failure"
    BY DEF Outcomes
  <2>. QED BY <1>4, <2>1, TakenSettles
<1>7. StepOk(Abort(r, c), s)
  BY <1>5, TakenAborts
<1>. QED BY <1>3, <1>6, <1>7 DEF q, p, r, kind

-----------------------------------------------------------------------------
(* The delivery of a chunk                                                 *)

(* What answering a reader with the delivery d changes of its call *)
AnsweredEffect(x, y, d, a) ==
    /\ x.deliveries = y.deliveries \ {d}
    /\ x.readers = [y.readers EXCEPT ![d.reader] = a]
    /\ x.id = y.id /\ x.mode = y.mode /\ x.state = y.state /\ x.input = y.input
    /\ x.completion = y.completion /\ x.credits = y.credits
    /\ x.nextSequence = y.nextSequence /\ x.registered = y.registered
    /\ x.deadline = y.deadline /\ x.cancelIssued = y.cancelIssued
    /\ x.outcome = y.outcome

(* Chunks are answered in the order of their numbers. *)
LEMMA AnsweredAnswers ==
    ASSUME NEW y \in CallRecords, AnswersInOrder(y), NEW d \in y.deliveries,
           \A e \in y.deliveries : e # d => d.sequence < e.sequence,
           NEW a \in {"chunk", "error"}, NEW x, AnsweredEffect(x, y, d, a)
    PROVE  /\ AnswersInOrder(x) /\ Len(x.readers) = Len(y.readers)
           /\ d.reader \in 1..Len(y.readers) /\ y.readers[d.reader] = "assigned"
           /\ \A j \in 1..Len(y.readers) : j # d.reader => x.readers[j] = y.readers[j]
<1>. DEFINE k == d.sequence
            i == d.reader
            n == Len(y.readers)
            p == y.readers
            q == x.readers
            m == y.nextSequence
<1>1. k \in Nat /\ n \in Nat /\ m \in Nat /\ p \in Seq(ReaderStates)
      /\ y.deliveries \in SUBSET Deliveries
  BY DEF CallRecords, Deliveries
<1>2. \A e \in y.deliveries : e.sequence \in Nat /\ e.sequence < m /\ e.reader = e.sequence + 1
                              /\ p[e.reader] = "assigned"
                              /\ \A f \in y.deliveries : e.sequence = f.sequence => e = f
  BY <1>1 DEF AnswersInOrder, Deliveries
<1>3. m <= n /\ n <= MaxReads /\ (y.mode = "result" => p = <<>>)
  BY DEF AnswersInOrder
<1>4. \A j \in 1..n :
          /\ p[j] = "waiting" <=> m < j
          /\ p[j] = "assigned" => \E e \in y.deliveries : e.sequence = j - 1
          /\ \A l \in 1..n : j < l /\ p[j] = "assigned" => p[l] \in {"assigned", "waiting"}
          /\ p[j] # "end"
  BY DEF AnswersInOrder
<1>5. i = k + 1 /\ i \in 1..n /\ p[i] = "assigned" /\ k < m
  BY <1>1, <1>2, <1>3
<1>6. /\ Len(q) = n /\ q[i] = a
      /\ \A j \in 1..n : j # i => q[j] = p[j]
  <2>1. q = [p EXCEPT ![i] = a]
    BY DEF AnsweredEffect
  <2>. QED BY <1>1, <1>5, <2>1
<1>7. /\ x.nextSequence = m /\ x.deliveries = y.deliveries \ {d} /\ x.mode = y.mode
  BY DEF AnsweredEffect
<1>8. \A e \in y.deliveries \ {d} : k < e.sequence
  OBVIOUS
<1>9. a # "waiting" /\ a # "assigned" /\ a # "end"
  OBVIOUS
<1>. HIDE DEF k, i, n, p, q, m
<1>10. \A j \in 1..n :
          /\ q[j] = "waiting" <=> m < j
          /\ q[j] = "assigned" => \E e \in y.deliveries \ {d} : e.sequence = j - 1
          /\ q[j] # "end"
  <2>. TAKE j \in 1..n
  <2>1. CASE j = i
    BY <1>1, <1>5, <1>6, <1>9, <2>1
  <2>2. CASE j # i
    <3>1. \A e \in y.deliveries : e.sequence = j - 1 => e # d
      BY <1>1, <1>5, <2>2 DEF k
    <3>. QED BY <1>4, <1>6, <2>2, <3>1
  <2>. QED BY <2>1, <2>2
<1>11. ASSUME NEW j \in 1..n, NEW l \in 1..n, j < l, q[j] = "assigned"
       PROVE  q[l] \in {"assigned", "waiting"}
  <2>1. j # i /\ p[j] = "assigned"
    BY <1>6, <1>9, <1>11
  <2>2. PICK e \in y.deliveries \ {d} : e.sequence = j - 1
    BY <1>10, <1>11
  <2>3. k < j - 1
    BY <1>8, <2>2
  <2>4. l # i
    BY <1>1, <1>5, <1>11, <2>3
  <2>. QED BY <1>4, <1>6, <1>11, <2>1, <2>4
<1>12. ASSUME NEW e \in y.deliveries \ {d}
       PROVE  /\ e.sequence < m /\ e.reader = e.sequence + 1
              /\ q[e.reader] = "assigned"
              /\ \A f \in y.deliveries \ {d} : e.sequence = f.sequence => e = f
  <2>1. e.reader # i /\ e.reader \in 1..n
    BY <1>1, <1>2, <1>3, <1>5, <1>8
  <2>. QED BY <1>2, <1>6, <2>1
<1>13. x.mode # "result"
  <2>1. n # 0
    BY <1>1, <1>5
  <2>. QED BY <1>3, <1>7, <2>1 DEF n, p
<1>14. AnswersInOrder(x)
  <2>1. x.nextSequence <= Len(x.readers) /\ Len(x.readers) <= MaxReads
    BY <1>3, <1>6, <1>7 DEF q
  <2>2. \A j \in 1..Len(x.readers) :
           /\ x.readers[j] = "waiting" <=> x.nextSequence < j
           /\ x.readers[j] = "assigned" => \E e \in x.deliveries : e.sequence = j - 1
           /\ \A l \in 1..Len(x.readers) :
                  j < l /\ x.readers[j] = "assigned" =>
                      x.readers[l] \in {"assigned", "waiting"}
           /\ x.readers[j] # "end"
    BY <1>6, <1>7, <1>10, <1>11 DEF q
  <2>3. \A e \in x.deliveries :
           /\ e.sequence < x.nextSequence /\ e.reader = e.sequence + 1
           /\ x.readers[e.reader] = "assigned"
           /\ \A f \in x.deliveries : e.sequence = f.sequence => e = f
    BY <1>7, <1>12 DEF q
  <2>. QED BY <1>13, <2>1, <2>2, <2>3 DEF AnswersInOrder
<1>. QED BY <1>5, <1>6, <1>14 DEF i, n, p, q

(* The first chunk of a call in the queue has the least number. *)
LEMMA ChunkIsNext ==
    ASSUME NEW s \in Bridges, NEW c \in Calls, ControlOk(s), s.queue # <<>>,
           NEW k, Head(s.queue) = Chunk(c, k)
    PROVE  /\ s.calls[c].state = "active" /\ AnswersInOrder(s.calls[c])
           /\ \A d \in s.calls[c].deliveries : d.sequence = k =>
                 \A e \in s.calls[c].deliveries : e # d => d.sequence < e.sequence
           /\ \A d \in s.calls[c].deliveries : d.sequence # k =>
                 InQueue(Tail(s.queue), Chunk(c, d.sequence))
           /\ InQueue(s.queue, Terminal(c)) => InQueue(Tail(s.queue), Terminal(c))
           /\ \A i \in 1..Len(Tail(s.queue)) :
                 OwnTask(Tail(s.queue)[i], c) /\ Tail(s.queue)[i].kind = "chunk" =>
                     k < Tail(s.queue)[i].arg
<1>. DEFINE y == s.calls[c]
            p == s.queue
            q == Tail(p)
<1>1. /\ \A i \in 1..Len(p) : TaskOk(s, p[i])
      /\ \A d \in y.deliveries : InQueue(p, Chunk(c, d.sequence))
      /\ CallOk(y) /\ OthersOk(s, c)
  BY ControlParts DEF ControlOk, QueueOk
<1>2. /\ Len(p) \in Nat /\ Len(p) > 0 /\ Head(p) = p[1]
      /\ \A i \in 1..Len(p) : p[i] = Head(p) \/ InQueue(q, p[i])
  <2>1. p \in Seq(Tasks) /\ p # <<>>
    BY DEF Bridges
  <2>. QED BY <2>1, TailOfQueue
<1>3. \A i \in 1..Len(q) : Follows(Head(p), q[i])
  BY <1>1, DequeueTask DEF Chunk
<1>4. y.state = "active"
  <2>1. TaskOk(s, Chunk(c, k))
    <3>1. 1 \in 1..Len(p)
      BY <1>2
    <3>. QED BY <1>1, <1>2, <3>1
  <2>. QED BY <2>1 DEF TaskOk, Chunk
<1>5. AnswersInOrder(y)
  BY <1>1, <1>4 DEF CallOk, StreamInOrder
<1>. HIDE DEF q
<1>6. \A task : InQueue(p, task) /\ task # Head(p) => InQueue(q, task)
  BY <1>2 DEF InQueue
<1>7. \A d \in y.deliveries : d.sequence # k => InQueue(q, Chunk(c, d.sequence))
  <2>1. \A d \in y.deliveries : d.sequence # k => Chunk(c, d.sequence) # Chunk(c, k)
    BY DEF Chunk
  <2>. QED BY <1>1, <1>6, <2>1
<1>8. \A d \in y.deliveries : d.sequence # k => k < d.sequence
  <2>. SUFFICES ASSUME NEW d \in y.deliveries, d.sequence # k PROVE k < d.sequence
    OBVIOUS
  <2>1. PICK i \in 1..Len(q) : q[i] = Chunk(c, d.sequence)
    BY <1>7 DEF InQueue
  <2>2. Follows(Chunk(c, k), Chunk(c, d.sequence))
    BY <1>3, <2>1
  <2>. QED BY <2>2 DEF Follows, Chunk
<1>9. \A d \in y.deliveries : d.sequence = k =>
          \A e \in y.deliveries : e # d => d.sequence < e.sequence
  BY <1>5, <1>8 DEF AnswersInOrder
<1>10. InQueue(p, Terminal(c)) => InQueue(q, Terminal(c))
  <2>1. Terminal(c) # Chunk(c, k)
    BY DEF Terminal, Chunk
  <2>. QED BY <1>6, <2>1
<1>11. \A i \in 1..Len(q) : OwnTask(q[i], c) /\ q[i].kind = "chunk" => k < q[i].arg
  BY <1>3 DEF Follows, Chunk, OwnTask
<1>. QED BY <1>4, <1>5, <1>7, <1>9, <1>10, <1>11 DEF q

(* deliverChunk, but for the failure of the call *)
LEMMA ChunkDelivered ==
    ASSUME NEW s \in Bridges, NEW c \in Calls, ControlOk(s), s.queue # <<>>,
           NEW k, Head(s.queue) = Chunk(c, k),
           NEW d \in s.calls[c].deliveries, d.sequence = k, NEW a \in {"chunk", "error"},
           NEW r \in Bridges, r.queue = Tail(s.queue), r.stack = s.stack,
           \A t \in Tokens : s.held[t] = Revoked => r.held[t] = Revoked,
           \A e \in Calls : e # c => SameCore(r.calls[e], s.calls[e]),
           AnsweredEffect(r.calls[c], s.calls[c], d, a)
    PROVE  StepOk(r, s)
<1>. DEFINE y == s.calls[c]
            x == r.calls[c]
            q == Tail(s.queue)
<1>1. OthersOk(s, c) /\ MineOk(s, c) /\ y \in CallRecords /\ Len(y.readers) \in Nat
  BY ControlParts, CallOfBridge
<1>2. /\ y.state = "active" /\ AnswersInOrder(y)
      /\ \A e \in y.deliveries : e # d => d.sequence < e.sequence
      /\ \A e \in y.deliveries : e.sequence # k => InQueue(q, Chunk(c, e.sequence))
      /\ InQueue(s.queue, Terminal(c)) => InQueue(q, Terminal(c))
      /\ \A i \in 1..Len(q) : OwnTask(q[i], c) /\ q[i].kind = "chunk" => k < q[i].arg
  BY ChunkIsNext
<1>3. /\ AnswersInOrder(x) /\ Len(x.readers) = Len(y.readers)
      /\ d.reader \in 1..Len(y.readers) /\ y.readers[d.reader] = "assigned"
      /\ \A j \in 1..Len(y.readers) : j # d.reader => x.readers[j] = y.readers[j]
  <2>. HIDE DEF x, y
  <2>1. d \in y.deliveries /\ AnsweredEffect(x, y, d, a)
    BY DEF x, y
  <2>. QED BY <1>1, <1>2, <2>1, AnsweredAnswers
<1>4. /\ x.state = y.state /\ x.completion = y.completion /\ x.credits = y.credits
      /\ x.nextSequence = y.nextSequence /\ x.registered = y.registered
      /\ x.cancelIssued = y.cancelIssued /\ x.outcome = y.outcome
      /\ x.deliveries = y.deliveries \ {d}
  BY DEF AnsweredEffect
<1>5. SameTasks(q, s.queue, c)
  BY <1>1, DequeueTask DEF Chunk
<1>6. SameStacks(r, s, c) /\ SameCores(r, s, c)
  BY <1>1, SameTasksRefl DEF SameStacks, SameCores, OnStack
<1>7. OthersOk(r, c)
  BY <1>1, <1>5, <1>6, OthersKept
<1>8. OnStack(r, c) <=> OnStack(s, c)
  BY DEF OnStack
<1>9. \A e \in x.deliveries : e \in y.deliveries /\ e.sequence # k
  <2>1. \A e \in y.deliveries : e.sequence = d.sequence => e = d
    BY <1>2 DEF AnswersInOrder
  <2>. QED BY <1>4, <2>1
<1>10. CallOk(x)
  <2>1. CallOk(y)
    BY <1>1 DEF MineOk, CallControl
  <2>. HIDE DEF x, y
  <2>. QED BY <1>2, <1>3, <1>4, <2>1 DEF CallOk, StreamInOrder
<1>11. CallControl(r, c)
  <2>1. \A e \in x.deliveries : InQueue(q, Chunk(c, e.sequence))
    BY <1>2, <1>9
  <2>2. AwaitedOne(s, c) /\ StackedOne(s, c)
    BY <1>1 DEF MineOk, CallControl
  <2>3. AwaitedOne(r, c)
    BY <1>2, <1>4, <1>8, <2>2 DEF AwaitedOne
  <2>4. StackedOne(r, c)
    BY <1>4, <1>8, <2>2 DEF StackedOne
  <2>. QED BY <1>10, <2>1, <2>3, <2>4 DEF CallControl
<1>12. ASSUME NEW i \in 1..Len(q), OwnTask(q[i], c) PROVE TaskOk(r, q[i])
  <2>1. i + 1 \in 1..Len(s.queue) /\ q[i] = s.queue[i + 1]
    BY <1>1, DequeueTask DEF Chunk
  <2>2. TaskOk(s, q[i]) /\ q[i].kind # "revoke" /\ q[i].call = c
    BY <1>1, <1>12, <2>1 DEF MineOk, OwnTask
  <2>3. q[i].kind = "chunk" => q[i].arg # k
    <3>1. k \in Nat
      BY CallOfBridge DEF CallRecords, Deliveries
    <3>. QED BY <1>2, <1>12, <3>1
  <2>4. q[i].kind = "chunk" => \E e \in x.deliveries : e.sequence = q[i].arg
    <3>. SUFFICES ASSUME q[i].kind = "chunk" PROVE \E e \in x.deliveries : e.sequence = q[i].arg
      OBVIOUS
    <3>1. PICK e \in y.deliveries : e.sequence = q[i].arg
      BY <2>2 DEF TaskOk
    <3>. QED BY <1>4, <2>3, <3>1
  <2>. QED BY <1>4, <1>8, <2>2, <2>4 DEF TaskOk
<1>13. ControlOk(r)
  BY <1>7, <1>11, <1>12, ControlParts DEF MineOk
<1>14. Advance(r, s)
  <2>1. Advances(x, y)
    <3>. HIDE DEF x, y
    <3>. QED BY <1>1, <1>3, <1>4 DEF Advances, Answered
  <2>. QED BY <2>1, SameCoreAdvances, CallOfBridge DEF Advance
<1>. QED BY <1>13, <1>14 DEF StepOk

(* deliverChunk *)
TakeChunk(s, c, d) == [Dequeue(s) EXCEPT !.calls[c].deliveries = @ \ {d}]
AnswerReader(s, c, d, a) == [s EXCEPT !.calls[c].readers[d.reader] = a]
ChunkTaken(call, d) == [call EXCEPT !.deliveries = @ \ {d}]
ReaderAnswered(call, d, a) == [call EXCEPT !.readers[d.reader] = a]

(* The record of a call without a delivery *)
LEMMA ChunkTakenFields ==
    ASSUME NEW y \in CallRecords, NEW d
    PROVE  LET x == ChunkTaken(y, d) IN
           /\ x \in CallRecords /\ x.completion = y.completion /\ x.credits = y.credits
           /\ x.id = y.id /\ x.mode = y.mode /\ x.state = y.state /\ x.input = y.input
           /\ x.deliveries = y.deliveries \ {d} /\ x.nextSequence = y.nextSequence
           /\ x.readers = y.readers /\ x.registered = y.registered
           /\ x.deadline = y.deadline /\ x.cancelIssued = y.cancelIssued
           /\ x.outcome = y.outcome /\ x.closedTokens = y.closedTokens /\ x.todo = y.todo
BY DEF CallRecords, ChunkTaken

(* The record of a call with one reader answered *)
LEMMA ReaderAnsweredFields ==
    ASSUME NEW y \in CallRecords, NEW z \in CallRecords, NEW d,
           SameCore(z, ChunkTaken(y, d)), d.reader \in 1..Len(y.readers),
           NEW a \in ReaderStates
    PROVE  LET x == ReaderAnswered(z, d, a)
           IN /\ x \in CallRecords /\ AnsweredEffect(x, y, d, a)
              /\ x.closedTokens = z.closedTokens /\ x.todo = z.todo
<1>. DEFINE q == [z.readers EXCEPT ![d.reader] = a]
            x == [z EXCEPT !.readers = q]
            w == ChunkTaken(y, d)
<1>1. /\ w.completion = y.completion /\ w.credits = y.credits
      /\ w.id = y.id /\ w.mode = y.mode /\ w.state = y.state /\ w.input = y.input
      /\ w.deliveries = y.deliveries \ {d} /\ w.nextSequence = y.nextSequence
      /\ w.readers = y.readers /\ w.registered = y.registered
      /\ w.deadline = y.deadline /\ w.cancelIssued = y.cancelIssued
      /\ w.outcome = y.outcome
  BY ChunkTakenFields
<1>2. ReaderAnswered(z, d, a) = x
  BY DEF ReaderAnswered, CallRecords
<1>. HIDE DEF w
<1>3. SameCore(z, w)
  BY DEF w
<1>4. z.readers = y.readers
  BY <1>1, <1>3 DEF SameCore
<1>5. q \in Seq(ReaderStates)
  <2>1. z.readers \in Seq(ReaderStates)
    BY DEF CallRecords
  <2>. QED BY <1>4, <2>1, ExceptSeq
<1>. HIDE DEF q
<1>6. /\ x \in CallRecords /\ x.readers = q
      /\ x.completion = z.completion /\ x.credits = z.credits
      /\ x.id = z.id /\ x.mode = z.mode /\ x.state = z.state /\ x.input = z.input
      /\ x.deliveries = z.deliveries /\ x.nextSequence = z.nextSequence
      /\ x.registered = z.registered
      /\ x.deadline = z.deadline /\ x.cancelIssued = z.cancelIssued
      /\ x.outcome = z.outcome /\ x.closedTokens = z.closedTokens /\ x.todo = z.todo
  BY <1>5 DEF CallRecords
<1>. HIDE DEF x
<1>7. AnsweredEffect(x, y, d, a)
  BY <1>1, <1>3, <1>4, <1>6 DEF AnsweredEffect, SameCore, q
<1>. QED BY <1>2, <1>6, <1>7

(* deliverChunk takes the delivery, field by field. *)
LEMMA TakeChunkFields ==
    ASSUME NEW s \in Bridges, NEW c \in Calls, s.queue # <<>>, NEW d
    PROVE  LET r == TakeChunk(s, c, d)
           IN r \in Bridges /\ TakeEffect(r, s, c, ChunkTaken(s.calls[c], d))
<1>. DEFINE y == s.calls[c]
            q == Dequeue(s)
<1>1. q.calls = s.calls /\ q \in Bridges
  BY DequeueFields
<1>2. ChunkTaken(y, d) \in CallRecords
  BY CallOfBridge, ChunkTakenFields
<1>. HIDE DEF q
<1>3. TakeChunk(s, c, d) = WithCall(q, c, ChunkTaken(y, d))
  BY <1>1 DEF TakeChunk, WithCall, ChunkTaken, Bridges, q
<1>. HIDE DEF y
<1>. QED BY <1>2, <1>3, TakeFields DEF q, y

AnswerEffect(r, q, c, x) ==
    /\ r.queue = q.queue /\ r.stack = q.stack /\ r.credits = q.credits
    /\ SameProvider(r, q) /\ SameCounters(r, q) /\ SameCalls(r, q, c) /\ r.calls[c] = x

(* A reader is answered, field by field. *)
LEMMA AnswerReaderFields ==
    ASSUME NEW q \in Bridges, NEW c \in Calls, NEW d, NEW a,
           ReaderAnswered(q.calls[c], d, a) \in CallRecords
    PROVE  LET r == AnswerReader(q, c, d, a)
           IN r \in Bridges /\ AnswerEffect(r, q, c, ReaderAnswered(q.calls[c], d, a))
<1>. DEFINE x == ReaderAnswered(q.calls[c], d, a)
            r == WithCall(q, c, x)
<1>1. AnswerReader(q, c, d, a) = r
  BY DEF AnswerReader, WithCall, ReaderAnswered, Bridges
<1>. HIDE DEF x
<1>2. r \in Bridges /\ AnswerEffect(r, q, c, x)
  <2>1. x \in CallRecords
    BY DEF x
  <2>. QED BY <2>1, CallFields DEF AnswerEffect, SameProvider, SameCounters, SameCalls
<1>. QED BY <1>1, <1>2 DEF x

(* deliverChunk keeps the control invariant, whether the chunk is          *)
(* delivered or its call fails.                                            *)
LEMMA DeliverChunkStep ==
    ASSUME NEW s \in Bridges, NEW c \in Calls, ControlOk(s), s.queue # <<>>,
           NEW k, Head(s.queue) = Chunk(c, k),
           NEW d \in s.calls[c].deliveries, d.sequence = k,
           NEW T \in SUBSET Tokens, NEW b \in Int
    PROVE  LET q == TakeChunk(s, c, d)
           IN /\ StepOk(AnswerReader(DeliverOutput(q, T, b), c, d, "chunk"), s)
              /\ StepOk(FailProvider(
                     AnswerReader(ReleaseOutput(q, c, T, b), c, d, "error"), c), s)
<1>. DEFINE y == s.calls[c]
            w == ChunkTaken(y, d)
            q == TakeChunk(s, c, d)
<1>1. y \in CallRecords /\ AnswersInOrder(y) /\ Len(y.readers) \in Nat
  BY ChunkIsNext, CallOfBridge
<1>2. d.reader \in 1..Len(y.readers)
  <2>1. d.sequence \in Nat /\ y.nextSequence \in Nat
    BY <1>1 DEF CallRecords, Deliveries
  <2>2. d.sequence < y.nextSequence /\ d.reader = d.sequence + 1
        /\ y.nextSequence <= Len(y.readers)
    BY <1>1 DEF AnswersInOrder
  <2>. QED BY <1>1, <2>1, <2>2
<1>3. q \in Bridges /\ TakeEffect(q, s, c, w)
  BY TakeChunkFields
<1>. HIDE DEF q, w
<1>4. ASSUME NEW p \in Bridges, p.queue = q.queue, p.stack = q.stack,
             \A e \in Calls : SameCore(p.calls[e], q.calls[e]),
             \A t \in Tokens : q.held[t] = Revoked => p.held[t] = Revoked,
             NEW a \in {"chunk", "error"}
      PROVE  StepOk(AnswerReader(p, c, d, a), s)
  <2>. DEFINE z == p.calls[c]
              x == ReaderAnswered(z, d, a)
              r == AnswerReader(p, c, d, a)
  <2>1. z \in CallRecords /\ SameCore(z, ChunkTaken(y, d))
    BY <1>3, <1>4, CallOfBridge DEF TakeEffect, w
  <2>2. a \in ReaderStates
    BY DEF ReaderStates
  <2>. HIDE DEF z, y
  <2>3. x \in CallRecords /\ AnsweredEffect(x, y, d, a)
    BY <1>1, <1>2, <2>1, <2>2, ReaderAnsweredFields
  <2>4. r \in Bridges /\ AnswerEffect(r, p, c, x)
    BY <2>3, AnswerReaderFields DEF z
  <2>. HIDE DEF r, x
  <2>5. /\ r.queue = Tail(s.queue) /\ r.stack = s.stack
        /\ \A t \in Tokens : s.held[t] = Revoked => r.held[t] = Revoked
        /\ \A e \in Calls : e # c => SameCore(r.calls[e], s.calls[e])
        /\ AnsweredEffect(r.calls[c], y, d, a)
    BY <1>3, <1>4, <2>3, <2>4
       DEF TakeEffect, AnswerEffect, SameProvider, SameCalls
  <2>6. StepOk(r, s)
    BY <2>4, <2>5, ChunkDelivered DEF y
  <2>. QED BY <2>6 DEF r
<1>5. StepOk(AnswerReader(DeliverOutput(q, T, b), c, d, "chunk"), s)
  <2>. DEFINE p == DeliverOutput(q, T, b)
  <2>1. p \in Bridges /\ DeliverEffect(p, q, T, b)
    BY <1>3, DeliverFields
  <2>. HIDE DEF p
  <2>2. /\ p.queue = q.queue /\ p.stack = q.stack /\ p.held = q.held
        /\ \A e \in Calls : SameCore(p.calls[e], q.calls[e])
    BY <2>1, SameCoreRefl DEF DeliverEffect, SameLoop
  <2>3. StepOk(AnswerReader(p, c, d, "chunk"), s)
    BY <1>4, <2>1, <2>2
  <2>. QED BY <2>3 DEF p
<1>6. StepOk(FailProvider(AnswerReader(ReleaseOutput(q, c, T, b), c, d, "error"), c), s)
  <2>. DEFINE p == ReleaseOutput(q, c, T, b)
              r == AnswerReader(p, c, d, "error")
  <2>1. p \in Bridges /\ p.queue = q.queue /\ p.stack = q.stack
        /\ ClosesUp(p, q, c, GivenBack(q, c, T))
    BY <1>3, ReleaseFields
  <2>. HIDE DEF p
  <2>2. /\ \A e \in Calls : SameCore(p.calls[e], q.calls[e])
        /\ \A t \in Tokens : q.held[t] = Revoked => p.held[t] = Revoked
    BY <2>1, Constants DEF ClosesUp
  <2>3. StepOk(r, s)
    BY <1>4, <2>1, <2>2
  <2>. HIDE DEF r
  <2>4. StepOk(FailProvider(r, c), r)
    BY <2>3, FailStep DEF StepOk
  <2>5. StepOk(FailProvider(r, c), s)
    BY <2>3, <2>4, StepTrans
  <2>. QED BY <2>5 DEF r, p
<1>. QED BY <1>5, <1>6 DEF q

=============================================================================
