------------------------- MODULE NativeBridge_proofs -------------------------
(***************************************************************************)
(* The inductive invariant of NativeBridge holds for every number of       *)
(* calls, chunks, identifiers and tokens: the provider's tokens, the quotas*)
(* and what is left once the bridge is disposed of, over the calls and the *)
(* queue of NativeBridgeCalls_proofs; then the bridge's safety properties. *)
(***************************************************************************)
EXTENDS NativeBridgeCalls_proofs

-----------------------------------------------------------------------------
(* The provider's tokens                                                   *)

(* The same grants and the same cleanup *)
SameTokens(x, y) ==
    /\ x.completion.grants = y.completion.grants /\ x.deliveries = y.deliveries
    /\ x.closedTokens = y.closedTokens /\ x.todo = y.todo
    /\ x.state = "unused" => y.state = "unused"

(* Calls with the same outputs have the same grants. *)
LEMMA SameTokensGrants ==
    ASSUME NEW x, NEW y, SameTokens(x, y)
    PROVE  QueuedGrants(x) = QueuedGrants(y)
BY DEF SameTokens, QueuedGrants

(* A call left alone has the same outputs. *)
LEMMA SameTokensRefl == \A y : SameTokens(y, y)
BY DEF SameTokens

(* The token invariant of a state with the same resources and outputs *)
LEMMA TokensSame ==
    ASSUME NEW s, NEW r, NEW c, NEW H, TokensOk(s, c, H), SameProvider(r, s),
           \A d \in Calls : SameTokens(r.calls[d], s.calls[d])
    PROVE  TokensOk(r, c, H)
<1>1. \A d \in Calls : /\ QueuedGrants(r.calls[d]) = QueuedGrants(s.calls[d])
                       /\ r.calls[d].todo = s.calls[d].todo
                       /\ r.calls[d].closedTokens = s.calls[d].closedTokens
  BY SameTokensGrants DEF SameTokens
<1>2. /\ r.resources = s.resources /\ r.byToken = s.byToken
      /\ r.held = s.held /\ r.strayClose = s.strayClose
  BY DEF SameProvider
<1>3. ASSUME NEW t \in Tokens PROVE TokenOk(r, t, c, H)
  <2>1. TokenOk(s, t, c, H)
    BY DEF TokensOk
  <2>2. s.resources[t].status = "reserved" => s.resources[t].call \in Calls
    BY <2>1 DEF TokenOk
  <2>. QED BY <1>1, <1>2, <2>1, <2>2 DEF TokenOk
<1>4. ASSUME NEW d \in Calls PROVE GrantsOk(r, d, InHand(d, c, H))
  <2>1. GrantsOk(s, d, InHand(d, c, H)) /\ SameTokens(r.calls[d], s.calls[d])
    BY DEF TokensOk
  <2>. QED BY <1>1, <1>2, <2>1 DEF GrantsOk, SameTokens
<1>5. ASSUME NEW d \in Calls PROVE CleanupOk(r, d)
  <2>1. CleanupOk(s, d) /\ SameTokens(r.calls[d], s.calls[d])
    BY DEF TokensOk
  <2>. QED BY <1>2, <2>1 DEF CleanupOk, SameTokens, HeldFor
<1>. QED BY <1>2, <1>3, <1>4, <1>5 DEF TokensOk

(* What TokensOk says of one token and of one call *)
LEMMA TokenFacts ==
    ASSUME NEW s, NEW c, NEW H, TokensOk(s, c, H), NEW t \in Tokens
    PROVE  /\ s.held[t] = Fresh => s.resources[t] = NoResource
           /\ s.resources[t].revokeQueued => s.held[t] = Revoked
           /\ t \in s.byToken <=> s.resources[t].status \in {"reserved", "open"}
           /\ t \in s.byToken => /\ s.resources[t].call \in Calls
                                 /\ s.resources[t].revokeQueued \/ s.held[t] = s.resources[t].call
           /\ s.held[t] \in Calls =>
                  \/ t \in s.byToken
                  \/ t \in s.calls[s.held[t]].todo
                  \/ Cardinality(s.calls[s.held[t]].closedTokens) >= HardCap
           /\ s.resources[t].status = "reserved" =>
                  t \in QueuedGrants(s.calls[s.resources[t].call])
                        \cup InHand(s.resources[t].call, c, H)
BY DEF TokensOk, TokenOk

(* What the token invariant says of one call *)
LEMMA CallFacts ==
    ASSUME NEW s, NEW c, NEW H, TokensOk(s, c, H), NEW d \in Calls
    PROVE  /\ \A t \in QueuedGrants(s.calls[d]) \cup InHand(d, c, H) :
                 s.resources[t].call = d /\ s.resources[t].status \in {"reserved", "closed"}
           /\ s.calls[d].state = "unused" => s.calls[d].closedTokens = {}
           /\ s.calls[d].todo \subseteq s.calls[d].closedTokens
           /\ \A t \in s.calls[d].closedTokens : t \notin s.byToken /\ s.held[t] # Fresh
           /\ \A t \in s.calls[d].todo : HeldFor(s, t, d)
BY DEF TokensOk, GrantsOk, CleanupOk

(* The sets of tokens a call knows of *)
LEMMA GrantsAreTokens ==
    ASSUME NEW s \in Bridges, NEW c \in Calls
    PROVE  /\ QueuedGrants(s.calls[c]) \in SUBSET Tokens
           /\ s.calls[c].closedTokens \in SUBSET Tokens /\ s.calls[c].todo \in SUBSET Tokens
           /\ s.byToken \in SUBSET Tokens
<1>1. s.calls[c] \in CallRecords
  BY CallOfBridge
<1>2. s.calls[c].completion.grants \in SUBSET Tokens
      /\ \A d \in s.calls[c].deliveries : d.grants \in SUBSET Tokens
  BY <1>1 DEF CallRecords, Completions, Deliveries
<1>. QED BY <1>1, <1>2 DEF QueuedGrants, CallRecords, Bridges

(* Those that are not admitted find the cleanup full. *)
LEMMA AdmittedFacts ==
    ASSUME NEW A \in SUBSET Tokens, NEW T \in SUBSET Tokens
    PROVE  /\ Admitted(A, T) \subseteq T \ A
           /\ \A t \in T \ A : t \notin Admitted(A, T) =>
                 Cardinality(A \cup Admitted(A, T)) >= HardCap
<1>1. Admitted(A, T) \subseteq T \ A
  BY DEF Admitted
<1>2. ASSUME NEW t \in T \ A, t \notin Admitted(A, T)
      PROVE  Cardinality(A \cup Admitted(A, T)) >= HardCap
  <2>. DEFINE late == (T \ A) \ Admitted(A, T)
              below(m) == {u \in T \ A : u < m}
  <2>1. late \in SUBSET Nat /\ late # {}
    BY <1>2, Constants
  <2>2. PICK m \in late : \A u \in late : m <= u
    BY <2>1, SmallestExists
  <2>3. below(m) \subseteq Admitted(A, T)
    <3>. SUFFICES ASSUME NEW u \in T \ A, u < m, u \notin Admitted(A, T) PROVE FALSE
      OBVIOUS
    <3>1. u \in late /\ u \in Nat /\ m \in Nat
      BY Constants
    <3>. QED BY <2>2, <3>1
  <2>4. ~(Cardinality(A) + Cardinality(below(m)) < HardCap)
    <3>1. m \in T \ A /\ m \notin Admitted(A, T)
      OBVIOUS
    <3>. QED BY <3>1 DEF Admitted
  <2>5. below(m) \in SUBSET Tokens /\ A \cap below(m) = {}
    OBVIOUS
  <2>. HIDE DEF below, late
  <2>6. IsFiniteSet(A) /\ IsFiniteSet(below(m))
        /\ Cardinality(A) \in Nat /\ Cardinality(below(m)) \in Nat
    BY <2>5, TokensFinite
  <2>7. Cardinality(A \cup below(m)) = Cardinality(A) + Cardinality(below(m))
    <3>1. Cardinality(A \cap below(m)) = 0
      BY <2>5, FS_EmptySet
    <3>2. Cardinality(A \cup below(m))
          = Cardinality(A) + Cardinality(below(m)) - Cardinality(A \cap below(m))
      BY <2>6, FS_Union
    <3>. QED BY <2>6, <3>1, <3>2
  <2>8. A \cup Admitted(A, T) \in SUBSET Tokens /\ A \cup below(m) \subseteq A \cup Admitted(A, T)
    BY <1>1, <2>3
  <2>9. Cardinality(A \cup below(m)) <= Cardinality(A \cup Admitted(A, T))
        /\ Cardinality(A \cup Admitted(A, T)) \in Nat
    BY <2>8, TokensFinite, FS_Subset
  <2>. QED BY <2>4, <2>6, <2>7, <2>9, Constants
<1>. QED BY <1>1, <1>2

(* A full cleanup stays full. *)
LEMMA CapKept ==
    ASSUME NEW A \in SUBSET Tokens, NEW B \in SUBSET Tokens, A \subseteq B,
           Cardinality(A) >= HardCap
    PROVE  Cardinality(B) >= HardCap
<1>1. Cardinality(A) <= Cardinality(B)
  BY TokensFinite, FS_Subset
<1>. QED BY <1>1, TokensFinite, Constants

(* The grants G of call c are given up: H, in hand, or queued at the call. *)
ReleasesGrants(r, s, c, G, H) ==
    LET new == GivenBack(s, c, G)
    IN /\ r.byToken = s.byToken \ Lost(s, G)
       /\ \A t \in Tokens :
             /\ r.resources[t].call = s.resources[t].call
             /\ r.resources[t].revokeQueued = s.resources[t].revokeQueued
             /\ r.resources[t].status = IF t \in Lost(s, G) THEN "closed"
                                        ELSE s.resources[t].status
             /\ r.held[t] = IF ~OnStack(s, c) /\ t \in new /\ s.held[t] = c
                            THEN Closed ELSE s.held[t]
       /\ (\A t \in new : HeldFor(s, t, c)) => r.strayClose = s.strayClose
       /\ \A d \in Calls : d # c => SameTokens(r.calls[d], s.calls[d])
       /\ r.calls[c].closedTokens = s.calls[c].closedTokens \cup new
       /\ r.calls[c].todo = IF OnStack(s, c) THEN s.calls[c].todo \cup new ELSE s.calls[c].todo
       /\ r.calls[c].state # "unused"
       /\ \/ SameTokens([r.calls[c] EXCEPT !.closedTokens = s.calls[c].closedTokens,
                                           !.todo = s.calls[c].todo], s.calls[c]) /\ G = H
          \/ /\ r.calls[c].completion.grants = {} /\ r.calls[c].deliveries = {}
             /\ G = QueuedGrants(s.calls[c]) /\ H = {}

(* What the release of a grant rests on *)
LossOk(s, c, L, N) ==
    /\ \A t \in L :
          /\ t \in Tokens /\ t \in s.byToken /\ s.resources[t].call = c
          /\ t \notin s.calls[c].closedTokens
          /\ ~s.resources[t].revokeQueued => s.held[t] = c
          /\ \/ s.resources[t].revokeQueued \/ t \in N
             \/ Cardinality(s.calls[c].closedTokens \cup N) >= HardCap
    /\ N \in SUBSET L
    /\ \A t \in N : s.held[t] = c /\ HeldFor(s, t, c)
    /\ N \cap s.calls[c].closedTokens = {}

(* What releaseOutput gives up is reserved for its call, and what it       *)
(* gives back the provider holds for it, or has taken back.                *)
LEMMA LostFacts ==
    ASSUME NEW s \in Bridges, NEW c \in Calls, NEW H, TokensOk(s, c, H),
           NEW G \in SUBSET Tokens, G \subseteq QueuedGrants(s.calls[c]) \cup H
    PROVE  LossOk(s, c, Lost(s, G), GivenBack(s, c, G))
<1>. DEFINE L == Lost(s, G)
            T == {t \in L : ~s.resources[t].revokeQueued}
            A == s.calls[c].closedTokens
            N == GivenBack(s, c, G)
<1>1. L \in SUBSET Tokens /\ T \in SUBSET Tokens
  BY DEF Lost
<1>2. A \in SUBSET Tokens
  BY GrantsAreTokens
<1>3. \A t \in L : s.resources[t].call = c /\ s.resources[t].status = "reserved"
  <2>1. InHand(c, c, H) = H
    BY DEF InHand
  <2>2. \A t \in QueuedGrants(s.calls[c]) \cup H : s.resources[t].call = c
    BY <2>1, CallFacts
  <2>. QED BY <2>2 DEF Lost
<1>4. \A t \in L : /\ t \in Tokens /\ t \in s.byToken /\ t \notin A
                   /\ ~s.resources[t].revokeQueued => s.held[t] = c
  <2>. SUFFICES ASSUME NEW t \in L
                PROVE  /\ t \in Tokens /\ t \in s.byToken /\ t \notin A
                       /\ ~s.resources[t].revokeQueued => s.held[t] = c
    OBVIOUS
  <2>1. t \in Tokens
    BY <1>1
  <2>2. t \in s.byToken /\ (~s.resources[t].revokeQueued => s.held[t] = c)
    BY <1>3, <2>1, TokenFacts
  <2>3. t \notin A
    BY <2>2, CallFacts
  <2>. QED BY <2>1, <2>2, <2>3
<1>5. N = Admitted(A, T)
  BY DEF GivenBack
<1>6. N \subseteq T \ A /\ \A t \in T \ A : t \notin N => Cardinality(A \cup N) >= HardCap
  <2>. HIDE DEF L, T, A, N
  <2>1. /\ Admitted(A, T) \subseteq T \ A
        /\ \A t \in T \ A : t \notin Admitted(A, T) =>
              Cardinality(A \cup Admitted(A, T)) >= HardCap
    BY <1>1, <1>2, AdmittedFacts
  <2>. QED BY <1>5, <2>1
<1>7. \A t \in N : s.held[t] = c /\ HeldFor(s, t, c)
  BY <1>4, <1>6 DEF HeldFor
<1>8. \A t \in L : s.resources[t].revokeQueued \/ t \in T \ A
  BY <1>4
<1>. HIDE DEF L, N, A, T
<1>. QED BY <1>3, <1>4, <1>6, <1>7, <1>8 DEF LossOk, L, N, A, T

(* Whatever releases the outputs of a call keeps the token invariant. *)
LEMMA ReleasedTokens ==
    ASSUME NEW s \in Bridges, NEW r \in Bridges, NEW c \in Calls, NEW H \in SUBSET Tokens,
           TokensOk(s, c, H), NEW G \in SUBSET Tokens, ReleasesGrants(r, s, c, G, H)
    PROVE  TokensOk(r, c, {})
<1>. DEFINE L == Lost(s, G)
            N == GivenBack(s, c, G)
            y == s.calls[c]
            x == r.calls[c]
            A == y.closedTokens
<1>1. G \subseteq QueuedGrants(y) \cup H /\ QueuedGrants(y) \cup H \subseteq G \cup QueuedGrants(x)
      /\ QueuedGrants(x) \subseteq QueuedGrants(y)
  <2>1. CASE SameTokens([x EXCEPT !.closedTokens = y.closedTokens, !.todo = y.todo], y) /\ G = H
    <3>1. x \in CallRecords
      BY CallOfBridge
    <3>2. x.completion.grants = y.completion.grants /\ x.deliveries = y.deliveries
      <4>. HIDE DEF x, y
      <4>. QED BY <2>1, <3>1 DEF SameTokens, CallRecords
    <3>3. QueuedGrants(x) = QueuedGrants(y)
      BY <3>2 DEF QueuedGrants
    <3>. QED BY <2>1, <3>3
  <2>2. CASE x.completion.grants = {} /\ x.deliveries = {} /\ G = QueuedGrants(y) /\ H = {}
    <3>1. QueuedGrants(x) = {}
      BY <2>2 DEF QueuedGrants
    <3>. QED BY <2>2, <3>1
  <2>. QED BY <2>1, <2>2 DEF ReleasesGrants
<1>2. /\ \A t \in L : /\ t \in Tokens /\ t \in s.byToken /\ s.resources[t].call = c
                      /\ t \notin A
                      /\ ~s.resources[t].revokeQueued => s.held[t] = c
                      /\ \/ s.resources[t].revokeQueued \/ t \in N
                         \/ Cardinality(A \cup N) >= HardCap
      /\ N \in SUBSET L
      /\ \A t \in N : s.held[t] = c /\ HeldFor(s, t, c)
      /\ N \cap A = {}
  <2>1. LossOk(s, c, L, N)
    BY <1>1, LostFacts
  <2>. QED BY <2>1 DEF LossOk
<1>3. /\ r.byToken = s.byToken \ L
      /\ \A t \in Tokens :
            /\ r.resources[t].call = s.resources[t].call
            /\ r.resources[t].revokeQueued = s.resources[t].revokeQueued
            /\ r.resources[t].status = IF t \in L THEN "closed" ELSE s.resources[t].status
            /\ r.held[t] = IF ~OnStack(s, c) /\ t \in N /\ s.held[t] = c
                           THEN Closed ELSE s.held[t]
      /\ r.strayClose = s.strayClose
      /\ \A d \in Calls : d # c => SameTokens(r.calls[d], s.calls[d])
      /\ x.closedTokens = A \cup N
      /\ x.todo = IF OnStack(s, c) THEN y.todo \cup N ELSE y.todo
      /\ x.state # "unused"
  BY <1>2 DEF ReleasesGrants
<1>4. ~s.strayClose
  BY DEF TokensOk
<1>5. A \in SUBSET Tokens /\ A \cup N \in SUBSET Tokens /\ y.todo \in SUBSET Tokens
  <2>1. A \in SUBSET Tokens /\ y.todo \in SUBSET Tokens /\ x.closedTokens \in SUBSET Tokens
    BY GrantsAreTokens
  <2>. QED BY <1>3, <2>1
<1>6. ASSUME NEW t \in Tokens PROVE TokenOk(r, t, c, {})
  <2>1. /\ s.held[t] = Fresh => s.resources[t] = NoResource
        /\ s.resources[t].revokeQueued => s.held[t] = Revoked
        /\ t \in s.byToken <=> s.resources[t].status \in {"reserved", "open"}
        /\ t \in s.byToken => /\ s.resources[t].call \in Calls
                              /\ s.resources[t].revokeQueued \/ s.held[t] = s.resources[t].call
        /\ s.held[t] \in Calls =>
               \/ t \in s.byToken
               \/ t \in s.calls[s.held[t]].todo
               \/ Cardinality(s.calls[s.held[t]].closedTokens) >= HardCap
        /\ s.resources[t].status = "reserved" =>
               t \in QueuedGrants(s.calls[s.resources[t].call])
                     \cup InHand(s.resources[t].call, c, H)
    BY TokenFacts
  <2>2. r.held[t] = Fresh => r.resources[t] = NoResource
    <3>. SUFFICES ASSUME r.held[t] = Fresh PROVE r.resources[t] = NoResource
      OBVIOUS
    <3>1. Closed # Fresh
      BY DEF Closed, Fresh
    <3>2. s.held[t] = Fresh
      BY <1>3, <3>1
    <3>3. s.resources[t] = NoResource /\ t \notin L
      <4>1. s.resources[t] = NoResource
        BY <2>1, <3>2
      <4>. QED BY <4>1 DEF NoResource, Lost
    <3>4. r.resources[t] \in ResourceRecords /\ s.resources[t] \in ResourceRecords
      BY DEF Bridges
    <3>5. r.resources[t] = s.resources[t]
      BY <1>3, <3>3, <3>4 DEF ResourceRecords
    <3>. QED BY <3>3, <3>5
  <2>3. r.resources[t].revokeQueued => r.held[t] = Revoked
    <3>1. c # Revoked
      BY Constants
    <3>. QED BY <1>2, <1>3, <2>1, <3>1
  <2>4. t \in r.byToken <=> r.resources[t].status \in {"reserved", "open"}
    BY <1>3, <2>1
  <2>5. t \in r.byToken => /\ r.resources[t].call \in Calls
                           /\ r.resources[t].revokeQueued \/ r.held[t] = r.resources[t].call
    BY <1>2, <1>3, <2>1
  <2>6. r.held[t] \in Calls =>
            \/ t \in r.byToken
            \/ t \in r.calls[r.held[t]].todo
            \/ Cardinality(r.calls[r.held[t]].closedTokens) >= HardCap
    <3>. SUFFICES ASSUME r.held[t] \in Calls, t \notin r.byToken
                  PROVE  \/ t \in r.calls[r.held[t]].todo
                         \/ Cardinality(r.calls[r.held[t]].closedTokens) >= HardCap
      OBVIOUS
    <3>1. Closed \notin Calls /\ Revoked \notin Calls
      BY Constants
    <3>2. r.held[t] = s.held[t] /\ ~(~OnStack(s, c) /\ t \in N)
      BY <1>2, <1>3, <3>1
    <3>3. CASE t \in L
      <4>1. ~s.resources[t].revokeQueued
        BY <2>1, <3>1, <3>2
      <4>2. s.held[t] = c
        BY <1>2, <3>3, <4>1
      <4>. QED BY <1>2, <1>3, <3>2, <3>3, <4>1, <4>2
    <3>4. CASE t \notin L
      <4>. DEFINE e == s.held[t]
      <4>1. t \in s.calls[e].todo \/ Cardinality(s.calls[e].closedTokens) >= HardCap
        BY <1>3, <2>1, <3>2, <3>4
      <4>2. CASE e # c
        <5>1. SameTokens(r.calls[e], s.calls[e])
          BY <1>3, <3>2, <4>2
        <5>. QED BY <3>2, <4>1, <5>1 DEF SameTokens
      <4>3. CASE e = c
        <5>1. Cardinality(A) >= HardCap => Cardinality(A \cup N) >= HardCap
          BY <1>5, CapKept
        <5>. QED BY <1>3, <3>2, <4>1, <4>3, <5>1
      <4>. QED BY <4>2, <4>3
    <3>. QED BY <3>3, <3>4
  <2>7. r.resources[t].status = "reserved" =>
            t \in QueuedGrants(r.calls[r.resources[t].call])
                  \cup InHand(r.resources[t].call, c, {})
    <3>. SUFFICES ASSUME r.resources[t].status = "reserved"
                  PROVE  t \in QueuedGrants(r.calls[r.resources[t].call])
      OBVIOUS
    <3>1. t \notin L /\ s.resources[t].status = "reserved"
      BY <1>3
    <3>2. t \notin G
      BY <3>1 DEF Lost
    <3>. DEFINE e == s.resources[t].call
    <3>3. e \in Calls /\ t \in QueuedGrants(s.calls[e]) \cup InHand(e, c, H)
      BY <2>1, <3>1
    <3>4. CASE e # c
      <4>1. SameTokens(r.calls[e], s.calls[e])
        BY <1>3, <3>3, <3>4
      <4>2. QueuedGrants(r.calls[e]) = QueuedGrants(s.calls[e])
        BY <4>1, SameTokensGrants
      <4>. QED BY <1>3, <3>3, <3>4, <4>2 DEF InHand
    <3>5. CASE e = c
      <4>1. t \in QueuedGrants(x)
        BY <1>1, <3>2, <3>3, <3>5 DEF InHand
      <4>. QED BY <1>3, <3>5, <4>1
    <3>. QED BY <3>4, <3>5
  <2>. QED BY <2>2, <2>3, <2>4, <2>5, <2>6, <2>7 DEF TokenOk
<1>7. ASSUME NEW d \in Calls PROVE GrantsOk(r, d, InHand(d, c, {}))
  <2>1. InHand(d, c, {}) = {}
    BY DEF InHand
  <2>2. /\ \A t \in QueuedGrants(s.calls[d]) :
              s.resources[t].call = d /\ s.resources[t].status \in {"reserved", "closed"}
        /\ \A z \in s.calls[d].deliveries :
              /\ z.grants \cap s.calls[d].completion.grants = {}
              /\ \A w \in s.calls[d].deliveries : z # w => z.grants \cap w.grants = {}
    BY DEF TokensOk, GrantsOk
  <2>3. QueuedGrants(r.calls[d]) \subseteq QueuedGrants(s.calls[d])
    BY <1>1, <1>3, SameTokensGrants
  <2>4. \A t \in QueuedGrants(r.calls[d]) :
            r.resources[t].call = d /\ r.resources[t].status \in {"reserved", "closed"}
    <3>1. QueuedGrants(r.calls[d]) \subseteq Tokens
      BY GrantsAreTokens
    <3>. QED BY <1>3, <2>2, <2>3, <3>1
  <2>5. \/ r.calls[d].deliveries = {}
        \/ /\ r.calls[d].deliveries = s.calls[d].deliveries
           /\ r.calls[d].completion.grants = s.calls[d].completion.grants
    <3>1. CASE d # c
      BY <1>3, <3>1 DEF SameTokens
    <3>2. CASE d = c
      <4>1. x \in CallRecords
        BY CallOfBridge
      <4>2. SameTokens([x EXCEPT !.closedTokens = y.closedTokens, !.todo = y.todo], y)
            \/ x.deliveries = {}
        BY DEF ReleasesGrants
      <4>3. SameTokens([x EXCEPT !.closedTokens = y.closedTokens, !.todo = y.todo], y) =>
                x.completion.grants = y.completion.grants /\ x.deliveries = y.deliveries
        <5>. HIDE DEF x, y
        <5>. QED BY <4>1 DEF SameTokens, CallRecords
      <4>. QED BY <3>2, <4>2, <4>3
    <3>. QED BY <3>1, <3>2
  <2>. QED BY <2>1, <2>2, <2>4, <2>5 DEF GrantsOk
<1>8. ASSUME NEW d \in Calls PROVE CleanupOk(r, d)
  <2>1. /\ s.calls[d].state = "unused" => s.calls[d].closedTokens = {}
        /\ s.calls[d].todo \subseteq s.calls[d].closedTokens
        /\ \A t \in s.calls[d].closedTokens : t \notin s.byToken /\ s.held[t] # Fresh
        /\ \A t \in s.calls[d].todo : HeldFor(s, t, d)
    BY CallFacts
  <2>2. s.calls[d].todo \subseteq Tokens /\ s.calls[d].closedTokens \subseteq Tokens
    BY GrantsAreTokens
  <2>3. Closed # Fresh
    BY DEF Closed, Fresh
  <2>4. CASE d # c
    <3>1. SameTokens(r.calls[d], s.calls[d])
      BY <1>3, <2>4
    <3>2. \A t \in s.calls[d].closedTokens : t \notin r.byToken /\ r.held[t] # Fresh
      BY <1>3, <2>1, <2>2, <2>3
    <3>3. \A t \in s.calls[d].todo : HeldFor(r, t, d)
      <4>. SUFFICES ASSUME NEW t \in s.calls[d].todo PROVE HeldFor(r, t, d)
        OBVIOUS
      <4>1. t \in Tokens /\ HeldFor(s, t, d) /\ c # Revoked
        BY <2>1, <2>2, Constants
      <4>2. s.held[t] # c
        BY <2>4, <4>1 DEF HeldFor
      <4>. QED BY <1>3, <4>1, <4>2 DEF HeldFor
    <3>. QED BY <2>1, <3>1, <3>2, <3>3 DEF CleanupOk, SameTokens
  <2>5. CASE d = c
    <3>1. x.todo \subseteq x.closedTokens
      BY <1>3, <2>1, <2>5
    <3>2. \A t \in A \cup N : t \notin r.byToken /\ r.held[t] # Fresh
      <4>. SUFFICES ASSUME NEW t \in A \cup N PROVE t \notin r.byToken /\ r.held[t] # Fresh
        OBVIOUS
      <4>1. t \in Tokens /\ c # Fresh
        BY <1>5, Constants
      <4>. QED BY <1>2, <1>3, <2>1, <2>3, <2>5, <4>1
    <3>3. \A t \in x.todo : HeldFor(r, t, c)
      <4>. SUFFICES ASSUME NEW t \in x.todo PROVE HeldFor(r, t, c)
        OBVIOUS
      <4>1. t \in Tokens /\ HeldFor(s, t, c) /\ ~(~OnStack(s, c) /\ t \in N)
        BY <1>2, <1>3, <1>5, <2>1, <2>5
      <4>. QED BY <1>3, <4>1 DEF HeldFor
    <3>. QED BY <1>3, <2>5, <3>1, <3>2, <3>3 DEF CleanupOk
  <2>. QED BY <2>4, <2>5
<1>. QED BY <1>3, <1>4, <1>6, <1>7, <1>8 DEF TokensOk

(* Grants pass from the hand to the queue of a call, or back: H was in     *)
(* hand, K is.                                                             *)
HandsOver(x, y, H, K) ==
    /\ QueuedGrants(x) \cup K = QueuedGrants(y) \cup H
    /\ K \cap QueuedGrants(x) = {}
    /\ \A z \in x.deliveries :
           /\ z.grants \cap x.completion.grants = {}
           /\ \A w \in x.deliveries : z # w => z.grants \cap w.grants = {}
    /\ x.closedTokens = y.closedTokens /\ x.todo = y.todo
    /\ x.state = "unused" => y.state = "unused"

(* Grants in hand may become an output of their call, and the reverse. *)
LEMMA HandedOver ==
    ASSUME NEW s, NEW r, NEW c \in Calls, NEW H, NEW K, TokensOk(s, c, H),
           SameProvider(r, s), \A d \in Calls : d # c => SameTokens(r.calls[d], s.calls[d]),
           HandsOver(r.calls[c], s.calls[c], H, K)
    PROVE  TokensOk(r, c, K)
<1>1. /\ r.resources = s.resources /\ r.byToken = s.byToken
      /\ r.held = s.held /\ r.strayClose = s.strayClose
  BY DEF SameProvider
<1>2. \A d \in Calls : d # c => QueuedGrants(r.calls[d]) = QueuedGrants(s.calls[d])
  BY SameTokensGrants
<1>3. \A d \in Calls : /\ r.calls[d].todo = s.calls[d].todo
                       /\ r.calls[d].closedTokens = s.calls[d].closedTokens
                       /\ r.calls[d].state = "unused" => s.calls[d].state = "unused"
  BY DEF SameTokens, HandsOver
<1>4. \A d \in Calls : QueuedGrants(r.calls[d]) \cup InHand(d, c, K)
                       = QueuedGrants(s.calls[d]) \cup InHand(d, c, H)
  BY <1>2 DEF HandsOver, InHand
<1>5. ASSUME NEW t \in Tokens PROVE TokenOk(r, t, c, K)
  <2>1. TokenOk(s, t, c, H)
    BY DEF TokensOk
  <2>2. s.resources[t].status = "reserved" => s.resources[t].call \in Calls
    BY <2>1 DEF TokenOk
  <2>. QED BY <1>1, <1>3, <1>4, <2>1, <2>2 DEF TokenOk
<1>6. ASSUME NEW d \in Calls PROVE GrantsOk(r, d, InHand(d, c, K))
  <2>1. GrantsOk(s, d, InHand(d, c, H))
    BY DEF TokensOk
  <2>2. \A t \in QueuedGrants(r.calls[d]) \cup InHand(d, c, K) :
            r.resources[t].call = d /\ r.resources[t].status \in {"reserved", "closed"}
    BY <1>1, <1>4, <2>1 DEF GrantsOk
  <2>3. CASE d # c
    <3>1. SameTokens(r.calls[d], s.calls[d]) /\ InHand(d, c, K) = {}
      BY <2>3 DEF InHand
    <3>. QED BY <2>1, <2>2, <3>1 DEF GrantsOk, SameTokens
  <2>4. CASE d = c
    <3>1. InHand(d, c, K) = K
      BY <2>4 DEF InHand
    <3>. QED BY <2>2, <2>4, <3>1 DEF GrantsOk, HandsOver
  <2>. QED BY <2>3, <2>4
<1>7. ASSUME NEW d \in Calls PROVE CleanupOk(r, d)
  <2>1. CleanupOk(s, d)
    BY DEF TokensOk
  <2>. QED BY <1>1, <1>3, <2>1 DEF CleanupOk, HeldFor
<1>. QED BY <1>1, <1>5, <1>6, <1>7 DEF TokensOk

(* The guest gets the resources that call c had in hand. *)
LEMMA DeliveredTokens ==
    ASSUME NEW s \in Bridges, NEW r \in Bridges, NEW c \in Calls, NEW H \in SUBSET Tokens,
           TokensOk(s, c, H), Deliverable(s, H), NEW b, DeliverEffect(r, s, H, b)
    PROVE  TokensOk(r, c, {})
<1>1. /\ r.calls = s.calls /\ r.byToken = s.byToken
      /\ r.held = s.held /\ r.strayClose = s.strayClose
      /\ \A t \in Tokens :
            /\ r.resources[t].call = s.resources[t].call
            /\ r.resources[t].revokeQueued = s.resources[t].revokeQueued
            /\ r.resources[t].status = IF t \in H THEN "open" ELSE s.resources[t].status
            /\ t \in H => s.resources[t].status = "reserved"
  BY DEF DeliverEffect, SameLoop, Deliverable
<1>2. InHand(c, c, H) = H /\ \A d : InHand(d, c, {}) = {} /\ (d # c => InHand(d, c, H) = {})
  BY DEF InHand
<1>3. \A d \in Calls : QueuedGrants(s.calls[d]) \cap H = {}
  <2>. SUFFICES ASSUME NEW d \in Calls, NEW t \in QueuedGrants(s.calls[d]) \cap H PROVE FALSE
    OBVIOUS
  <2>1. s.resources[t].call = d /\ s.resources[t].call = c
    BY <1>2 DEF TokensOk, GrantsOk
  <2>2. H \cap QueuedGrants(s.calls[c]) = {}
    BY <1>2 DEF TokensOk, GrantsOk
  <2>. QED BY <2>1, <2>2
<1>4. ASSUME NEW t \in Tokens PROVE TokenOk(r, t, c, {})
  <2>1. TokenOk(s, t, c, H)
    BY DEF TokensOk
  <2>2. r.held[t] = Fresh => r.resources[t] = NoResource
    <3>1. CASE t \in H
      <4>1. s.resources[t] # NoResource
        BY <1>1, <3>1 DEF NoResource
      <4>. QED BY <1>1, <2>1, <4>1 DEF TokenOk
    <3>2. CASE t \notin H
      <4>1. r.resources[t] \in ResourceRecords /\ s.resources[t] \in ResourceRecords
        BY DEF Bridges
      <4>2. r.resources[t] = s.resources[t]
        BY <1>1, <3>2, <4>1 DEF ResourceRecords
      <4>. QED BY <1>1, <2>1, <4>2 DEF TokenOk
    <3>. QED BY <3>1, <3>2
  <2>3. r.resources[t].status = "reserved" =>
            t \in QueuedGrants(r.calls[r.resources[t].call]) \cup InHand(r.resources[t].call, c, {})
    BY <1>1, <1>2, <2>1 DEF TokenOk, InHand
  <2>. QED BY <1>1, <2>1, <2>2, <2>3 DEF TokenOk
<1>5. ASSUME NEW d \in Calls PROVE GrantsOk(r, d, InHand(d, c, {}))
  <2>1. GrantsOk(s, d, InHand(d, c, H))
    BY DEF TokensOk
  <2>2. \A t \in QueuedGrants(s.calls[d]) :
            r.resources[t].call = d /\ r.resources[t].status \in {"reserved", "closed"}
    <3>. SUFFICES ASSUME NEW t \in QueuedGrants(s.calls[d])
                  PROVE  r.resources[t].call = d /\ r.resources[t].status \in {"reserved", "closed"}
      OBVIOUS
    <3>1. s.resources[t].call = d /\ s.resources[t].status \in {"reserved", "closed"}
          /\ t \notin H
      BY <1>3, <2>1 DEF GrantsOk
    <3>2. t \in Tokens
      BY GrantsAreTokens
    <3>. QED BY <1>1, <3>1, <3>2
  <2>. QED BY <1>1, <1>2, <2>1, <2>2 DEF GrantsOk
<1>6. ASSUME NEW d \in Calls PROVE CleanupOk(r, d)
  <2>1. CleanupOk(s, d)
    BY DEF TokensOk
  <2>2. \A t \in s.calls[d].todo : HeldFor(r, t, d)
    <3>1. s.calls[d].todo \subseteq Tokens
      BY GrantsAreTokens
    <3>. QED BY <1>1, <2>1, <3>1 DEF CleanupOk, HeldFor
  <2>. QED BY <1>1, <2>1, <2>2 DEF CleanupOk
<1>. QED BY <1>1, <1>4, <1>5, <1>6 DEF TokensOk

(* The provider grants the fresh tokens T to call c, which reserves them.  *)
LEMMA ReservedTokens ==
    ASSUME NEW s \in Bridges, NEW r \in Bridges, NEW c \in Calls, NEW T \in SUBSET Tokens,
           TokensOk(s, c, {}), \A t \in T : s.held[t] = Fresh, NEW b,
           ReserveEffect(r, Grant(s, c, T), c, T, b)
    PROVE  TokensOk(r, c, T)
<1>. DEFINE g == Grant(s, c, T)
<1>1. /\ g.calls = s.calls /\ g.resources = s.resources /\ g.byToken = s.byToken
      /\ g.strayClose = s.strayClose
      /\ \A t \in Tokens : g.held[t] = IF t \in T /\ s.held[t] = Fresh THEN c ELSE s.held[t]
  BY GrantFields DEF SameLoop
<1>2. /\ r.calls = s.calls /\ r.strayClose = s.strayClose /\ r.byToken = s.byToken \cup T
      /\ \A t \in Tokens :
            /\ r.held[t] = IF t \in T THEN c ELSE s.held[t]
            /\ r.resources[t] = IF t \in T THEN Reserved(c) ELSE s.resources[t]
  BY <1>1 DEF ReserveEffect, SameLoop
<1>3. \A t \in T : s.resources[t] = NoResource /\ t \notin s.byToken
  <2>. SUFFICES ASSUME NEW t \in T PROVE s.resources[t] = NoResource /\ t \notin s.byToken
    OBVIOUS
  <2>. QED BY TokenFacts DEF NoResource
<1>4. /\ Reserved(c).status = "reserved" /\ Reserved(c).call = c
      /\ Reserved(c).revokeQueued = FALSE /\ NoResource.call = 0 /\ NoResource.status = "none"
  BY DEF Reserved, NoResource
<1>5. \A d \in Calls : QueuedGrants(s.calls[d]) \cap T = {}
  <2>. SUFFICES ASSUME NEW d \in Calls, NEW t \in QueuedGrants(s.calls[d]) \cap T PROVE FALSE
    OBVIOUS
  <2>1. s.resources[t].call = d
    BY CallFacts
  <2>. QED BY <1>3, <1>4, <2>1 DEF Calls
<1>6. /\ InHand(c, c, T) = T
      /\ \A d : InHand(d, c, {}) = {} /\ (d # c => InHand(d, c, T) = {})
  BY DEF InHand
<1>7. ASSUME NEW t \in Tokens PROVE TokenOk(r, t, c, T)
  <2>1. CASE t \in T
    <3>1. r.held[t] = c /\ r.resources[t] = Reserved(c) /\ t \in r.byToken
      BY <1>2, <2>1
    <3>2. c # Fresh /\ c # Revoked
      BY Constants
    <3>. QED BY <1>4, <1>6, <2>1, <3>1, <3>2 DEF TokenOk
  <2>2. CASE t \notin T
    <3>1. TokenOk(s, t, c, {})
      BY DEF TokensOk
    <3>2. r.held[t] = s.held[t] /\ r.resources[t] = s.resources[t]
          /\ (t \in r.byToken <=> t \in s.byToken)
      BY <1>2, <2>2
    <3>. QED BY <1>2, <1>6, <3>1, <3>2 DEF TokenOk
  <2>. QED BY <2>1, <2>2
<1>8. ASSUME NEW d \in Calls PROVE GrantsOk(r, d, InHand(d, c, T))
  <2>1. GrantsOk(s, d, {})
    BY <1>6 DEF TokensOk
  <2>2. \A t \in QueuedGrants(s.calls[d]) :
            r.resources[t].call = d /\ r.resources[t].status \in {"reserved", "closed"}
    <3>. SUFFICES ASSUME NEW t \in QueuedGrants(s.calls[d])
                  PROVE  r.resources[t].call = d /\ r.resources[t].status \in {"reserved", "closed"}
      OBVIOUS
    <3>1. t \in Tokens /\ t \notin T
      BY <1>5, GrantsAreTokens
    <3>. QED BY <1>2, <2>1, <3>1 DEF GrantsOk
  <2>3. \A t \in InHand(d, c, T) :
            r.resources[t].call = d /\ r.resources[t].status \in {"reserved", "closed"}
    BY <1>2, <1>4, <1>6
  <2>. QED BY <1>2, <1>5, <1>6, <2>1, <2>2, <2>3 DEF GrantsOk
<1>9. ASSUME NEW d \in Calls PROVE CleanupOk(r, d)
  <2>1. /\ s.calls[d].state = "unused" => s.calls[d].closedTokens = {}
        /\ s.calls[d].todo \subseteq s.calls[d].closedTokens
        /\ \A t \in s.calls[d].closedTokens : t \notin s.byToken /\ s.held[t] # Fresh
        /\ \A t \in s.calls[d].todo : HeldFor(s, t, d)
    BY CallFacts
  <2>2. s.calls[d].todo \subseteq Tokens /\ s.calls[d].closedTokens \subseteq Tokens
    BY GrantsAreTokens
  <2>3. \A t \in s.calls[d].closedTokens :
            /\ t \in Tokens /\ t \notin T /\ t \notin r.byToken
            /\ r.held[t] = s.held[t] /\ r.resources[t] = s.resources[t]
    BY <1>2, <2>1, <2>2
  <2>. QED BY <1>2, <2>1, <2>3 DEF CleanupOk, HeldFor
<1>10. ~r.strayClose
  BY <1>2 DEF TokensOk
<1>. QED BY <1>7, <1>8, <1>9, <1>10 DEF TokensOk

(* A resource the guest has open is closed. *)
LEMMA ClosedTokens ==
    ASSUME NEW s \in Bridges, NEW c, NEW t \in Tokens, TokensOk(s, c, {}),
           s.resources[t].status = "open"
    PROVE  s.resources[t].call \in Calls /\ TokensOk(CloseResource(s, t, TRUE), c, {})
<1>. DEFINE r == CloseResource(s, t, TRUE)
            d0 == s.resources[t].call
            R == s.resources[t].revokeQueued
<1>1. /\ t \in s.byToken /\ d0 \in Calls /\ (R \/ s.held[t] = d0) /\ (R => s.held[t] = Revoked)
      /\ s.resources[t] # NoResource
  <2>1. s.resources[t] # NoResource
    BY DEF NoResource
  <2>. QED BY <2>1, TokenFacts
<1>2. HeldFor(s, t, d0) \/ R
  BY <1>1 DEF HeldFor
<1>3. /\ r \in Bridges /\ SameLoop(r, s) /\ r.stack = s.stack
      /\ Leaves(r, s, {t}, 0, 0)
      /\ \A u \in Tokens :
            r.held[u] = IF ~R /\ u = t /\ s.held[u] = d0 THEN Closed ELSE s.held[u]
      /\ HeldFor(s, t, d0) \/ R => r.strayClose = s.strayClose
  BY <1>1, CloseResourceFields
<1>. HIDE DEF r
<1>4. /\ r.calls = s.calls /\ r.strayClose = s.strayClose /\ r.byToken = s.byToken \ {t}
      /\ \A u \in Tokens :
            /\ r.resources[u].call = s.resources[u].call
            /\ r.resources[u].revokeQueued = s.resources[u].revokeQueued
            /\ r.resources[u].status = IF u = t THEN "closed" ELSE s.resources[u].status
            /\ u # t => r.resources[u] = s.resources[u] /\ r.held[u] = s.held[u]
      /\ r.held[t] = IF R THEN Revoked ELSE Closed
  <2>1. \A u \in Tokens : u # t => r.resources[u] = s.resources[u]
    <3>. SUFFICES ASSUME NEW u \in Tokens, u # t PROVE r.resources[u] = s.resources[u]
      OBVIOUS
    <3>1. r.resources[u] \in ResourceRecords /\ s.resources[u] \in ResourceRecords
      BY <1>3 DEF Bridges
    <3>. QED BY <1>3, <3>1 DEF Leaves, ResourceRecords
  <2>. QED BY <1>1, <1>2, <1>3, <2>1 DEF Leaves, SameLoop
<1>5. Closed # Fresh /\ Revoked # Fresh /\ Closed \notin Calls /\ Revoked \notin Calls
      /\ Closed # Revoked
  BY Constants DEF Closed, Fresh, Revoked
<1>6. ASSUME NEW u \in Tokens PROVE TokenOk(r, u, c, {})
  <2>1. TokenOk(s, u, c, {})
    BY DEF TokensOk
  <2>2. CASE u = t
    BY <1>1, <1>4, <1>5, <2>1, <2>2 DEF TokenOk
  <2>3. CASE u # t
    BY <1>4, <2>1, <2>3 DEF TokenOk
  <2>. QED BY <2>2, <2>3
<1>7. ASSUME NEW d \in Calls PROVE GrantsOk(r, d, InHand(d, c, {}))
  <2>1. GrantsOk(s, d, {}) /\ InHand(d, c, {}) = {}
    BY DEF TokensOk, InHand
  <2>2. QueuedGrants(s.calls[d]) \subseteq Tokens
    BY GrantsAreTokens
  <2>. QED BY <1>4, <2>1, <2>2 DEF GrantsOk
<1>8. ASSUME NEW d \in Calls PROVE CleanupOk(r, d)
  <2>1. CleanupOk(s, d)
    BY DEF TokensOk
  <2>2. s.calls[d].closedTokens \subseteq Tokens /\ t \notin s.calls[d].closedTokens
    BY <1>1, <2>1, GrantsAreTokens DEF CleanupOk
  <2>. QED BY <1>4, <2>1, <2>2 DEF CleanupOk, HeldFor
<1>9. TokensOk(r, c, {})
  BY <1>4, <1>6, <1>7, <1>8 DEF TokensOk
<1>. QED BY <1>1, <1>9 DEF r

(* The provider takes the resource of a token back: a token that the       *)
(* bridge still has gets a revocation queued.                              *)
LEMMA RevokedTokens ==
    ASSUME NEW s \in Bridges, NEW r \in Bridges, NEW c \in Calls, NEW e, NEW t \in Tokens,
           TokensOk(s, e, {}), s.held[t] = c,
           LET queued == t \in s.byToken /\ s.resources[t].call = c
                         /\ ~s.resources[t].revokeQueued
           IN RevokeEffect(r, s, c, t, queued)
    PROVE  TokensOk(r, e, {})
<1>. DEFINE queued == t \in s.byToken /\ s.resources[t].call = c /\ ~s.resources[t].revokeQueued
<1>0. c # Revoked /\ c # Fresh /\ Revoked # Fresh /\ Revoked \notin Calls
  BY Constants DEF Revoked, Fresh
<1>1. queued <=> t \in s.byToken
  BY <1>0, TokenFacts
<1>2. ~s.resources[t].revokeQueued
  BY <1>0, TokenFacts
<1>3. /\ r.calls = s.calls /\ r.strayClose = s.strayClose /\ r.byToken = s.byToken
      /\ \A u \in Tokens :
            /\ r.held[u] = IF u = t THEN Revoked ELSE s.held[u]
            /\ r.resources[u].call = s.resources[u].call
            /\ r.resources[u].status = s.resources[u].status
            /\ r.resources[u].revokeQueued =
                  IF u = t /\ t \in s.byToken THEN TRUE ELSE s.resources[u].revokeQueued
            /\ u # t => r.resources[u] = s.resources[u]
  BY <1>1 DEF RevokeEffect
<1>4. ASSUME NEW u \in Tokens PROVE TokenOk(r, u, e, {})
  <2>1. TokenOk(s, u, e, {})
    BY DEF TokensOk
  <2>2. CASE u = t
    BY <1>0, <1>2, <1>3, <2>1, <2>2 DEF TokenOk
  <2>3. CASE u # t
    BY <1>3, <2>1, <2>3 DEF TokenOk
  <2>. QED BY <2>2, <2>3
<1>5. ASSUME NEW d \in Calls PROVE GrantsOk(r, d, InHand(d, e, {}))
  <2>1. GrantsOk(s, d, {}) /\ InHand(d, e, {}) = {}
    BY DEF TokensOk, InHand
  <2>2. QueuedGrants(s.calls[d]) \subseteq Tokens
    BY GrantsAreTokens
  <2>. QED BY <1>3, <2>1, <2>2 DEF GrantsOk
<1>6. ASSUME NEW d \in Calls PROVE CleanupOk(r, d)
  <2>1. CleanupOk(s, d)
    BY DEF TokensOk
  <2>2. s.calls[d].closedTokens \subseteq Tokens
    BY GrantsAreTokens
  <2>3. \A u \in s.calls[d].todo : HeldFor(r, u, d)
    <3>. SUFFICES ASSUME NEW u \in s.calls[d].todo PROVE HeldFor(r, u, d)
      OBVIOUS
    <3>1. u \in Tokens /\ u \notin s.byToken /\ HeldFor(s, u, d)
      BY <2>1, <2>2 DEF CleanupOk
    <3>. QED BY <1>2, <1>3, <3>1 DEF HeldFor
  <2>4. \A u \in s.calls[d].closedTokens : r.held[u] # Fresh
    <3>. SUFFICES ASSUME NEW u \in s.calls[d].closedTokens PROVE r.held[u] # Fresh
      OBVIOUS
    <3>1. u \in Tokens /\ s.held[u] # Fresh
      BY <2>1, <2>2 DEF CleanupOk
    <3>2. r.held[u] = IF u = t THEN Revoked ELSE s.held[u]
      BY <1>3, <3>1
    <3>. QED BY <1>0, <3>1, <3>2
  <2>. QED BY <1>3, <2>1, <2>3, <2>4 DEF CleanupOk
<1>. QED BY <1>3, <1>4, <1>5, <1>6 DEF TokensOk

(* The next token of a cleanup is closed. *)
LEMMA CleanedTokens ==
    ASSUME NEW s \in Bridges, NEW c \in Calls, NEW e, NEW t \in s.calls[c].todo,
           TokensOk(s, e, {})
    PROVE  TokensOk(AfterClose(s, c, t), e, {})
<1>. DEFINE r == AfterClose(s, c, t)
            y == s.calls[c]
<1>1. t \in Tokens /\ HeldFor(s, t, c) /\ t \notin s.byToken
  <2>1. /\ y.todo \subseteq y.closedTokens /\ y.closedTokens \subseteq Tokens
        /\ \A u \in y.closedTokens : u \notin s.byToken
        /\ \A u \in y.todo : HeldFor(s, u, c)
    BY CallFacts, GrantsAreTokens
  <2>. QED BY <2>1
<1>2. /\ r \in Bridges
      /\ r.resources = s.resources /\ r.byToken = s.byToken
      /\ SameCalls(r, s, c) /\ SameCore(r.calls[c], s.calls[c])
      /\ r.calls[c].todo = s.calls[c].todo \ {t}
      /\ r.calls[c].closedTokens = s.calls[c].closedTokens
      /\ \A u \in Tokens :
            r.held[u] = IF u = t /\ s.held[u] = c THEN Closed ELSE s.held[u]
      /\ HeldFor(s, t, c) => r.strayClose = s.strayClose
  BY <1>1, CloseNextFields
<1>. HIDE DEF r
<1>3. \A d \in Calls : /\ r.calls[d].completion = s.calls[d].completion
                       /\ r.calls[d].deliveries = s.calls[d].deliveries
                       /\ r.calls[d].state = s.calls[d].state
                       /\ r.calls[d].closedTokens = s.calls[d].closedTokens
                       /\ r.calls[d].todo = IF d = c THEN s.calls[d].todo \ {t}
                                            ELSE s.calls[d].todo
                       /\ QueuedGrants(r.calls[d]) = QueuedGrants(s.calls[d])
  BY <1>2 DEF SameCalls, SameCore, QueuedGrants
<1>4. Closed # Fresh /\ Closed # Revoked /\ Closed \notin Calls /\ c # Revoked /\ Revoked \notin Calls
      /\ Revoked # Fresh
  BY Constants DEF Closed, Fresh, Revoked
<1>5. ASSUME NEW u \in Tokens PROVE TokenOk(r, u, e, {})
  <2>1. TokenOk(s, u, e, {})
    BY DEF TokensOk
  <2>2. CASE u = t
    <3>1. r.held[t] = Closed \/ (r.held[t] = Revoked /\ s.held[t] = Revoked)
      BY <1>1, <1>2 DEF HeldFor
    <3>2. r.held[t] \notin Calls /\ r.held[t] # Fresh
      BY <1>4, <3>1
    <3>3. s.resources[t].revokeQueued => r.held[t] = Revoked
      BY <1>2, <1>4, <2>1, <2>2 DEF TokenOk
    <3>4. s.resources[t].status # "reserved"
      BY <1>1, <2>1, <2>2 DEF TokenOk
    <3>. QED BY <1>1, <1>2, <2>1, <2>2, <3>2, <3>3, <3>4 DEF TokenOk
  <2>3. CASE u # t
    <3>1. r.held[u] = s.held[u] /\ r.resources = s.resources /\ r.byToken = s.byToken
      BY <1>2, <2>3
    <3>2. s.held[u] \in Calls =>
              /\ r.calls[s.held[u]].closedTokens = s.calls[s.held[u]].closedTokens
              /\ u \in s.calls[s.held[u]].todo => u \in r.calls[s.held[u]].todo
      BY <1>3, <2>3
    <3>3. s.resources[u].status = "reserved" =>
              QueuedGrants(r.calls[s.resources[u].call]) = QueuedGrants(s.calls[s.resources[u].call])
      BY <1>3, <2>1 DEF TokenOk
    <3>. QED BY <2>1, <3>1, <3>2, <3>3 DEF TokenOk
  <2>. QED BY <2>2, <2>3
<1>6. ASSUME NEW d \in Calls PROVE GrantsOk(r, d, InHand(d, e, {}))
  <2>1. GrantsOk(s, d, InHand(d, e, {}))
    BY DEF TokensOk
  <2>. QED BY <1>2, <1>3, <2>1 DEF GrantsOk
<1>7. ASSUME NEW d \in Calls PROVE CleanupOk(r, d)
  <2>1. /\ s.calls[d].state = "unused" => s.calls[d].closedTokens = {}
        /\ s.calls[d].todo \subseteq s.calls[d].closedTokens
        /\ s.calls[d].closedTokens \subseteq Tokens
        /\ \A u \in s.calls[d].closedTokens : u \notin s.byToken /\ s.held[u] # Fresh
        /\ \A u \in s.calls[d].todo : HeldFor(s, u, d)
    BY CallFacts, GrantsAreTokens
  <2>2. \A u \in s.calls[d].closedTokens : r.held[u] # Fresh
    <3>. SUFFICES ASSUME NEW u \in s.calls[d].closedTokens PROVE r.held[u] # Fresh
      OBVIOUS
    <3>1. u \in Tokens /\ s.held[u] # Fresh
      BY <2>1
    <3>2. r.held[u] = Closed \/ r.held[u] = s.held[u]
      BY <1>2, <3>1
    <3>. QED BY <1>4, <3>1, <3>2
  <2>3. \A u \in r.calls[d].todo : HeldFor(r, u, d)
    <3>. SUFFICES ASSUME NEW u \in r.calls[d].todo PROVE HeldFor(r, u, d)
      OBVIOUS
    <3>1. u \in s.calls[d].todo /\ u \in Tokens /\ HeldFor(s, u, d)
      BY <1>3, <2>1
    <3>2. u = t => s.held[u] # c \/ d # c
      BY <1>3
    <3>3. d # Revoked
      BY Constants
    <3>4. r.held[u] = s.held[u]
      <4>1. CASE u = t /\ s.held[u] = c
        <5>1. d # c
          BY <3>2, <4>1
        <5>. QED BY <1>4, <3>1, <4>1, <5>1 DEF HeldFor
      <4>2. CASE ~(u = t /\ s.held[u] = c)
        BY <1>2, <3>1, <4>2
      <4>. QED BY <4>1, <4>2
    <3>. QED BY <1>2, <3>1, <3>4 DEF HeldFor
  <2>. QED BY <1>2, <1>3, <2>1, <2>2, <2>3 DEF CleanupOk
<1>8. ~r.strayClose
  BY <1>1, <1>2 DEF TokensOk
<1>9. TokensOk(r, e, {})
  BY <1>5, <1>6, <1>7, <1>8 DEF TokensOk
<1>. QED BY <1>9 DEF r

(* A revocation takes effect on a token the bridge still has. *)
LEMMA DroppedTokens ==
    ASSUME NEW s \in Bridges, NEW c, NEW t \in Tokens, TokensOk(s, c, {}),
           s.held[t] = Revoked
    PROVE  TokensOk(Drop(s, {t}, "closed"), c, {})
<1>. DEFINE r == Drop(s, {t}, "closed")
<1>1. /\ r \in Bridges
      /\ r.calls = s.calls /\ r.held = s.held /\ r.strayClose = s.strayClose
      /\ r.byToken = s.byToken \ {t}
      /\ \A u \in Tokens :
            /\ r.resources[u].call = s.resources[u].call
            /\ r.resources[u].revokeQueued = s.resources[u].revokeQueued
            /\ r.resources[u].status = IF u \in {t} THEN "closed" ELSE s.resources[u].status
  <2>1. {t} \in SUBSET Tokens
    OBVIOUS
  <2>. QED BY <2>1, DropFields
<1>. HIDE DEF r
<1>2. \A u \in Tokens : u # t => r.resources[u] = s.resources[u]
  <2>. SUFFICES ASSUME NEW u \in Tokens, u # t PROVE r.resources[u] = s.resources[u]
    OBVIOUS
  <2>1. r.resources[u] \in ResourceRecords /\ s.resources[u] \in ResourceRecords
    BY <1>1 DEF Bridges
  <2>. QED BY <1>1, <2>1 DEF ResourceRecords
<1>3. Revoked # Fresh /\ Revoked \notin Calls
  BY Constants DEF Fresh, Revoked
<1>4. ASSUME NEW u \in Tokens PROVE TokenOk(r, u, c, {})
  <2>1. TokenOk(s, u, c, {})
    BY DEF TokensOk
  <2>2. CASE u = t
    BY <1>1, <1>3, <2>1, <2>2 DEF TokenOk
  <2>3. CASE u # t
    BY <1>1, <1>2, <2>1, <2>3 DEF TokenOk
  <2>. QED BY <2>2, <2>3
<1>5. ASSUME NEW d \in Calls PROVE GrantsOk(r, d, InHand(d, c, {}))
  <2>1. GrantsOk(s, d, {}) /\ InHand(d, c, {}) = {}
    BY DEF TokensOk, InHand
  <2>2. QueuedGrants(s.calls[d]) \subseteq Tokens
    BY GrantsAreTokens
  <2>. QED BY <1>1, <2>1, <2>2 DEF GrantsOk
<1>6. ASSUME NEW d \in Calls PROVE CleanupOk(r, d)
  <2>1. CleanupOk(s, d)
    BY DEF TokensOk
  <2>2. s.calls[d].closedTokens \subseteq Tokens
    BY GrantsAreTokens
  <2>. QED BY <1>1, <2>1, <2>2 DEF CleanupOk, HeldFor
<1>7. TokensOk(r, c, {})
  BY <1>1, <1>4, <1>5, <1>6 DEF TokensOk
<1>. QED BY <1>7 DEF r

(* The provider's tokens once it granted T to call c *)
GrantedFrom(q, s, c, T) ==
    /\ q.resources = s.resources /\ q.byToken = s.byToken /\ q.strayClose = s.strayClose
    /\ \A t \in Tokens : q.held[t] = IF t \in T /\ s.held[t] = Fresh THEN c ELSE s.held[t]
    /\ \A d \in Calls : SameTokens(q.calls[d], s.calls[d])

(* What an event lists: fresh tokens, tokens in use, or tokens whose close *)
(* is under way.                                                           *)
ListedFor(s, c, T) ==
    \A t \in T : \/ s.held[t] = Fresh
                 \/ t \in s.byToken /\ s.held[t] \in Calls
                 \/ t \in s.calls[c].closedTokens

(* The tokens of such a list that call c gives up *)
WithdrawalOk(q, s, c, M, N) ==
    /\ \A t \in M : /\ t \in Tokens /\ t \notin q.calls[c].closedTokens => q.held[t] = c
                    /\ t \in q.byToken => q.resources[t].call = c
                    /\ t \in N \/ t \in q.calls[c].closedTokens
                       \/ Cardinality(q.calls[c].closedTokens \cup N) >= HardCap
    /\ N \subseteq M /\ \A t \in N : q.held[t] = c
    /\ \A t \in Tokens : s.held[t] = Fresh /\ q.held[t] # Fresh => t \in M

(* Of the tokens an event lists, the bridge closes those that this call    *)
(* may close.                                                              *)
LEMMA WithdrawalFacts ==
    ASSUME NEW s \in Bridges, NEW q \in Bridges, NEW c \in Calls, NEW T \in SUBSET Tokens,
           TokensOk(s, c, {}), GrantedFrom(q, s, c, T), ListedFor(s, c, T)
    PROVE  WithdrawalOk(q, s, c, Mine(q, c, T), New(q, c, T))
<1>. DEFINE M == Mine(q, c, T)
            A == q.calls[c].closedTokens
            N == New(q, c, T)
<1>1. /\ q.resources = s.resources /\ q.byToken = s.byToken
      /\ A = s.calls[c].closedTokens /\ A \in SUBSET Tokens
      /\ \A t \in Tokens : q.held[t] = IF t \in T /\ s.held[t] = Fresh THEN c ELSE s.held[t]
  BY GrantsAreTokens DEF GrantedFrom, SameTokens
<1>2. M \in SUBSET Tokens /\ \A t \in M : t \in T /\ (t \in q.byToken => q.resources[t].call = c)
  BY DEF Mine
<1>3. Revoked \notin Calls
  BY Constants
<1>4. \A t \in M : t \notin A => q.held[t] = c
  <2>. SUFFICES ASSUME NEW t \in M, t \notin A PROVE q.held[t] = c
    OBVIOUS
  <2>1. t \in Tokens /\ t \in T /\ (t \in s.byToken => s.resources[t].call = c)
    BY <1>1, <1>2
  <2>2. CASE s.held[t] = Fresh
    BY <1>1, <2>1, <2>2
  <2>3. CASE t \in s.byToken /\ s.held[t] \in Calls
    <3>1. s.held[t] = c
      BY <1>3, <2>1, <2>3, TokenFacts
    <3>2. c # Fresh
      BY Constants
    <3>. QED BY <1>1, <2>1, <3>1, <3>2
  <2>. QED BY <1>1, <2>1, <2>2, <2>3 DEF ListedFor
<1>5. N = Admitted(A, M)
  BY DEF New
<1>6. N \subseteq M \ A /\ \A t \in M \ A : t \notin N => Cardinality(A \cup N) >= HardCap
  <2>. HIDE DEF M, A, N
  <2>1. /\ Admitted(A, M) \subseteq M \ A
        /\ \A t \in M \ A : t \notin Admitted(A, M) => Cardinality(A \cup Admitted(A, M)) >= HardCap
    BY <1>1, <1>2, AdmittedFacts
  <2>. QED BY <1>5, <2>1
<1>7. \A t \in Tokens : s.held[t] = Fresh /\ q.held[t] # Fresh => t \in M
  <2>. SUFFICES ASSUME NEW t \in Tokens, s.held[t] = Fresh, q.held[t] # Fresh PROVE t \in M
    OBVIOUS
  <2>1. t \in T /\ t \notin q.byToken
    BY <1>1, TokenFacts DEF NoResource
  <2>. QED BY <2>1 DEF Mine
<1>. HIDE DEF M, N
<1>. QED BY <1>2, <1>4, <1>6, <1>7 DEF WithdrawalOk, M, N

(* Closing them during the cleanup of the call keeps the token invariant. *)
LEMMA WithdrawnTokens ==
    ASSUME NEW s \in Bridges, NEW q \in Bridges, NEW c \in Calls, NEW T \in SUBSET Tokens,
           TokensOk(s, c, {}), GrantedFrom(q, s, c, T), ListedFor(s, c, T),
           OnStack(q, c), q.calls[c].state # "unused"
    PROVE  TokensOk(CloseUndeliveredGrants(q, c, T), c, {})
<1>. DEFINE r == CloseUndeliveredGrants(q, c, T)
            M == Mine(q, c, T)
            N == New(q, c, T)
            y == q.calls[c]
            A == y.closedTokens
<1>1. WithdrawalOk(q, s, c, M, N)
  BY WithdrawalFacts
<1>2. /\ r \in Bridges
      /\ Leaves(r, q, M \cap q.byToken, 0, 0)
      /\ ClosesUp(r, q, c, N)
  BY CloseUndeliveredFields
<1>. HIDE DEF r, M, N
<1>3. /\ q.resources = s.resources /\ q.byToken = s.byToken /\ q.strayClose = s.strayClose
      /\ \A t \in Tokens : s.held[t] # Fresh => q.held[t] = s.held[t]
      /\ \A t \in Tokens : q.held[t] # s.held[t] => s.held[t] = Fresh /\ q.held[t] = c
      /\ \A d \in Calls : SameTokens(q.calls[d], s.calls[d])
  BY DEF GrantedFrom
<1>4. \A t \in N : HeldFor(q, t, c)
  BY <1>1 DEF WithdrawalOk, HeldFor
<1>5. /\ r.byToken = q.byToken \ M /\ r.held = q.held /\ r.strayClose = q.strayClose
      /\ \A t \in Tokens :
            /\ r.resources[t].call = q.resources[t].call
            /\ r.resources[t].revokeQueued = q.resources[t].revokeQueued
            /\ r.resources[t].status = IF t \in M /\ t \in q.byToken THEN "closed"
                                       ELSE q.resources[t].status
      /\ \A d \in Calls : SameCore(r.calls[d], q.calls[d])
      /\ \A d \in Calls : d # c => r.calls[d] = q.calls[d]
      /\ r.calls[c].closedTokens = A \cup N
      /\ r.calls[c].todo = y.todo \cup N
  <2>1. r.held = q.held
    <3>1. r.held \in [Tokens -> -2..MaxCalls] /\ q.held \in [Tokens -> -2..MaxCalls]
      BY <1>2 DEF Bridges
    <3>2. \A t \in Tokens : r.held[t] = q.held[t]
      BY <1>2 DEF ClosesUp
    <3>. QED BY <3>1, <3>2
  <2>2. r.byToken = q.byToken \ M
    BY <1>2 DEF Leaves
  <2>. QED BY <1>2, <1>4, <2>1, <2>2 DEF ClosesUp, Leaves
<1>6. c # Fresh /\ c # Revoked
  BY Constants
<1>7. \A t \in Tokens : t \notin M \/ t \notin q.byToken => r.resources[t] = q.resources[t]
  <2>. SUFFICES ASSUME NEW t \in Tokens, t \notin M \/ t \notin q.byToken
                PROVE  r.resources[t] = q.resources[t]
    OBVIOUS
  <2>1. r.resources[t] \in ResourceRecords /\ q.resources[t] \in ResourceRecords
    BY <1>2 DEF Bridges
  <2>. QED BY <1>5, <2>1 DEF ResourceRecords
<1>8. A \in SUBSET Tokens /\ N \in SUBSET Tokens /\ A \cup N \in SUBSET Tokens
  <2>1. A \in SUBSET Tokens /\ r.calls[c].closedTokens \in SUBSET Tokens
    BY <1>2, GrantsAreTokens
  <2>. QED BY <1>5, <2>1
<1>9. \A d \in Calls : QueuedGrants(r.calls[d]) = QueuedGrants(s.calls[d])
  <2>1. \A d \in Calls : QueuedGrants(r.calls[d]) = QueuedGrants(q.calls[d])
    BY <1>5 DEF SameCore, QueuedGrants
  <2>. QED BY <1>3, <2>1, SameTokensGrants
<1>10. ASSUME NEW t \in Tokens PROVE TokenOk(r, t, c, {})
  <2>1. TokenOk(s, t, c, {})
    BY DEF TokensOk
  <2>2. r.held[t] = Fresh => r.resources[t] = NoResource
    <3>. SUFFICES ASSUME r.held[t] = Fresh PROVE r.resources[t] = NoResource
      OBVIOUS
    <3>1. s.held[t] = Fresh /\ q.resources[t] = NoResource
      BY <1>3, <1>5, <1>6, <2>1 DEF TokenOk
    <3>2. t \notin q.byToken
      BY <1>3, <2>1, <3>1 DEF TokenOk, NoResource
    <3>. QED BY <1>7, <3>1, <3>2
  <2>3. r.resources[t].revokeQueued => r.held[t] = Revoked
    <3>1. Revoked # Fresh
      BY DEF Revoked, Fresh
    <3>. QED BY <1>3, <1>5, <2>1, <3>1 DEF TokenOk
  <2>4. t \in r.byToken <=> r.resources[t].status \in {"reserved", "open"}
    BY <1>3, <1>5, <2>1 DEF TokenOk
  <2>5. t \in r.byToken => /\ r.resources[t].call \in Calls
                           /\ r.resources[t].revokeQueued \/ r.held[t] = r.resources[t].call
    <3>1. t \in s.byToken => s.held[t] # Fresh
      BY <2>1 DEF TokenOk, NoResource
    <3>. QED BY <1>3, <1>5, <2>1, <3>1 DEF TokenOk
  <2>6. r.held[t] \in Calls =>
            \/ t \in r.byToken
            \/ t \in r.calls[r.held[t]].todo
            \/ Cardinality(r.calls[r.held[t]].closedTokens) >= HardCap
    <3>. SUFFICES ASSUME r.held[t] \in Calls, t \notin r.byToken
                  PROVE  \/ t \in r.calls[r.held[t]].todo
                         \/ Cardinality(r.calls[r.held[t]].closedTokens) >= HardCap
      OBVIOUS
    <3>. DEFINE e == r.held[t]
    <3>1. e = q.held[t]
      BY <1>5
    <3>2. CASE e # c
      <4>1. s.held[t] = e
        BY <1>3, <3>1, <3>2
      <4>2. t \notin q.byToken
        <5>. SUFFICES ASSUME t \in q.byToken PROVE FALSE
          OBVIOUS
        <5>1. t \in M
          BY <1>5
        <5>2. q.resources[t].call = c
          BY <1>1, <5>1 DEF WithdrawalOk
        <5>3. s.resources[t].revokeQueued
          BY <1>3, <2>1, <3>2, <4>1, <5>2 DEF TokenOk
        <5>4. Revoked \notin Calls
          BY Constants
        <5>. QED BY <2>1, <4>1, <5>3, <5>4 DEF TokenOk
      <4>3. t \in s.calls[e].todo \/ Cardinality(s.calls[e].closedTokens) >= HardCap
        BY <1>3, <2>1, <4>1, <4>2 DEF TokenOk
      <4>4. SameTokens(r.calls[e], s.calls[e])
        BY <1>3, <1>5, <3>2
      <4>. QED BY <4>3, <4>4 DEF SameTokens
    <3>3. CASE e = c
      <4>1. CASE t \in M /\ t \notin A
        BY <1>1, <1>5, <3>3, <4>1 DEF WithdrawalOk
      <4>2. CASE ~(t \in M /\ t \notin A)
        <5>1. s.held[t] = c /\ t \notin s.byToken
          <6>1. s.held[t] # Fresh
            <7>. SUFFICES ASSUME s.held[t] = Fresh PROVE FALSE
              OBVIOUS
            <7>1. t \in M
              BY <1>1, <1>6, <3>1, <3>3 DEF WithdrawalOk
            <7>2. t \in s.calls[c].closedTokens
              BY <1>3, <4>2, <7>1 DEF SameTokens
            <7>. QED BY <7>2, CallFacts
          <6>2. s.held[t] = c
            BY <1>3, <3>1, <3>3, <6>1
          <6>3. t \notin s.byToken
            <7>. SUFFICES ASSUME t \in s.byToken PROVE FALSE
              OBVIOUS
            <7>1. t \in M
              BY <1>3, <1>5
            <7>2. t \in s.calls[c].closedTokens
              BY <1>3, <4>2, <7>1 DEF SameTokens
            <7>. QED BY <7>2, CallFacts
          <6>. QED BY <6>2, <6>3
        <5>2. t \in s.calls[c].todo \/ Cardinality(s.calls[c].closedTokens) >= HardCap
          BY <2>1, <5>1 DEF TokenOk
        <5>3. Cardinality(A) >= HardCap => Cardinality(A \cup N) >= HardCap
          BY <1>8, CapKept
        <5>4. A = s.calls[c].closedTokens /\ y.todo = s.calls[c].todo
          BY <1>3 DEF SameTokens
        <5>. QED BY <1>5, <3>3, <5>2, <5>3, <5>4
      <4>. QED BY <4>1, <4>2
    <3>. QED BY <3>2, <3>3
  <2>7. r.resources[t].status = "reserved" =>
            t \in QueuedGrants(r.calls[r.resources[t].call])
                  \cup InHand(r.resources[t].call, c, {})
    <3>1. r.resources[t].status = "reserved" =>
              s.resources[t].status = "reserved" /\ r.resources[t].call = s.resources[t].call
              /\ s.resources[t].call \in Calls
      BY <1>3, <1>5, <2>1 DEF TokenOk
    <3>. QED BY <1>9, <2>1, <3>1 DEF TokenOk
  <2>. QED BY <2>2, <2>3, <2>4, <2>5, <2>6, <2>7 DEF TokenOk
<1>11. ASSUME NEW d \in Calls PROVE GrantsOk(r, d, InHand(d, c, {}))
  <2>1. GrantsOk(s, d, InHand(d, c, {})) /\ InHand(d, c, {}) = {}
    BY DEF TokensOk, InHand
  <2>2. QueuedGrants(s.calls[d]) \subseteq Tokens
    BY GrantsAreTokens
  <2>3. \A t \in QueuedGrants(s.calls[d]) :
            r.resources[t].call = d /\ r.resources[t].status \in {"reserved", "closed"}
    BY <1>3, <1>5, <2>1, <2>2 DEF GrantsOk
  <2>4. r.calls[d].deliveries = s.calls[d].deliveries
        /\ r.calls[d].completion.grants = s.calls[d].completion.grants
    BY <1>3, <1>5 DEF SameCore, SameTokens
  <2>. QED BY <1>9, <2>1, <2>3, <2>4 DEF GrantsOk
<1>12. ASSUME NEW d \in Calls PROVE CleanupOk(r, d)
  <2>1. /\ s.calls[d].state = "unused" => s.calls[d].closedTokens = {}
        /\ s.calls[d].todo \subseteq s.calls[d].closedTokens
        /\ s.calls[d].closedTokens \subseteq Tokens
        /\ \A t \in s.calls[d].closedTokens : t \notin s.byToken /\ s.held[t] # Fresh
        /\ \A t \in s.calls[d].todo : HeldFor(s, t, d)
    BY CallFacts, GrantsAreTokens
  <2>2. SameTokens(q.calls[d], s.calls[d]) /\ SameCore(r.calls[d], q.calls[d])
    BY <1>3, <1>5
  <2>3. \A t \in s.calls[d].closedTokens : t \notin r.byToken /\ r.held[t] # Fresh
    BY <1>3, <1>5, <2>1
  <2>4. \A t \in s.calls[d].todo : HeldFor(r, t, d)
    <3>. SUFFICES ASSUME NEW t \in s.calls[d].todo PROVE HeldFor(r, t, d)
      OBVIOUS
    <3>1. t \in Tokens /\ s.held[t] # Fresh /\ HeldFor(s, t, d)
      BY <2>1
    <3>. QED BY <1>3, <1>5, <3>1 DEF HeldFor
  <2>5. CASE d # c
    <3>1. r.calls[d] = q.calls[d]
      BY <1>5, <2>5
    <3>. QED BY <2>1, <2>2, <2>3, <2>4, <3>1 DEF CleanupOk, SameTokens
  <2>6. CASE d = c
    <3>1. \A t \in N : t \in M /\ t \in Tokens /\ q.held[t] = c
      BY <1>1, <1>8 DEF WithdrawalOk
    <3>2. \A t \in N : t \notin r.byToken /\ r.held[t] # Fresh /\ HeldFor(r, t, c)
      BY <1>5, <1>6, <3>1 DEF HeldFor
    <3>3. r.calls[c].state # "unused" /\ A = s.calls[c].closedTokens /\ y.todo = s.calls[c].todo
      BY <2>2, <2>6 DEF SameCore, SameTokens
    <3>. QED BY <1>5, <2>1, <2>3, <2>4, <2>6, <3>2, <3>3 DEF CleanupOk
  <2>. QED BY <2>5, <2>6
<1>13. ~r.strayClose
  BY <1>3, <1>5 DEF TokensOk
<1>14. TokensOk(r, c, {})
  BY <1>10, <1>11, <1>12, <1>13 DEF TokensOk
<1>. QED BY <1>14 DEF r

-----------------------------------------------------------------------------
(* The tokens after each method                                            *)

(* With nothing in hand it does not matter whose hand it is. *)
LEMMA EmptyHand ==
    ASSUME NEW s, NEW c, NEW e, TokensOk(s, c, {})
    PROVE  TokensOk(s, e, {})
<1>1. \A d : InHand(d, c, {}) = {} /\ InHand(d, e, {}) = {}
  BY DEF InHand
<1>2. \A t \in Tokens : TokenOk(s, t, e, {})
  <2>. SUFFICES ASSUME NEW t \in Tokens PROVE TokenOk(s, t, e, {})
    OBVIOUS
  <2>1. TokenOk(s, t, c, {})
    BY DEF TokensOk
  <2>. QED BY <1>1, <2>1 DEF TokenOk
<1>. QED BY <1>1, <1>2 DEF TokensOk

(* Methods that leave the tokens of one call and of the others alone *)
LEMMA OneCallTokens ==
    ASSUME NEW s, NEW r, NEW c, NEW e, NEW H, TokensOk(s, e, H), SameProvider(r, s),
           SameCalls(r, s, c), SameTokens(r.calls[c], s.calls[c])
    PROVE  TokensOk(r, e, H)
<1>1. \A d \in Calls : SameTokens(r.calls[d], s.calls[d])
  BY SameTokensRefl DEF SameCalls
<1>. QED BY <1>1, TokensSame

(* CancelProvider touches no token, *)
LEMMA CancelTokens ==
    ASSUME NEW s \in Bridges, NEW c \in Calls, NEW e, NEW H, TokensOk(s, e, H)
    PROVE  TokensOk(CancelProvider(s, c), e, H)
<1>. DEFINE r == CancelProvider(s, c)
            x == CancelledCall(s.calls[c])
<1>1. SameProvider(r, s) /\ SameCalls(r, s, c) /\ r.calls[c] = x
  BY CancelFields
<1>2. x.completion = s.calls[c].completion /\ x.deliveries = s.calls[c].deliveries
      /\ x.state = s.calls[c].state /\ x.closedTokens = s.calls[c].closedTokens
      /\ x.todo = s.calls[c].todo
  BY CallOfBridge, VariantFields
<1>. HIDE DEF r, x
<1>3. TokensOk(r, e, H)
  BY <1>1, <1>2, OneCallTokens DEF SameTokens
<1>. QED BY <1>3 DEF r

(* nor does ScheduleTerminal, *)
LEMMA ScheduleTokens ==
    ASSUME NEW s \in Bridges, NEW c \in Calls, NEW e, NEW H, TokensOk(s, e, H)
    PROVE  TokensOk(ScheduleTerminal(s, c), e, H)
<1>. DEFINE r == ScheduleTerminal(s, c)
            x == ScheduledCall(s.calls[c])
<1>1. /\ SameProvider(r, s) /\ SameCalls(r, s, c)
      /\ r.calls[c] = x \/ r.calls[c] = s.calls[c]
  BY ScheduleFields
<1>2. x.completion = s.calls[c].completion /\ x.deliveries = s.calls[c].deliveries
      /\ x.state = s.calls[c].state /\ x.closedTokens = s.calls[c].closedTokens
      /\ x.todo = s.calls[c].todo
  BY CallOfBridge, VariantFields
<1>. HIDE DEF r, x
<1>3. TokensOk(r, e, H)
  BY <1>1, <1>2, OneCallTokens DEF SameTokens
<1>. QED BY <1>3 DEF r

(* The grants of a completion go from the hand into the queue. *)
LEMMA LockTokens ==
    ASSUME NEW s \in Bridges, NEW c \in Calls, NEW completion \in Completions,
           s.calls[c].completion = NoCompletion,
           TokensOk(s, c, completion.grants)
    PROVE  TokensOk(LockTerminal(s, c, completion), c, {})
<1>. DEFINE r == LockTerminal(s, c, completion)
            y == s.calls[c]
            x == LockedCall(y, completion)
            T == completion.grants
<1>1. SameProvider(r, s) /\ SameCalls(r, s, c) /\ r.calls[c] = x
  BY LockFields
<1>2. /\ x.completion = completion /\ x.deliveries = y.deliveries
      /\ x.state = y.state /\ x.closedTokens = y.closedTokens /\ x.todo = y.todo
  BY CallOfBridge, VariantFields
<1>. HIDE DEF r, x
<1>3. QueuedGrants(x) = QueuedGrants(y) \cup T
  BY <1>2 DEF QueuedGrants, NoCompletion
<1>4. /\ T \cap QueuedGrants(y) = {}
      /\ \A z \in y.deliveries : \A w \in y.deliveries : z # w => z.grants \cap w.grants = {}
  BY DEF TokensOk, GrantsOk, InHand
<1>5. \A z \in y.deliveries : z.grants \cap T = {}
  BY <1>4 DEF QueuedGrants
<1>6. HandsOver(x, y, T, {})
  BY <1>2, <1>3, <1>4, <1>5 DEF HandsOver
<1>7. \A d \in Calls : d # c => SameTokens(r.calls[d], s.calls[d])
  BY <1>1, SameTokensRefl DEF SameCalls
<1>8. TokensOk(r, c, {})
  BY <1>1, <1>6, <1>7, HandedOver
<1>. QED BY <1>8 DEF r

(* nor does FailProvider. *)
LEMMA FailTokens ==
    ASSUME NEW s \in Bridges, NEW c \in Calls, TokensOk(s, c, {})
    PROVE  TokensOk(FailProvider(s, c), c, {})
<1>1. CASE ~(IsCurrent(s, c) /\ ~Locked(s, c))
  BY <1>1 DEF FailProvider
<1>2. CASE IsCurrent(s, c) /\ ~Locked(s, c)
  <2>. DEFINE q == LockTerminal(s, c, FailureCompletion)
              p == CancelProvider(q, c)
  <2>1. FailureCompletion \in Completions /\ FailureCompletion.grants = {}
    BY DEF FailureCompletion, Completions
  <2>2. s.calls[c].completion = NoCompletion
    BY <1>2 DEF Locked
  <2>3. q \in Bridges /\ TokensOk(q, c, {})
    BY <2>1, <2>2, LockFields, LockTokens
  <2>. HIDE DEF q
  <2>4. p \in Bridges /\ TokensOk(p, c, {})
    BY <2>3, CancelFields, CancelTokens
  <2>. HIDE DEF p
  <2>5. TokensOk(ScheduleTerminal(p, c), c, {})
    BY <2>4, ScheduleTokens
  <2>. QED BY <1>2, <2>5 DEF FailProvider, p, q
<1>. QED BY <1>1, <1>2

(* A call is settled: its undelivered resources are given up. *)
LEMMA SettleTokens ==
    ASSUME NEW s \in Bridges, NEW c \in Calls, NEW outcome \in Outcomes,
           QueuedBinaries(s.calls[c]) \in Int, TokensOk(s, c, {})
    PROVE  TokensOk(Settle(s, c, outcome), c, {})
<1>. DEFINE r == Settle(s, c, outcome)
            G == QueuedGrants(s.calls[c])
<1>1. r \in Bridges /\ SettleEffect(r, s, c, outcome)
  BY SettleFields
<1>2. G \in SUBSET Tokens /\ {} \in SUBSET Tokens
  BY GrantsAreTokens
<1>. HIDE DEF r
<1>3. /\ r.calls[c].completion = NoCompletion /\ r.calls[c].deliveries = {}
      /\ r.calls[c].state = "settled"
      /\ \A d \in Calls : d # c => SameTokens(r.calls[d], s.calls[d])
  BY <1>1, SameTokensRefl DEF SettleEffect, IsSettled
<1>4. r.calls[c].completion.grants = {}
  BY <1>3 DEF NoCompletion
<1>5. ReleasesGrants(r, s, c, G, {})
  BY <1>1, <1>3, <1>4 DEF ReleasesGrants, SettleEffect, Leaves
<1>6. TokensOk(r, c, {})
  <2>. HIDE DEF G
  <2>. QED BY <1>1, <1>2, <1>5, ReleasedTokens
<1>. QED BY <1>6 DEF r

(* Abort releases the outputs of its call. *)
LEMMA AbortTokens ==
    ASSUME NEW s \in Bridges, NEW c \in Calls, QueuedBinaries(s.calls[c]) \in Int,
           TokensOk(s, c, {})
    PROVE  TokensOk(Abort(s, c), c, {})
<1>. DEFINE q == Settle(s, c, "failure")
<1>1. "failure" \in Outcomes
  BY DEF Outcomes
<1>2. q \in Bridges /\ TokensOk(q, c, {})
  BY <1>1, SettleFields, SettleTokens
<1>. HIDE DEF q
<1>3. TokensOk(CancelProvider(q, c), c, {})
  BY <1>2, CancelTokens
<1>. QED BY <1>3 DEF Abort, q

(* The output in hand is released. *)
LEMMA ReleaseTokens ==
    ASSUME NEW s \in Bridges, NEW c \in Calls, NEW H \in SUBSET Tokens, NEW n \in Int,
           TokensOk(s, c, H), s.calls[c].state # "unused"
    PROVE  TokensOk(ReleaseOutput(s, c, H, n), c, {})
<1>. DEFINE r == ReleaseOutput(s, c, H, n)
            y == s.calls[c]
            x == r.calls[c]
<1>1. /\ r \in Bridges /\ Leaves(r, s, Lost(s, H), n, 0)
      /\ ClosesUp(r, s, c, GivenBack(s, c, H))
  BY ReleaseFields
<1>. HIDE DEF r
<1>2. SameCore(x, y) /\ \A d \in Calls : d # c => SameTokens(r.calls[d], s.calls[d])
  BY <1>1, SameTokensRefl DEF ClosesUp
<1>3. x.state # "unused"
  BY <1>2 DEF SameCore
<1>4. SameTokens([x EXCEPT !.closedTokens = y.closedTokens, !.todo = y.todo], y)
  <2>1. x \in CallRecords /\ y \in CallRecords
    BY <1>1, CallOfBridge
  <2>. HIDE DEF x, y
  <2>. QED BY <1>2, <2>1 DEF SameTokens, SameCore, CallRecords
<1>5. ReleasesGrants(r, s, c, H, H)
  BY <1>1, <1>2, <1>3, <1>4 DEF ReleasesGrants, ClosesUp, Leaves
<1>6. TokensOk(r, c, {})
  BY <1>1, <1>5, ReleasedTokens
<1>. QED BY <1>6 DEF r

-----------------------------------------------------------------------------
(* The tokens after each handler                                           *)

LEMMA AdmitTokens ==
    ASSUME NEW s \in Bridges, NEW c \in Calls, ControlOk(s), s.calls[c].state = "unused",
           NEW e, TokensOk(s, e, {}),
           NEW id \in Ids, NEW mode \in {"result", "stream"}, NEW input \in 0..1,
           NEW deadline \in BOOLEAN
    PROVE  TokensOk(AfterAdmit(s, c, NewCall(id, mode, input, deadline)), e, {})
<1>. DEFINE x == NewCall(id, mode, input, deadline)
            y == s.calls[c]
            r == AfterAdmit(s, c, x)
<1>1. /\ x \in CallRecords /\ x.completion = NoCompletion /\ x.deliveries = {}
      /\ x.closedTokens = {} /\ x.todo = {} /\ x.state = "active"
  BY NewCallFields
<1>. HIDE DEF x
<1>2. SameProvider(r, s) /\ SameCalls(r, s, c) /\ r.calls[c] = x
  BY <1>1, AdmitFields DEF AdmitEffect
<1>. HIDE DEF r
<1>3. y.completion = NoCompletion /\ y.deliveries = {}
  BY DEF ControlOk, CallOk, Over
<1>4. y.closedTokens = {} /\ y.todo = {}
  BY CallFacts
<1>5. TokensOk(r, e, {})
  BY <1>1, <1>2, <1>3, <1>4, OneCallTokens DEF SameTokens
<1>. QED BY <1>5 DEF r, x

(* next() touches no token. *)
LEMMA ReadTokens ==
    ASSUME NEW s \in Bridges, NEW c \in Calls, NEW e, TokensOk(s, e, {})
    PROVE  TokensOk(AfterRead(s, c), e, {}) /\ TokensOk(AfterCredit(s, c), e, {})
<1>. DEFINE y == s.calls[c]
            q == AfterRead(s, c)
            r == AfterCredit(s, c)
            w == ReadCall(y)
            x == CreditedCall(y)
<1>1. /\ SameProvider(q, s) /\ SameCalls(q, s, c) /\ q.calls[c] = w
      /\ SameProvider(r, s) /\ SameCalls(r, s, c) /\ r.calls[c] = x
  BY ReadFields DEF ReadEffect
<1>2. y \in CallRecords
  BY CallOfBridge
<1>3. /\ w.completion = y.completion /\ w.deliveries = y.deliveries /\ w.state = y.state
      /\ w.closedTokens = y.closedTokens /\ w.todo = y.todo
      /\ x.completion = y.completion /\ x.deliveries = y.deliveries /\ x.state = y.state
      /\ x.closedTokens = y.closedTokens /\ x.todo = y.todo
  BY <1>2, ReadCallFields
<1>. HIDE DEF q, r, w, x
<1>4. SameTokens(w, y) /\ SameTokens(x, y)
  BY <1>3 DEF SameTokens
<1>5. TokensOk(q, e, {}) /\ TokensOk(r, e, {})
  BY <1>1, <1>4, OneCallTokens
<1>. QED BY <1>5 DEF q, r

(* An event that fails its call, and one that arrives while the call is    *)
(* being cleaned.                                                          *)
LEMMA FailUndeliveredTokens ==
    ASSUME NEW s \in Bridges, NEW c \in Calls, NEW T \in SUBSET Tokens, TokensOk(s, c, {}),
           s.calls[c].state = "active", s.calls[c].completion = NoCompletion,
           ListedFor(s, c, T)
    PROVE  TokensOk(FailProviderWithUndelivered(Grant(s, c, T), c, T), c, {})
<1>. DEFINE g == Grant(s, c, T)
            p == LockTerminal(g, c, FailureCompletion)
            q == Push(p, c)
            y == s.calls[c]
            x == LockedCall(y, FailureCompletion)
<1>1. /\ g \in Bridges /\ g.calls = s.calls /\ g.resources = s.resources
      /\ g.byToken = s.byToken /\ g.strayClose = s.strayClose
      /\ \A t \in Tokens : g.held[t] = IF t \in T /\ s.held[t] = Fresh THEN c ELSE s.held[t]
  BY GrantFields DEF SameLoop
<1>. HIDE DEF g
<1>2. p \in Bridges /\ SameProvider(p, g) /\ SameCalls(p, g, c) /\ p.calls[c] = x
  BY <1>1, FailureOk, LockFields DEF FailureIsCompletion
<1>. HIDE DEF p
<1>3. q \in Bridges /\ SameProvider(q, p) /\ q.calls = p.calls /\ q.stack = Append(p.stack, c)
  BY <1>2, PushFields, Constants DEF SameLoop
<1>4. OnStack(q, c)
  <2>1. p.stack \in Seq(0..MaxCalls) /\ c \in 0..MaxCalls
    BY <1>2, Constants DEF Bridges
  <2>2. Len(p.stack) + 1 \in 1..Len(Append(p.stack, c))
        /\ Append(p.stack, c)[Len(p.stack) + 1] = c
    <3>. DEFINE F == 0..MaxCalls
    <3>1. p.stack \in Seq(F) /\ c \in F
      BY <2>1
    <3>. HIDE DEF F
    <3>. QED BY <3>1
  <2>. QED BY <1>3, <2>2 DEF OnStack
<1>. HIDE DEF q
<1>5. /\ x.completion = FailureCompletion /\ x.deliveries = y.deliveries
      /\ x.state = y.state /\ x.closedTokens = y.closedTokens /\ x.todo = y.todo
  BY CallOfBridge, VariantFields
<1>. HIDE DEF x
<1>6. SameTokens(x, y)
  BY <1>5 DEF SameTokens, FailureCompletion, NoCompletion
<1>7. \A d \in Calls : SameTokens(q.calls[d], s.calls[d])
  BY <1>1, <1>2, <1>3, <1>6, SameTokensRefl DEF SameCalls
<1>8. GrantedFrom(q, s, c, T)
  BY <1>1, <1>2, <1>3, <1>7 DEF GrantedFrom, SameProvider
<1>9. q.calls[c].state # "unused"
  BY <1>2, <1>3, <1>5
<1>10. TokensOk(CloseUndeliveredGrants(q, c, T), c, {})
  BY <1>3, <1>4, <1>8, <1>9, WithdrawnTokens
<1>. QED BY <1>10 DEF FailProviderWithUndelivered, q, p, g

(* An event during the cleanup of its call keeps the token invariant. *)
LEMMA ReentrantTokens ==
    ASSUME NEW s \in Bridges, NEW c \in Calls, NEW T \in SUBSET Tokens, TokensOk(s, c, {}),
           s.calls[c].state = "active", OnStack(s, c), ListedFor(s, c, T)
    PROVE  TokensOk(CloseUndeliveredGrants(Grant(s, c, T), c, T), c, {})
<1>. DEFINE g == Grant(s, c, T)
<1>1. /\ g \in Bridges /\ g.calls = s.calls /\ g.resources = s.resources
      /\ g.byToken = s.byToken /\ g.strayClose = s.strayClose /\ g.stack = s.stack
      /\ \A t \in Tokens : g.held[t] = IF t \in T /\ s.held[t] = Fresh THEN c ELSE s.held[t]
  BY GrantFields DEF SameLoop
<1>. HIDE DEF g
<1>2. GrantedFrom(g, s, c, T)
  BY <1>1, SameTokensRefl DEF GrantedFrom
<1>3. OnStack(g, c) /\ g.calls[c].state # "unused"
  BY <1>1 DEF OnStack
<1>4. TokensOk(CloseUndeliveredGrants(g, c, T), c, {})
  BY <1>1, <1>2, <1>3, WithdrawnTokens
<1>. QED BY <1>4 DEF g

(* An error that the provider reports *)
LEMMA ErrorTokens ==
    ASSUME NEW s \in Bridges, NEW c \in Calls, TokensOk(s, c, {}),
           s.calls[c].completion = NoCompletion
    PROVE  TokensOk(ScheduleTerminal(LockTerminal(s, c, ErrorCompletion), c), c, {})
<1>. DEFINE q == LockTerminal(s, c, ErrorCompletion)
<1>1. ErrorCompletion \in Completions /\ ErrorCompletion.grants = {}
  BY DEF ErrorCompletion, Completions
<1>2. q \in Bridges /\ TokensOk(q, c, {})
  BY <1>1, LockFields, LockTokens
<1>. HIDE DEF q
<1>3. TokensOk(ScheduleTerminal(q, c), c, {})
  BY <1>2, ScheduleTokens
<1>. QED BY <1>3 DEF q

(* The grants of a terminal event are reserved, and become the             *)
(* completion.                                                             *)
LEMMA ReservedTerminalTokens ==
    ASSUME NEW s \in Bridges, NEW c \in Calls, TokensOk(s, c, {}),
           s.calls[c].completion = NoCompletion,
           NEW T \in SUBSET Tokens, NEW b \in 0..1, \A t \in T : s.held[t] = Fresh
    PROVE  LET q == ReserveOutput(Grant(s, c, T), c, T, b)
               completion == [kind |-> "output", binary |-> b, grants |-> T]
           IN TokensOk(ScheduleTerminal(LockTerminal(q, c, completion), c), c, {})
<1>. DEFINE g == Grant(s, c, T)
            q == ReserveOutput(g, c, T, b)
            completion == [kind |-> "output", binary |-> b, grants |-> T]
            p == LockTerminal(q, c, completion)
<1>1. g \in Bridges /\ g.calls = s.calls
  BY GrantFields DEF SameLoop
<1>2. b \in Int
  OBVIOUS
<1>. HIDE DEF g
<1>3. q \in Bridges /\ ReserveEffect(q, g, c, T, b)
  BY <1>1, <1>2, ReserveFields
<1>. HIDE DEF q
<1>4. TokensOk(q, c, T) /\ q.calls = s.calls
  BY <1>1, <1>3, ReservedTokens DEF ReserveEffect, SameLoop, g
<1>5. completion \in Completions /\ completion.grants = T
  BY DEF Completions
<1>. HIDE DEF completion
<1>6. p \in Bridges /\ TokensOk(p, c, {})
  BY <1>3, <1>4, <1>5, LockFields, LockTokens
<1>. HIDE DEF p
<1>7. TokensOk(ScheduleTerminal(p, c), c, {})
  BY <1>6, ScheduleTokens
<1>. QED BY <1>7 DEF p, q, g, completion

(* The grants of a chunk event are reserved, and become a delivery. *)
LEMMA ChunkTokens ==
    ASSUME NEW s \in Bridges, NEW c \in Calls, TokensOk(s, c, {}),
           NEW i \in Nat, i \in 1..Len(s.calls[c].readers), s.calls[c].credits > 0,
           NEW T \in SUBSET Tokens, NEW b \in 0..1, \A t \in T : s.held[t] = Fresh
    PROVE  LET q == ReserveOutput(Grant(s, c, T), c, T, b)
               x == AssignedCall(s.calls[c], i, b, T)
           IN TokensOk(AfterChunk(q, c, x, s.calls[c].nextSequence), c, {})
<1>. DEFINE g == Grant(s, c, T)
            q == ReserveOutput(g, c, T, b)
            y == s.calls[c]
            x == AssignedCall(y, i, b, T)
            r == AfterChunk(q, c, x, y.nextSequence)
            d == Delivery(y.nextSequence, i, b, T)
<1>1. g \in Bridges /\ g.calls = s.calls
  BY GrantFields DEF SameLoop
<1>2. b \in Int /\ y \in CallRecords
  BY CallOfBridge
<1>. HIDE DEF g
<1>3. q \in Bridges /\ ReserveEffect(q, g, c, T, b)
  BY <1>1, <1>2, ReserveFields
<1>. HIDE DEF q
<1>4. TokensOk(q, c, T) /\ q.calls = s.calls
  BY <1>1, <1>3, ReservedTokens DEF ReserveEffect, SameLoop, g
<1>5. x \in CallRecords /\ AssignedEffect(x, y, i, b, T)
  BY <1>2, AssignedFields
<1>. HIDE DEF x
<1>6. y.nextSequence \in Nat
  BY <1>2 DEF CallRecords
<1>7. SameProvider(r, q) /\ SameCalls(r, q, c) /\ r.calls[c] = x
  BY <1>3, <1>5, <1>6, ChunkFields DEF ChunkEffect
<1>. HIDE DEF r
<1>8. d.grants = T
  BY DEF Delivery
<1>9. /\ x.completion = y.completion /\ x.deliveries = y.deliveries \cup {d}
      /\ x.state = y.state /\ x.closedTokens = y.closedTokens /\ x.todo = y.todo
  BY <1>5 DEF AssignedEffect
<1>. HIDE DEF d
<1>10. QueuedGrants(x) = QueuedGrants(y) \cup T
  BY <1>8, <1>9 DEF QueuedGrants
<1>11. /\ T \cap QueuedGrants(y) = {}
       /\ \A z \in y.deliveries :
             /\ z.grants \cap y.completion.grants = {}
             /\ \A w \in y.deliveries : z # w => z.grants \cap w.grants = {}
  BY <1>4 DEF TokensOk, GrantsOk, InHand
<1>12. T \cap y.completion.grants = {} /\ \A z \in y.deliveries : z.grants \cap T = {}
  BY <1>11 DEF QueuedGrants
<1>13. HandsOver(x, y, T, {})
  <2>1. \A z \in x.deliveries :
            /\ z.grants \cap x.completion.grants = {}
            /\ \A w \in x.deliveries : z # w => z.grants \cap w.grants = {}
    <3>. SUFFICES ASSUME NEW z \in y.deliveries \cup {d}
                  PROVE  /\ z.grants \cap y.completion.grants = {}
                         /\ \A w \in y.deliveries \cup {d} : z # w => z.grants \cap w.grants = {}
      BY <1>9
    <3>. QED BY <1>8, <1>11, <1>12
  <2>. QED BY <1>9, <1>10, <2>1 DEF HandsOver
<1>14. \A e \in Calls : e # c => SameTokens(r.calls[e], q.calls[e])
  BY <1>7, SameTokensRefl DEF SameCalls
<1>15. TokensOk(r, c, {})
  BY <1>4, <1>7, <1>13, <1>14, HandedOver
<1>. QED BY <1>15 DEF r, x, q, g

(* deliverTerminal: the output is in hand, and is delivered or released    *)
(* before the call is settled.                                             *)
LEMMA TakenTokens ==
    ASSUME NEW s \in Bridges, NEW c \in Calls, TokensOk(s, c, {}), s.queue # <<>>
    PROVE  TokensOk(TakeTerminal(s, c), c, s.calls[c].completion.grants)
<1>. DEFINE r == TakeTerminal(s, c)
            y == s.calls[c]
            x == TakenCall(y)
            K == y.completion.grants
<1>1. SameProvider(r, s) /\ SameCalls(r, s, c) /\ r.calls[c] = x
  BY TakeTerminalFields DEF TakeEffect
<1>2. /\ x.completion = NoCompletion /\ x.deliveries = y.deliveries
      /\ x.state = y.state /\ x.closedTokens = y.closedTokens /\ x.todo = y.todo
  BY CallOfBridge, TakenFields
<1>. HIDE DEF r, x
<1>3. \A z \in y.deliveries :
          /\ z.grants \cap K = {}
          /\ \A w \in y.deliveries : z # w => z.grants \cap w.grants = {}
  BY DEF TokensOk, GrantsOk
<1>4. QueuedGrants(x) \cup K = QueuedGrants(y) /\ K \cap QueuedGrants(x) = {}
  BY <1>2, <1>3 DEF QueuedGrants, NoCompletion
<1>5. HandsOver(x, y, {}, K)
  BY <1>2, <1>3, <1>4 DEF HandsOver, NoCompletion
<1>6. \A d \in Calls : d # c => SameTokens(r.calls[d], s.calls[d])
  BY <1>1, SameTokensRefl DEF SameCalls
<1>7. TokensOk(r, c, K)
  BY <1>1, <1>5, <1>6, HandedOver
<1>. QED BY <1>7 DEF r

(* deliverTerminal opens the grants of the completion or releases them. *)
LEMMA DeliverTerminalTokens ==
    ASSUME NEW s \in Bridges, NEW c \in Calls, ControlOk(s), TokensOk(s, c, {}),
           s.queue # <<>>, Head(s.queue) = Terminal(c)
    PROVE  LET q == TakeTerminal(s, c)
               done == s.calls[c].completion
           IN /\ done.kind \in Errors => TokensOk(Settle(q, c, done.kind), c, {})
              /\ Deliverable(q, done.grants) => \A end \in {"result", "end"} :
                     TokensOk(Settle(DeliverOutput(q, done.grants, done.binary), c, end), c, {})
              /\ TokensOk(Abort(ReleaseOutput(q, c, done.grants, done.binary), c), c, {})
<1>. DEFINE q == TakeTerminal(s, c)
            done == s.calls[c].completion
            T == done.grants
            b == done.binary
<1>1. done \in Completions /\ T \in SUBSET Tokens /\ b \in Int
      /\ (done.kind # "output" => T = {})
  <2>1. s.calls[c] \in CallRecords /\ CompletionOk(done)
    BY CallOfBridge DEF ControlOk, CallOk
  <2>. QED BY <2>1 DEF CallRecords, Completions, CompletionOk
<1>2. q \in Bridges /\ TokensOk(q, c, T) /\ Taken(q, s, c)
  BY TakeTerminalFields, TakenTokens, TakeTerminalStep
<1>. HIDE DEF q, done
<1>3. QueuedBinaries(q.calls[c]) \in Int
  BY <1>2, TakenBinaries
<1>4. Errors \subseteq Outcomes /\ {"result", "end"} \subseteq Outcomes
  BY DEF Errors, Outcomes
<1>5. done.kind \in Errors => TokensOk(Settle(q, c, done.kind), c, {})
  <2>. SUFFICES ASSUME done.kind \in Errors PROVE TokensOk(Settle(q, c, done.kind), c, {})
    OBVIOUS
  <2>1. T = {} /\ done.kind \in Outcomes
    BY <1>1, <1>4 DEF Errors
  <2>. HIDE DEF T
  <2>2. TokensOk(q, c, {})
    BY <1>2, <2>1
  <2>. QED BY <1>2, <1>3, <2>1, <2>2, SettleTokens
<1>6. ASSUME Deliverable(q, T), NEW end \in {"result", "end"}
      PROVE  TokensOk(Settle(DeliverOutput(q, T, b), c, end), c, {})
  <2>. DEFINE p == DeliverOutput(q, T, b)
  <2>. HIDE DEF T, b
  <2>1. p \in Bridges /\ DeliverEffect(p, q, T, b)
    BY <1>1, <1>2, DeliverFields
  <2>. HIDE DEF p
  <2>2. TokensOk(p, c, {})
    BY <1>1, <1>2, <1>6, <2>1, DeliveredTokens
  <2>3. QueuedBinaries(p.calls[c]) \in Int
    BY <1>3, <2>1 DEF DeliverEffect, SameLoop
  <2>4. TokensOk(Settle(p, c, end), c, {})
    BY <1>4, <2>1, <2>2, <2>3, SettleTokens
  <2>. QED BY <2>4 DEF p
<1>7. TokensOk(Abort(ReleaseOutput(q, c, T, b), c), c, {})
  <2>. DEFINE p == ReleaseOutput(q, c, T, b)
  <2>. HIDE DEF T, b
  <2>0. q.calls[c].state # "unused"
    BY <1>2 DEF Taken
  <2>1. p \in Bridges /\ ClosesUp(p, q, c, GivenBack(q, c, T))
    BY <1>1, <1>2, ReleaseFields
  <2>2. TokensOk(p, c, {})
    BY <1>1, <1>2, <2>0, ReleaseTokens
  <2>. HIDE DEF p
  <2>3. QueuedBinaries(p.calls[c]) \in Int
    BY <1>3, <2>1 DEF ClosesUp, SameCore, QueuedBinaries
  <2>4. TokensOk(Abort(p, c), c, {})
    BY <2>1, <2>2, <2>3, AbortTokens
  <2>. QED BY <2>4 DEF p
<1>. QED BY <1>5, <1>6, <1>7 DEF done, q

(* deliverChunk *)
LEMMA TakenChunkTokens ==
    ASSUME NEW s \in Bridges, NEW c \in Calls, TokensOk(s, c, {}), s.queue # <<>>,
           NEW d \in s.calls[c].deliveries
    PROVE  TokensOk(TakeChunk(s, c, d), c, d.grants)
<1>. DEFINE r == TakeChunk(s, c, d)
            y == s.calls[c]
            x == ChunkTaken(y, d)
            K == d.grants
<1>1. SameProvider(r, s) /\ SameCalls(r, s, c) /\ r.calls[c] = x
  BY TakeChunkFields DEF TakeEffect
<1>2. /\ x.completion = y.completion /\ x.deliveries = y.deliveries \ {d}
      /\ x.state = y.state /\ x.closedTokens = y.closedTokens /\ x.todo = y.todo
  BY CallOfBridge, ChunkTakenFields
<1>. HIDE DEF r, x
<1>3. \A z \in y.deliveries :
          /\ z.grants \cap y.completion.grants = {}
          /\ \A w \in y.deliveries : z # w => z.grants \cap w.grants = {}
  BY DEF TokensOk, GrantsOk
<1>4. QueuedGrants(x) \cup K = QueuedGrants(y)
  BY <1>2 DEF QueuedGrants
<1>5. K \cap QueuedGrants(x) = {}
  BY <1>2, <1>3 DEF QueuedGrants
<1>6. HandsOver(x, y, {}, K)
  BY <1>2, <1>3, <1>4, <1>5 DEF HandsOver
<1>7. \A e \in Calls : e # c => SameTokens(r.calls[e], s.calls[e])
  BY <1>1, SameTokensRefl DEF SameCalls
<1>8. TokensOk(r, c, K)
  BY <1>1, <1>6, <1>7, HandedOver
<1>. QED BY <1>8 DEF r

(* Answering a reader touches no token. *)
LEMMA AnswerTokens ==
    ASSUME NEW s \in Bridges, NEW q \in Bridges, NEW c \in Calls, TokensOk(q, c, {}),
           ControlOk(s), NEW d \in s.calls[c].deliveries, s.calls[c].state = "active",
           SameCore(q.calls[c], ChunkTaken(s.calls[c], d)), NEW a \in {"chunk", "error"}
    PROVE  LET r == AnswerReader(q, c, d, a)
           IN r \in Bridges /\ TokensOk(r, c, {})
<1>. DEFINE y == s.calls[c]
            z == q.calls[c]
            x == ReaderAnswered(z, d, a)
            r == AnswerReader(q, c, d, a)
<1>1. y \in CallRecords /\ z \in CallRecords /\ a \in ReaderStates
  BY CallOfBridge DEF ReaderStates
<1>2. d.reader \in 1..Len(y.readers)
  <2>1. AnswersInOrder(y)
    BY DEF ControlOk, CallOk, StreamInOrder
  <2>2. d.reader = d.sequence + 1 /\ d.sequence < y.nextSequence /\ y.nextSequence <= Len(y.readers)
    BY <2>1 DEF AnswersInOrder
  <2>3. d.sequence \in Nat /\ y.nextSequence \in Nat /\ Len(y.readers) \in Nat
    BY <1>1, CallOfBridge DEF CallRecords, Deliveries
  <2>. HIDE DEF y
  <2>. QED BY <2>2, <2>3
<1>3. x \in CallRecords /\ AnsweredEffect(x, y, d, a)
      /\ x.closedTokens = z.closedTokens /\ x.todo = z.todo
  <2>. HIDE DEF z
  <2>. QED BY <1>1, <1>2, ReaderAnsweredFields DEF z
<1>4. r \in Bridges /\ AnswerEffect(r, q, c, x)
  BY <1>3, AnswerReaderFields
<1>. HIDE DEF r, x
<1>5. z.completion = y.completion /\ z.deliveries = y.deliveries \ {d} /\ z.state = y.state
  BY <1>1, ChunkTakenFields DEF SameCore
<1>6. SameTokens(x, z)
  BY <1>3, <1>5 DEF SameTokens, AnsweredEffect
<1>7. TokensOk(r, c, {})
  BY <1>4, <1>6, OneCallTokens DEF AnswerEffect
<1>. QED BY <1>4, <1>7 DEF r

(* deliverChunk opens the grants of the delivery or releases them. *)
LEMMA DeliverChunkTokens ==
    ASSUME NEW s \in Bridges, NEW c \in Calls, ControlOk(s), TokensOk(s, c, {}),
           s.queue # <<>>, NEW k, Head(s.queue) = Chunk(c, k),
           NEW d \in s.calls[c].deliveries
    PROVE  LET q == TakeChunk(s, c, d)
           IN /\ Deliverable(q, d.grants) =>
                     TokensOk(AnswerReader(DeliverOutput(q, d.grants, d.binary), c, d, "chunk"),
                              c, {})
              /\ TokensOk(FailProvider(
                     AnswerReader(ReleaseOutput(q, c, d.grants, d.binary), c, d, "error"), c),
                     c, {})
<1>. DEFINE q == TakeChunk(s, c, d)
            T == d.grants
            b == d.binary
            x == ChunkTaken(s.calls[c], d)
<1>1. T \in SUBSET Tokens /\ b \in Int
  <2>1. d \in Deliveries
    BY CallOfBridge DEF CallRecords
  <2>. QED BY <2>1 DEF Deliveries
<1>2. q \in Bridges /\ q.calls[c] = x /\ TokensOk(q, c, T)
  BY TakeChunkFields, TakenChunkTokens DEF TakeEffect
<1>3. s.calls[c].state = "active"
  BY ChunkIsNext
<1>4. q.calls[c].state # "unused"
  BY <1>2, <1>3, CallOfBridge, ChunkTakenFields
<1>. HIDE DEF q, T, b, x
<1>5. ASSUME Deliverable(q, T)
      PROVE  TokensOk(AnswerReader(DeliverOutput(q, T, b), c, d, "chunk"), c, {})
  <2>. DEFINE p == DeliverOutput(q, T, b)
  <2>1. p \in Bridges /\ DeliverEffect(p, q, T, b)
    BY <1>1, <1>2, DeliverFields
  <2>. HIDE DEF p
  <2>2. TokensOk(p, c, {})
    BY <1>1, <1>2, <1>5, <2>1, DeliveredTokens
  <2>3. SameCore(p.calls[c], x)
    BY <1>2, <2>1, SameCoreRefl DEF DeliverEffect, SameLoop
  <2>4. TokensOk(AnswerReader(p, c, d, "chunk"), c, {})
    BY <1>3, <2>1, <2>2, <2>3, AnswerTokens DEF x
  <2>. QED BY <2>4 DEF p
<1>6. TokensOk(FailProvider(AnswerReader(ReleaseOutput(q, c, T, b), c, d, "error"), c), c, {})
  <2>. DEFINE p == ReleaseOutput(q, c, T, b)
              r == AnswerReader(p, c, d, "error")
  <2>1. p \in Bridges /\ ClosesUp(p, q, c, GivenBack(q, c, T))
    BY <1>1, <1>2, ReleaseFields
  <2>2. TokensOk(p, c, {})
    BY <1>1, <1>2, <1>4, ReleaseTokens
  <2>. HIDE DEF p
  <2>3. SameCore(p.calls[c], x)
    BY <1>2, <2>1 DEF ClosesUp
  <2>4. r \in Bridges /\ TokensOk(r, c, {})
    BY <1>3, <2>1, <2>2, <2>3, AnswerTokens DEF x
  <2>. HIDE DEF r
  <2>5. TokensOk(FailProvider(r, c), c, {})
    BY <2>4, FailTokens
  <2>. QED BY <2>5 DEF r, p
<1>. QED BY <1>5, <1>6 DEF q, T, b

(* applyProviderResourceRevoke *)
LEMMA ApplyRevokeTokens ==
    ASSUME NEW s \in Bridges, NEW e, TokensOk(s, e, {}), s.queue # <<>>, NEW t \in Tokens,
           s.held[t] = Revoked
    PROVE  TokensOk(Dequeue(s), e, {}) /\ TokensOk(Drop(Dequeue(s), {t}, "closed"), e, {})
<1>. DEFINE q == Dequeue(s)
<1>1. q \in Bridges /\ SameProvider(q, s) /\ q.calls = s.calls
  BY DequeueFields
<1>. HIDE DEF q
<1>2. TokensOk(q, e, {})
  BY <1>1, SameTokensRefl, TokensSame
<1>3. q.held[t] = Revoked
  BY <1>1 DEF SameProvider
<1>4. TokensOk(Drop(q, {t}, "closed"), e, {})
  BY <1>1, <1>2, <1>3, DroppedTokens
<1>. QED BY <1>2, <1>4 DEF q

(* A handler is entered, or returns. *)
LEMMA StackTokens ==
    ASSUME NEW s \in Bridges, NEW e, TokensOk(s, e, {})
    PROVE  /\ TokensOk(Push(s, Termination), e, {})
           /\ s.stack # <<>> => TokensOk(Pop(s), e, {})
           /\ \A c \in Calls : s.stack # <<>> => TokensOk(ScheduleTerminal(Pop(s), c), e, {})
<1>1. TokensOk(Push(s, Termination), e, {})
  <2>. DEFINE q == Push(s, Termination)
  <2>1. Termination \in 0..MaxCalls
    BY Constants DEF Termination
  <2>2. SameProvider(q, s) /\ q.calls = s.calls
    BY <2>1, PushFields DEF SameLoop
  <2>. HIDE DEF q
  <2>3. TokensOk(q, e, {})
    BY <2>2, SameTokensRefl, TokensSame
  <2>. QED BY <2>3 DEF q
<1>2. ASSUME s.stack # <<>>
      PROVE  Pop(s) \in Bridges /\ TokensOk(Pop(s), e, {})
  <2>. DEFINE q == Pop(s)
  <2>1. q \in Bridges /\ SameProvider(q, s) /\ q.calls = s.calls
    BY <1>2, PopFields DEF SameLoop
  <2>. HIDE DEF q
  <2>2. TokensOk(q, e, {})
    BY <2>1, SameTokensRefl, TokensSame
  <2>. QED BY <2>1, <2>2 DEF q
<1>. QED BY <1>1, <1>2, ScheduleTokens

-----------------------------------------------------------------------------
(* The counters.  A handler works on one call; b binaries are in its hand  *)
(* when it has taken them out of the counters of that call, or not yet put *)
(* them in.                                                                *)

Tally(y) == IF y.state = "active" THEN y.input + QueuedBinaries(y) ELSE 0
StreamOf(y) == IF y.state = "active" THEN StreamHandle(y) ELSE 0
Owed(y) == IF y.state = "active" THEN y.credits ELSE 0

OtherCores(r, s, c) == \A d \in Calls : d # c => SameCore(r.calls[d], s.calls[d])

Counted(r, s, c, b) ==
    /\ r \in Bridges /\ IsFiniteSet(r.calls[c].deliveries)
    /\ OtherCores(r, s, c)
    /\ r.inFlight - s.inFlight = Tally(r.calls[c]) - Tally(s.calls[c]) + b
    /\ r.openResources - s.openResources = Cardinality(r.byToken) - Cardinality(s.byToken)
    /\ r.openHandles - s.openHandles =
           (r.inFlight - s.inFlight) + (r.openResources - s.openResources)
               + StreamOf(r.calls[c]) - StreamOf(s.calls[c])
    /\ r.credits - s.credits = Owed(r.calls[c]) - Owed(s.calls[c])
    /\ Limits(s) => Limits(r)
    /\ OnStack(r, Termination) <=> OnStack(s, Termination)

(* The binaries of finitely many outputs are counted by a number. *)
LEMMA TallyType ==
    ASSUME NEW y \in CallRecords, IsFiniteSet(y.deliveries)
    PROVE  /\ QueuedBinaries(y) \in Nat /\ Tally(y) \in Nat
           /\ StreamHandle(y) \in 0..1 /\ StreamOf(y) \in 0..1 /\ Owed(y) \in Nat
<1>1. LET B == {d \in y.deliveries : d.binary = 1}
      IN Cardinality(B) \in Nat
  BY FS_Subset, FS_CardinalityType
<1>2. y.completion.binary \in Nat /\ y.input \in Nat /\ y.credits \in Nat
  BY DEF CallRecords, Completions
<1>3. QueuedBinaries(y) \in Nat
  BY <1>1, <1>2 DEF QueuedBinaries
<1>. QED BY <1>2, <1>3 DEF Tally, StreamHandle, StreamOf, Owed

(* The counters of a bridge are integers. *)
LEMMA CounterType ==
    ASSUME NEW s \in Bridges
    PROVE  /\ s.inFlight \in Int /\ s.openHandles \in Int /\ s.openResources \in Int
           /\ s.credits \in Int /\ Cardinality(s.byToken) \in Nat
<1>1. s.byToken \in SUBSET Tokens
  BY DEF Bridges
<1>. QED BY <1>1, TokensFinite DEF Bridges

(* One part of a handler follows another. *)
LEMMA CountedTrans ==
    ASSUME NEW s \in Bridges, NEW q, NEW r, NEW c \in Calls, NEW a \in Int, NEW b \in Int,
           IsFiniteSet(s.calls[c].deliveries), Counted(q, s, c, a), Counted(r, q, c, b)
    PROVE  Counted(r, s, c, a + b)
<1>1. q \in Bridges /\ r \in Bridges
  BY DEF Counted
<1>2. /\ Tally(s.calls[c]) \in Int /\ StreamOf(s.calls[c]) \in Int /\ Owed(s.calls[c]) \in Int
      /\ Tally(q.calls[c]) \in Int /\ StreamOf(q.calls[c]) \in Int /\ Owed(q.calls[c]) \in Int
      /\ Tally(r.calls[c]) \in Int /\ StreamOf(r.calls[c]) \in Int /\ Owed(r.calls[c]) \in Int
  <2>1. \A x \in Bridges : IsFiniteSet(x.calls[c].deliveries) =>
            Tally(x.calls[c]) \in Int /\ StreamOf(x.calls[c]) \in Int /\ Owed(x.calls[c]) \in Int
    BY CallOfBridge, TallyType
  <2>. QED BY <1>1, <2>1 DEF Counted
<1>3. OtherCores(r, s, c)
  BY DEF Counted, OtherCores, SameCore
<1>4. /\ s.inFlight \in Int /\ s.openHandles \in Int /\ s.openResources \in Int
      /\ q.inFlight \in Int /\ q.openHandles \in Int /\ q.openResources \in Int
      /\ r.inFlight \in Int /\ r.openHandles \in Int /\ r.openResources \in Int
      /\ s.credits \in Int /\ q.credits \in Int /\ r.credits \in Int
      /\ Cardinality(s.byToken) \in Int /\ Cardinality(q.byToken) \in Int
      /\ Cardinality(r.byToken) \in Int
  BY <1>1, CounterType
<1>5. r.inFlight - s.inFlight = Tally(r.calls[c]) - Tally(s.calls[c]) + (a + b)
  <2>1. /\ q.inFlight - s.inFlight = Tally(q.calls[c]) - Tally(s.calls[c]) + a
        /\ r.inFlight - q.inFlight = Tally(r.calls[c]) - Tally(q.calls[c]) + b
    BY DEF Counted
  <2>. QED BY <1>2, <1>4, <2>1
<1>6. r.openResources - s.openResources = Cardinality(r.byToken) - Cardinality(s.byToken)
  <2>1. /\ q.openResources - s.openResources = Cardinality(q.byToken) - Cardinality(s.byToken)
        /\ r.openResources - q.openResources = Cardinality(r.byToken) - Cardinality(q.byToken)
    BY DEF Counted
  <2>. QED BY <1>4, <2>1
<1>7. r.credits - s.credits = Owed(r.calls[c]) - Owed(s.calls[c])
  <2>1. /\ q.credits - s.credits = Owed(q.calls[c]) - Owed(s.calls[c])
        /\ r.credits - q.credits = Owed(r.calls[c]) - Owed(q.calls[c])
    BY DEF Counted
  <2>. QED BY <1>2, <1>4, <2>1
<1>8. r.openHandles - s.openHandles =
           (r.inFlight - s.inFlight) + (r.openResources - s.openResources)
               + StreamOf(r.calls[c]) - StreamOf(s.calls[c])
  <2>1. /\ q.openHandles - s.openHandles =
              (q.inFlight - s.inFlight) + (q.openResources - s.openResources)
                  + StreamOf(q.calls[c]) - StreamOf(s.calls[c])
        /\ r.openHandles - q.openHandles =
              (r.inFlight - q.inFlight) + (r.openResources - q.openResources)
                  + StreamOf(r.calls[c]) - StreamOf(q.calls[c])
    BY DEF Counted
  <2>. QED BY <1>2, <1>4, <2>1
<1>. QED BY <1>3, <1>5, <1>6, <1>7, <1>8 DEF Counted

(* What the counters of a call depend on *)
SameTally(x, y) ==
    /\ x.state = y.state /\ x.mode = y.mode /\ x.input = y.input
    /\ x.completion.binary = y.completion.binary /\ x.deliveries = y.deliveries

(* Calls that retain the same count the same. *)
LEMMA SameTallyCount ==
    ASSUME NEW x, NEW y, SameTally(x, y)
    PROVE  Tally(x) = Tally(y) /\ StreamOf(x) = StreamOf(y)
BY DEF SameTally, Tally, StreamOf, StreamHandle, QueuedBinaries

(* A part of a handler that counts nothing *)
LEMMA CountedSame ==
    ASSUME NEW s \in Bridges, NEW r \in Bridges, NEW c \in Calls,
           IsFiniteSet(s.calls[c].deliveries),
           SameCounters(r, s), r.byToken = s.byToken, r.credits = s.credits,
           OnStack(r, Termination) <=> OnStack(s, Termination),
           OtherCores(r, s, c), SameTally(r.calls[c], s.calls[c]),
           r.calls[c].credits = s.calls[c].credits
    PROVE  Counted(r, s, c, 0)
<1>1. /\ Tally(r.calls[c]) = Tally(s.calls[c]) /\ StreamOf(r.calls[c]) = StreamOf(s.calls[c])
      /\ Owed(r.calls[c]) = Owed(s.calls[c]) /\ r.calls[c].deliveries = s.calls[c].deliveries
  BY SameTallyCount DEF SameTally, Owed
<1>2. /\ Tally(s.calls[c]) \in Int /\ StreamOf(s.calls[c]) \in Int /\ Owed(s.calls[c]) \in Int
  BY CallOfBridge, TallyType
<1>3. Limits(s) => Limits(r)
  BY DEF Limits, SameCounters
<1>. QED BY <1>1, <1>2, <1>3, CounterType DEF Counted, SameCounters

(* A method that changes one call leaves the others alone. *)
LEMMA OtherCalls ==
    ASSUME NEW r, NEW s, NEW c, SameCalls(r, s, c)
    PROVE  OtherCores(r, s, c)
BY SameCoreRefl DEF SameCalls, OtherCores

(* The methods, one by one.  Those that only mark or schedule count        *)
(* nothing.                                                                *)
LEMMA CancelCounted ==
    ASSUME NEW s \in Bridges, NEW c \in Calls, IsFiniteSet(s.calls[c].deliveries)
    PROVE  Counted(CancelProvider(s, c), s, c, 0)
<1>. DEFINE r == CancelProvider(s, c)
            y == s.calls[c]
            x == CancelledCall(y)
<1>1. /\ r \in Bridges /\ r.stack = s.stack /\ SameProvider(r, s) /\ SameCounters(r, s)
      /\ SameCalls(r, s, c) /\ r.credits = s.credits /\ r.calls[c] = x
  BY CancelFields
<1>2. SameTally(x, y) /\ x.credits = y.credits
  BY CallOfBridge, VariantFields DEF SameTally
<1>. HIDE DEF r, x
<1>3. Counted(r, s, c, 0)
  BY <1>1, <1>2, OtherCalls, CountedSame DEF SameProvider, OnStack
<1>. QED BY <1>3 DEF r

(* ScheduleTerminal counts nothing. *)
LEMMA ScheduleCounted ==
    ASSUME NEW s \in Bridges, NEW c \in Calls, IsFiniteSet(s.calls[c].deliveries)
    PROVE  Counted(ScheduleTerminal(s, c), s, c, 0)
<1>. DEFINE r == ScheduleTerminal(s, c)
            y == s.calls[c]
            x == ScheduledCall(y)
<1>1. /\ r \in Bridges /\ r.stack = s.stack /\ SameProvider(r, s) /\ SameCounters(r, s)
      /\ SameCalls(r, s, c) /\ r.credits = s.credits /\ r.calls[c] \in {x, y}
  BY ScheduleFields
<1>2. SameTally(x, y) /\ x.credits = y.credits /\ SameTally(y, y)
  BY CallOfBridge, VariantFields DEF SameTally
<1>. HIDE DEF r, x
<1>3. SameTally(r.calls[c], y) /\ r.calls[c].credits = y.credits
  BY <1>1, <1>2
<1>4. Counted(r, s, c, 0)
  BY <1>1, <1>3, OtherCalls, CountedSame DEF SameProvider, OnStack
<1>. QED BY <1>4 DEF r

(* A locked terminal retains its binary; the waiting readers of its call   *)
(* lose their credits.                                                     *)
LEMMA LockCounted ==
    ASSUME NEW s \in Bridges, NEW c \in Calls, IsFiniteSet(s.calls[c].deliveries),
           s.calls[c].state = "active", s.calls[c].completion = NoCompletion,
           NEW completion \in Completions
    PROVE  Counted(LockTerminal(s, c, completion), s, c, 0 - completion.binary)
<1>. DEFINE r == LockTerminal(s, c, completion)
            y == s.calls[c]
            x == LockedCall(y, completion)
            b == completion.binary
            n == Cardinality({d \in y.deliveries : d.binary = 1})
<1>1. /\ r \in Bridges /\ r.stack = s.stack /\ SameProvider(r, s) /\ SameCounters(r, s)
      /\ SameCalls(r, s, c) /\ r.credits = s.credits - y.credits /\ r.calls[c] = x
  BY LockFields
<1>2. /\ x.completion = completion /\ x.credits = 0
      /\ x.mode = y.mode /\ x.state = y.state /\ x.input = y.input
      /\ x.deliveries = y.deliveries
  BY CallOfBridge, VariantFields
<1>3. /\ b \in 0..1 /\ y.input \in Nat /\ y.credits \in Nat /\ n \in Nat
      /\ StreamOf(y) \in 0..1
  <2>1. n \in Nat
    BY FS_Subset, FS_CardinalityType
  <2>. QED BY <2>1, CallOfBridge, TallyType DEF CallRecords, Completions
<1>4. /\ Tally(y) = y.input + n /\ Tally(x) = y.input + (b + n)
      /\ StreamOf(x) = StreamOf(y) /\ Owed(y) = y.credits /\ Owed(x) = 0
  <2>1. y.completion.binary = 0
    BY DEF NoCompletion
  <2>2. QueuedBinaries(y) = 0 + n /\ QueuedBinaries(x) = b + n
    <3>. HIDE DEF x, y
    <3>. QED BY <1>2, <2>1 DEF QueuedBinaries, n
  <2>3. y.state = "active" /\ x.state = "active"
    BY <1>2
  <2>. HIDE DEF x, y, n
  <2>. QED BY <1>2, <1>3, <2>2, <2>3 DEF Tally, StreamOf, StreamHandle, Owed
<1>. HIDE DEF r, x, n
<1>5. Limits(s) => Limits(r)
  BY <1>1, <1>3, CounterType, Constants DEF Limits, SameCounters
<1>6. (OnStack(r, Termination) <=> OnStack(s, Termination)) /\ OtherCores(r, s, c)
  BY <1>1, OtherCalls DEF OnStack
<1>7. /\ r.inFlight - s.inFlight = Tally(r.calls[c]) - Tally(s.calls[c]) + (0 - b)
      /\ r.openResources - s.openResources = Cardinality(r.byToken) - Cardinality(s.byToken)
      /\ r.openHandles - s.openHandles =
           (r.inFlight - s.inFlight) + (r.openResources - s.openResources)
               + StreamOf(r.calls[c]) - StreamOf(s.calls[c])
      /\ r.credits - s.credits = Owed(r.calls[c]) - Owed(s.calls[c])
  <2>1. /\ r.inFlight = s.inFlight /\ r.openHandles = s.openHandles
        /\ r.openResources = s.openResources /\ r.byToken = s.byToken
        /\ r.credits = s.credits - y.credits
    BY <1>1 DEF SameCounters, SameProvider
  <2>2. /\ Tally(s.calls[c]) = y.input + n /\ Tally(r.calls[c]) = y.input + (b + n)
        /\ StreamOf(r.calls[c]) = StreamOf(s.calls[c])
        /\ Owed(s.calls[c]) = y.credits /\ Owed(r.calls[c]) = 0
    BY <1>1, <1>4
  <2>3. /\ s.inFlight \in Int /\ s.openHandles \in Int /\ s.openResources \in Int
        /\ s.credits \in Int /\ Cardinality(s.byToken) \in Nat
        /\ StreamOf(s.calls[c]) \in Int
    BY <1>3, CounterType
  <2>4. b \in Int /\ n \in Int /\ y.input \in Int /\ y.credits \in Int
    BY <1>3
  <2>. HIDE DEF b, y
  <2>5. r.inFlight - s.inFlight = Tally(r.calls[c]) - Tally(s.calls[c]) + (0 - b)
    BY <2>1, <2>2, <2>3, <2>4
  <2>6. r.openResources - s.openResources = Cardinality(r.byToken) - Cardinality(s.byToken)
    BY <2>1, <2>3
  <2>7. r.openHandles - s.openHandles =
            (r.inFlight - s.inFlight) + (r.openResources - s.openResources)
               + StreamOf(r.calls[c]) - StreamOf(s.calls[c])
    BY <2>1, <2>2, <2>3
  <2>8. r.credits - s.credits = Owed(r.calls[c]) - Owed(s.calls[c])
    BY <2>1, <2>2, <2>3, <2>4
  <2>. QED BY <2>5, <2>6, <2>7, <2>8
<1>. QED BY <1>1, <1>2, <1>5, <1>6, <1>7 DEF Counted, r

(* Resources that leave the bridge are struck off, and n binaries with     *)
(* them.                                                                   *)
LEMMA LeavesCounted ==
    ASSUME NEW s \in Bridges, NEW r \in Bridges, NEW c \in Calls,
           IsFiniteSet(s.calls[c].deliveries), NEW n \in Nat,
           NEW T \in SUBSET Tokens, T \subseteq s.byToken, Leaves(r, s, T, n, 0),
           r.credits = s.credits, r.stack = s.stack,
           \A d \in Calls : SameCore(r.calls[d], s.calls[d])
    PROVE  Counted(r, s, c, 0 - n)
<1>1. /\ Tally(r.calls[c]) = Tally(s.calls[c]) /\ StreamOf(r.calls[c]) = StreamOf(s.calls[c])
      /\ Owed(r.calls[c]) = Owed(s.calls[c]) /\ r.calls[c].deliveries = s.calls[c].deliveries
  BY SameTallyCount DEF SameCore, SameTally, Owed
<1>2. /\ Tally(s.calls[c]) \in Int /\ StreamOf(s.calls[c]) \in Int /\ Owed(s.calls[c]) \in Int
  BY CallOfBridge, TallyType
<1>3. Cardinality(T) \in Nat
      /\ Cardinality(r.byToken) = Cardinality(s.byToken) - Cardinality(T)
  <2>1. s.byToken \in SUBSET Tokens
    BY DEF Bridges
  <2>2. IsFiniteSet(s.byToken) /\ IsFiniteSet(T) /\ T \cap s.byToken = T
    BY <2>1, TokensFinite
  <2>3. Cardinality(s.byToken \ T) = Cardinality(s.byToken) - Cardinality(s.byToken \cap T)
    BY <2>2, FS_Difference
  <2>4. s.byToken \cap T = T
    BY <2>2
  <2>. QED BY <2>3, <2>4, TokensFinite DEF Leaves
<1>4. Limits(s) => Limits(r)
  BY <1>3, CounterType, Constants DEF Limits, Leaves
<1>5. (OnStack(r, Termination) <=> OnStack(s, Termination)) /\ OtherCores(r, s, c)
  BY DEF OnStack, OtherCores
<1>6. /\ r.inFlight - s.inFlight = Tally(r.calls[c]) - Tally(s.calls[c]) + (0 - n)
      /\ r.openResources - s.openResources = Cardinality(r.byToken) - Cardinality(s.byToken)
      /\ r.openHandles - s.openHandles =
           (r.inFlight - s.inFlight) + (r.openResources - s.openResources)
               + StreamOf(r.calls[c]) - StreamOf(s.calls[c])
      /\ r.credits - s.credits = Owed(r.calls[c]) - Owed(s.calls[c])
  BY <1>1, <1>2, <1>3, CounterType DEF Leaves
<1>. QED BY <1>1, <1>4, <1>5, <1>6 DEF Counted

(* A call that is settled gives back all that it retained. *)
LEMMA SettleCounted ==
    ASSUME NEW s \in Bridges, NEW c \in Calls, IsFiniteSet(s.calls[c].deliveries),
           s.calls[c].state = "active", NEW outcome \in Outcomes,
           QueuedGrants(s.calls[c]) \cap {t \in Tokens : s.resources[t].status = "reserved"}
               \subseteq s.byToken
    PROVE  Counted(Settle(s, c, outcome), s, c, 0)
<1>. DEFINE r == Settle(s, c, outcome)
            y == s.calls[c]
            x == r.calls[c]
            T == Lost(s, QueuedGrants(y))
            n == QueuedBinaries(y)
            k == Cardinality(T)
<1>1. y \in CallRecords /\ n \in Nat /\ StreamHandle(y) \in 0..1
  BY CallOfBridge, TallyType
<1>2. r \in Bridges /\ SettleEffect(r, s, c, outcome)
  BY <1>1, SettleFields
<1>3. T \in SUBSET Tokens /\ T \subseteq s.byToken
  BY GrantsAreTokens DEF Lost
<1>. HIDE DEF r, T, n
<1>4. /\ r.stack = s.stack /\ r.credits = s.credits - y.credits
      /\ r.byToken = s.byToken \ T
      /\ r.inFlight = s.inFlight - (n + y.input)
      /\ r.openHandles = s.openHandles - k - (n + y.input) - StreamHandle(y)
      /\ r.openResources = s.openResources - k
      /\ SameCalls(r, s, c) /\ IsSettled(x, y, outcome)
  BY <1>2 DEF SettleEffect, Leaves, SameCalls, T, n
<1>5. k \in Nat /\ Cardinality(r.byToken) = Cardinality(s.byToken) - k
  <2>1. s.byToken \in SUBSET Tokens
    BY DEF Bridges
  <2>2. IsFiniteSet(s.byToken) /\ s.byToken \cap T = T
    BY <1>3, <2>1, TokensFinite
  <2>3. Cardinality(s.byToken \ T) = Cardinality(s.byToken) - Cardinality(s.byToken \cap T)
    BY <2>2, FS_Difference
  <2>. QED BY <1>3, <1>4, <2>2, <2>3, TokensFinite
<1>. HIDE DEF k
<1>6. /\ x.deliveries = {} /\ Tally(x) = 0 /\ StreamOf(x) = 0 /\ Owed(x) = 0
      /\ Tally(y) = y.input + n /\ StreamOf(y) = StreamHandle(y) /\ Owed(y) = y.credits
  <2>. HIDE DEF x
  <2>. QED BY <1>4 DEF IsSettled, Tally, StreamOf, Owed, n
<1>7. y.input \in Nat /\ y.credits \in Nat
  BY <1>1 DEF CallRecords
<1>8. /\ s.inFlight \in Int /\ s.openHandles \in Int /\ s.openResources \in Int
      /\ s.credits \in Int /\ Cardinality(s.byToken) \in Int
  BY CounterType
<1>. HIDE DEF x, y
<1>9. Limits(s) => Limits(r)
  <2>1. /\ r.inFlight <= s.inFlight /\ r.openHandles <= s.openHandles
        /\ r.openResources <= s.openResources /\ r.credits <= s.credits
    BY <1>1, <1>4, <1>5, <1>7, <1>8
  <2>. QED BY <1>2, <1>8, <2>1, CounterType, Constants DEF Limits
<1>10. (OnStack(r, Termination) <=> OnStack(s, Termination)) /\ OtherCores(r, s, c)
  BY <1>4, OtherCalls DEF OnStack
<1>11. r.inFlight - s.inFlight = 0 - Tally(y) + 0
  BY <1>1, <1>4, <1>6, <1>7, <1>8
<1>12. r.openResources - s.openResources = Cardinality(r.byToken) - Cardinality(s.byToken)
  BY <1>4, <1>5, <1>8
<1>13. r.openHandles - s.openHandles =
           (r.inFlight - s.inFlight) + (r.openResources - s.openResources)
               + 0 - StreamOf(y)
  BY <1>1, <1>4, <1>5, <1>6, <1>7, <1>8
<1>14. r.credits - s.credits = 0 - Owed(y)
  BY <1>4, <1>6, <1>7, <1>8
<1>15. IsFiniteSet(x.deliveries)
  BY <1>6, FS_EmptySet
<1>. QED BY <1>2, <1>6, <1>9, <1>10, <1>11, <1>12, <1>13, <1>14, <1>15 DEF Counted, r, x, y

(* ReleaseOutput gives back the binaries and the reserved grants. *)
LEMMA ReleaseCounted ==
    ASSUME NEW s \in Bridges, NEW c \in Calls, IsFiniteSet(s.calls[c].deliveries),
           NEW G \in SUBSET Tokens, NEW n \in Nat,
           \A t \in G : s.resources[t].status = "reserved" => t \in s.byToken
    PROVE  Counted(ReleaseOutput(s, c, G, n), s, c, 0 - n)
<1>. DEFINE r == ReleaseOutput(s, c, G, n)
            T == Lost(s, G)
<1>1. /\ r \in Bridges /\ r.stack = s.stack /\ r.credits = s.credits
      /\ Leaves(r, s, T, n, 0) /\ ClosesUp(r, s, c, GivenBack(s, c, G))
  BY ReleaseFields
<1>2. T \in SUBSET Tokens /\ T \subseteq s.byToken
  BY DEF Lost
<1>. HIDE DEF r, T
<1>3. Counted(r, s, c, 0 - n)
  BY <1>1, <1>2, LeavesCounted DEF ClosesUp
<1>. QED BY <1>3 DEF r

(* CloseUndeliveredGrants gives back what it drops. *)
LEMMA CloseUndeliveredCounted ==
    ASSUME NEW s \in Bridges, NEW c \in Calls, IsFiniteSet(s.calls[c].deliveries),
           NEW T \in SUBSET Tokens
    PROVE  Counted(CloseUndeliveredGrants(s, c, T), s, c, 0)
<1>. DEFINE r == CloseUndeliveredGrants(s, c, T)
            M == Mine(s, c, T) \cap s.byToken
<1>1. /\ r \in Bridges /\ r.stack = s.stack /\ r.credits = s.credits
      /\ Leaves(r, s, M, 0, 0) /\ ClosesUp(r, s, c, New(s, c, T))
  BY CloseUndeliveredFields
<1>2. M \in SUBSET Tokens /\ M \subseteq s.byToken
  BY DEF Mine
<1>. HIDE DEF r, M
<1>3. Counted(r, s, c, 0 - 0)
  BY <1>1, <1>2, LeavesCounted DEF ClosesUp
<1>4. 0 - 0 = 0
  OBVIOUS
<1>. QED BY <1>3, <1>4 DEF r

(* Grant counts nothing. *)
LEMMA GrantCounted ==
    ASSUME NEW s \in Bridges, NEW c \in Calls, IsFiniteSet(s.calls[c].deliveries),
           NEW T \in SUBSET Tokens
    PROVE  Counted(Grant(s, c, T), s, c, 0)
<1>. DEFINE r == Grant(s, c, T)
<1>1. /\ r \in Bridges /\ SameLoop(r, s) /\ SameCounters(r, s) /\ r.stack = s.stack
      /\ r.byToken = s.byToken
  BY GrantFields
<1>. HIDE DEF r
<1>2. Counted(r, s, c, 0)
  BY <1>1, CountedSame, SameCoreRefl DEF SameLoop, OtherCores, SameTally, OnStack
<1>. QED BY <1>2 DEF r

(* The quotas that reserveOutput checks are the limits. *)
LEMMA ReserveCounted ==
    ASSUME NEW s \in Bridges, NEW c \in Calls, IsFiniteSet(s.calls[c].deliveries),
           NEW T \in SUBSET Tokens, NEW b \in 0..1, Fits(s, T, b), T \cap s.byToken = {}
    PROVE  Counted(ReserveOutput(s, c, T, b), s, c, b)
<1>. DEFINE r == ReserveOutput(s, c, T, b)
            y == s.calls[c]
<1>1. r \in Bridges /\ ReserveEffect(r, s, c, T, b)
  BY ReserveFields
<1>. HIDE DEF r
<1>2. /\ r.calls = s.calls /\ r.credits = s.credits /\ r.stack = s.stack
      /\ r.inFlight = s.inFlight + b
      /\ r.openHandles = s.openHandles + b + Cardinality(T)
      /\ r.openResources = s.openResources + Cardinality(T)
      /\ r.byToken = s.byToken \cup T
  BY <1>1 DEF ReserveEffect, SameLoop
<1>3. Cardinality(T) \in Nat
      /\ Cardinality(r.byToken) = Cardinality(s.byToken) + Cardinality(T)
  <2>1. s.byToken \in SUBSET Tokens
    BY DEF Bridges
  <2>2. IsFiniteSet(s.byToken) /\ IsFiniteSet(T) /\ s.byToken \cap T = {}
        /\ Cardinality(s.byToken) \in Nat /\ Cardinality(T) \in Nat
    BY <2>1, TokensFinite
  <2>3. Cardinality(s.byToken \cup T) = Cardinality(s.byToken) + Cardinality(T) - 0
    BY <2>2, FS_Union, FS_EmptySet
  <2>. QED BY <1>2, <2>2, <2>3
<1>4. /\ s.inFlight \in Int /\ s.openHandles \in Int /\ s.openResources \in Int
      /\ s.credits \in Int /\ Cardinality(s.byToken) \in Int
      /\ Tally(y) \in Int /\ StreamOf(y) \in Int /\ Owed(y) \in Int
  BY CounterType, CallOfBridge, TallyType
<1>5. Limits(s) => Limits(r)
  BY <1>2 DEF Limits, Fits
<1>6. (OnStack(r, Termination) <=> OnStack(s, Termination)) /\ OtherCores(r, s, c)
  BY <1>2, SameCoreRefl DEF OnStack, OtherCores
<1>. HIDE DEF y
<1>7. r.inFlight - s.inFlight = Tally(y) - Tally(y) + b
  BY <1>2, <1>4
<1>8. r.openResources - s.openResources = Cardinality(r.byToken) - Cardinality(s.byToken)
  BY <1>2, <1>3, <1>4
<1>9. r.openHandles - s.openHandles =
           (r.inFlight - s.inFlight) + (r.openResources - s.openResources)
               + StreamOf(y) - StreamOf(y)
  BY <1>2, <1>3, <1>4
<1>10. r.credits - s.credits = Owed(y) - Owed(y)
  BY <1>2, <1>4
<1>. QED BY <1>1, <1>2, <1>5, <1>6, <1>7, <1>8, <1>9, <1>10 DEF Counted, r, y

(* DeliverOutput gives back the binaries; the resources stay. *)
LEMMA DeliverCounted ==
    ASSUME NEW s \in Bridges, NEW c \in Calls, IsFiniteSet(s.calls[c].deliveries),
           NEW T \in SUBSET Tokens, NEW b \in 0..1
    PROVE  Counted(DeliverOutput(s, T, b), s, c, 0 - b)
<1>. DEFINE r == DeliverOutput(s, T, b)
            y == s.calls[c]
<1>1. r \in Bridges /\ DeliverEffect(r, s, T, b)
  BY DeliverFields
<1>. HIDE DEF r
<1>2. /\ r.calls = s.calls /\ r.credits = s.credits /\ r.stack = s.stack
      /\ r.inFlight = s.inFlight - b /\ r.openHandles = s.openHandles - b
      /\ r.openResources = s.openResources /\ r.byToken = s.byToken
  BY <1>1 DEF DeliverEffect, SameLoop
<1>3. /\ s.inFlight \in Int /\ s.openHandles \in Int /\ s.openResources \in Int
      /\ s.credits \in Int /\ Cardinality(s.byToken) \in Int
      /\ Tally(y) \in Int /\ StreamOf(y) \in Int /\ Owed(y) \in Int
  BY CounterType, CallOfBridge, TallyType
<1>4. Limits(s) => Limits(r)
  BY <1>2, <1>3, Constants DEF Limits
<1>5. (OnStack(r, Termination) <=> OnStack(s, Termination)) /\ OtherCores(r, s, c)
  BY <1>2, SameCoreRefl DEF OnStack, OtherCores
<1>. HIDE DEF y
<1>6. r.inFlight - s.inFlight = Tally(y) - Tally(y) + (0 - b)
  BY <1>2, <1>3
<1>7. r.openResources - s.openResources = Cardinality(r.byToken) - Cardinality(s.byToken)
  BY <1>2, <1>3
<1>8. r.openHandles - s.openHandles =
           (r.inFlight - s.inFlight) + (r.openResources - s.openResources)
               + StreamOf(y) - StreamOf(y)
  BY <1>2, <1>3
<1>9. r.credits - s.credits = Owed(y) - Owed(y)
  BY <1>2, <1>3
<1>. QED BY <1>1, <1>2, <1>4, <1>5, <1>6, <1>7, <1>8, <1>9 DEF Counted, r, y

(* Outputs change hands between a call and a handler of it. *)
LEMMA CountedTally ==
    ASSUME NEW s \in Bridges, NEW r \in Bridges, NEW c \in Calls, NEW b \in Int,
           IsFiniteSet(s.calls[c].deliveries), IsFiniteSet(r.calls[c].deliveries),
           SameCounters(r, s), r.byToken = s.byToken, r.stack = s.stack,
           SameCalls(r, s, c), StreamOf(r.calls[c]) = StreamOf(s.calls[c]),
           Tally(s.calls[c]) = Tally(r.calls[c]) + b,
           r.credits - s.credits = Owed(r.calls[c]) - Owed(s.calls[c]),
           r.credits <= s.credits
    PROVE  Counted(r, s, c, b)
<1>. DEFINE x == r.calls[c]
            y == s.calls[c]
<1>1. /\ s.inFlight \in Int /\ s.openHandles \in Int /\ s.openResources \in Int
      /\ s.credits \in Int /\ r.credits \in Int /\ Cardinality(s.byToken) \in Int
      /\ Tally(x) \in Int /\ Tally(y) \in Int /\ StreamOf(y) \in Int
  BY CounterType, CallOfBridge, TallyType
<1>2. /\ r.inFlight = s.inFlight /\ r.openHandles = s.openHandles
      /\ r.openResources = s.openResources
  BY DEF SameCounters
<1>3. Limits(s) => Limits(r)
  BY <1>1, <1>2, Constants DEF Limits
<1>4. (OnStack(r, Termination) <=> OnStack(s, Termination)) /\ OtherCores(r, s, c)
  BY OtherCalls DEF OnStack
<1>5. r.inFlight - s.inFlight = Tally(x) - Tally(y) + b
  BY <1>1, <1>2
<1>6. r.openResources - s.openResources = Cardinality(r.byToken) - Cardinality(s.byToken)
  BY <1>1, <1>2
<1>7. r.openHandles - s.openHandles =
           (r.inFlight - s.inFlight) + (r.openResources - s.openResources)
               + StreamOf(x) - StreamOf(y)
  BY <1>1, <1>2
<1>. QED BY <1>3, <1>4, <1>5, <1>6, <1>7 DEF Counted

(* The binaries of a taken completion are in hand, *)
LEMMA TakenCounted ==
    ASSUME NEW s \in Bridges, NEW c \in Calls, s.queue # <<>>,
           IsFiniteSet(s.calls[c].deliveries), s.calls[c].state = "active"
    PROVE  Counted(TakeTerminal(s, c), s, c, s.calls[c].completion.binary)
<1>. DEFINE r == TakeTerminal(s, c)
            y == s.calls[c]
            x == TakenCall(y)
            b == y.completion.binary
            n == Cardinality({d \in y.deliveries : d.binary = 1})
<1>1. r \in Bridges /\ TakeEffect(r, s, c, x)
  BY TakeTerminalFields
<1>2. /\ x.completion = NoCompletion /\ x.credits = y.credits
      /\ x.mode = y.mode /\ x.state = y.state /\ x.input = y.input
      /\ x.deliveries = y.deliveries
  BY CallOfBridge, TakenFields
<1>3. b \in 0..1 /\ y.input \in Nat /\ y.credits \in Nat /\ n \in Nat
  <2>1. n \in Nat
    BY FS_Subset, FS_CardinalityType
  <2>. QED BY <2>1, CallOfBridge DEF CallRecords, Completions
<1>4. /\ Tally(y) = Tally(x) + b /\ StreamOf(x) = StreamOf(y) /\ Owed(x) = Owed(y)
  <2>1. x.completion.binary = 0
    BY <1>2 DEF NoCompletion
  <2>2. QueuedBinaries(x) = 0 + n /\ QueuedBinaries(y) = b + n
    <3>. HIDE DEF x, y
    <3>. QED BY <1>2, <2>1 DEF QueuedBinaries, n, b
  <2>3. y.state = "active" /\ x.state = "active"
    BY <1>2
  <2>4. StreamOf(x) = StreamOf(y) /\ Owed(x) = Owed(y)
    BY <1>2 DEF StreamOf, StreamHandle, Owed
  <2>5. Tally(y) = y.input + QueuedBinaries(y) /\ Tally(x) = y.input + QueuedBinaries(x)
    BY <1>2, <2>3 DEF Tally
  <2>. HIDE DEF x, y, n, b
  <2>. QED BY <1>3, <2>2, <2>4, <2>5
<1>. HIDE DEF r, x
<1>5. Owed(y) \in Int /\ s.credits \in Int
  BY CallOfBridge, TallyType, CounterType
<1>6. /\ SameCounters(r, s) /\ r.byToken = s.byToken /\ r.stack = s.stack
      /\ SameCalls(r, s, c) /\ r.credits = s.credits /\ r.calls[c] = x
  BY <1>1 DEF TakeEffect, SameProvider
<1>7. r.credits - s.credits = Owed(r.calls[c]) - Owed(y) /\ r.credits <= s.credits
  BY <1>4, <1>5, <1>6
<1>8. IsFiniteSet(r.calls[c].deliveries) /\ b \in Int
  BY <1>2, <1>3, <1>6
<1>. HIDE DEF b
<1>9. Counted(r, s, c, b)
  BY <1>1, <1>4, <1>6, <1>7, <1>8, CountedTally
<1>. QED BY <1>9 DEF r, b

(* A delivery more or less is a binary more or less, if it has one. *)
LEMMA OneDelivery ==
    ASSUME NEW D, IsFiniteSet(D), NEW d, d.binary \in 0..1
    PROVE  LET n(S) == Cardinality({z \in S : z.binary = 1})
           IN /\ n(D) \in Nat
              /\ d \in D => n(D) = n(D \ {d}) + d.binary
              /\ d \notin D => n(D \cup {d}) = n(D) + d.binary
<1>. DEFINE B == {z \in D : z.binary = 1}
            n == Cardinality(B)
<1>1. IsFiniteSet(B) /\ n \in Nat
  BY FS_Subset, FS_CardinalityType
<1>2. ASSUME d \in D PROVE n = Cardinality({z \in D \ {d} : z.binary = 1}) + d.binary
  <2>1. CASE d.binary = 0
    <3>1. Cardinality({z \in D \ {d} : z.binary = 1}) = n
      <4>1. {z \in D \ {d} : z.binary = 1} = B
        BY <2>1
      <4>. QED BY <4>1
    <3>. HIDE DEF n
    <3>. QED BY <1>1, <2>1, <3>1
  <2>2. CASE d.binary = 1
    <3>1. {z \in D \ {d} : z.binary = 1} = B \ {d} /\ d \in B
      BY <1>2, <2>2
    <3>. HIDE DEF B
    <3>2. Cardinality(B \ {d}) = n - 1
      BY <1>1, <3>1, FS_RemoveElement
    <3>. QED BY <1>1, <2>2, <3>1, <3>2
  <2>. QED BY <2>1, <2>2
<1>3. ASSUME d \notin D PROVE Cardinality({z \in D \cup {d} : z.binary = 1}) = n + d.binary
  <2>1. CASE d.binary = 0
    <3>1. Cardinality({z \in D \cup {d} : z.binary = 1}) = n
      <4>1. {z \in D \cup {d} : z.binary = 1} = B
        BY <2>1
      <4>. QED BY <4>1
    <3>. HIDE DEF n
    <3>. QED BY <1>1, <2>1, <3>1
  <2>2. CASE d.binary = 1
    <3>1. {z \in D \cup {d} : z.binary = 1} = B \cup {d} /\ d \notin B
      BY <1>3, <2>2
    <3>. HIDE DEF B
    <3>2. Cardinality(B \cup {d}) = n + 1
      BY <1>1, <3>1, FS_AddElement
    <3>. QED BY <1>1, <2>2, <3>1, <3>2
  <2>. QED BY <2>1, <2>2
<1>. QED BY <1>1, <1>2, <1>3

(* and so are those of a taken delivery. *)
LEMMA TakenChunkCounted ==
    ASSUME NEW s \in Bridges, NEW c \in Calls, s.queue # <<>>,
           IsFiniteSet(s.calls[c].deliveries), s.calls[c].state = "active",
           NEW d \in s.calls[c].deliveries
    PROVE  Counted(TakeChunk(s, c, d), s, c, d.binary)
<1>. DEFINE r == TakeChunk(s, c, d)
            y == s.calls[c]
            x == ChunkTaken(y, d)
            b == d.binary
            n == Cardinality({z \in y.deliveries : z.binary = 1})
            m == Cardinality({z \in y.deliveries \ {d} : z.binary = 1})
            k == y.completion.binary
<1>1. r \in Bridges /\ TakeEffect(r, s, c, x)
  BY TakeChunkFields
<1>2. /\ x.completion = y.completion /\ x.credits = y.credits
      /\ x.mode = y.mode /\ x.state = y.state /\ x.input = y.input
      /\ x.deliveries = y.deliveries \ {d}
  BY CallOfBridge, ChunkTakenFields
<1>3. b \in 0..1 /\ y.input \in Nat /\ k \in Nat
  <2>1. d \in Deliveries
    BY CallOfBridge DEF CallRecords
  <2>. QED BY <2>1, CallOfBridge DEF CallRecords, Completions, Deliveries
<1>4. n \in Nat /\ n = m + b /\ IsFiniteSet(y.deliveries \ {d})
  BY <1>3, OneDelivery, FS_RemoveElement
<1>5. m \in Nat
  BY <1>4, FS_Subset, FS_CardinalityType
<1>6. /\ Tally(y) = Tally(x) + b /\ StreamOf(x) = StreamOf(y) /\ Owed(x) = Owed(y)
  <2>2. QueuedBinaries(x) = k + m /\ QueuedBinaries(y) = k + n
    <3>. HIDE DEF x, y
    <3>. QED BY <1>2 DEF QueuedBinaries, n, m, k
  <2>3. y.state = "active" /\ x.state = "active"
    BY <1>2
  <2>4. StreamOf(x) = StreamOf(y) /\ Owed(x) = Owed(y)
    BY <1>2 DEF StreamOf, StreamHandle, Owed
  <2>5. Tally(y) = y.input + QueuedBinaries(y) /\ Tally(x) = y.input + QueuedBinaries(x)
    BY <1>2, <2>3 DEF Tally
  <2>. HIDE DEF x, y, n, m, b, k
  <2>. QED BY <1>3, <1>4, <1>5, <2>2, <2>4, <2>5
<1>. HIDE DEF r, x, n, m
<1>7. Owed(y) \in Int /\ s.credits \in Int
  BY CallOfBridge, TallyType, CounterType
<1>8. /\ SameCounters(r, s) /\ r.byToken = s.byToken /\ r.stack = s.stack
      /\ SameCalls(r, s, c) /\ r.credits = s.credits /\ r.calls[c] = x
  BY <1>1 DEF TakeEffect, SameProvider
<1>9. r.credits - s.credits = Owed(r.calls[c]) - Owed(y) /\ r.credits <= s.credits
  BY <1>6, <1>7, <1>8
<1>10. IsFiniteSet(r.calls[c].deliveries) /\ b \in Int
  <2>1. r.calls[c].deliveries = y.deliveries \ {d}
    BY <1>2, <1>8
  <2>. HIDE DEF y
  <2>. QED BY <1>3, <1>4, <2>1
<1>. HIDE DEF b
<1>11. Counted(r, s, c, b)
  BY <1>1, <1>6, <1>8, <1>9, <1>10, CountedTally
<1>. QED BY <1>11 DEF r, b

(* What is in hand after one method may be counted by the next. *)
LEMMA CountedThen ==
    ASSUME NEW s \in Bridges, NEW q, NEW r, NEW c \in Calls, NEW b \in Int,
           IsFiniteSet(s.calls[c].deliveries), Counted(q, s, c, b)
    PROVE  /\ Counted(r, q, c, 0) => Counted(r, s, c, b)
           /\ Counted(r, q, c, 0 - b) => Counted(r, s, c, 0)
<1>1. b + 0 = b /\ b + (0 - b) = 0 /\ 0 - b \in Int /\ 0 \in Int
  OBVIOUS
<1>2. Counted(r, q, c, 0) => Counted(r, s, c, b + 0)
  BY <1>1, CountedTrans
<1>3. Counted(r, q, c, 0 - b) => Counted(r, s, c, b + (0 - b))
  BY <1>1, CountedTrans
<1>. QED BY <1>1, <1>2, <1>3

(* The next part of a handler starts from where the last one got. *)
LEMMA CountedFacts ==
    ASSUME NEW s, NEW r, NEW c, NEW b, Counted(r, s, c, b)
    PROVE  r \in Bridges /\ IsFiniteSet(r.calls[c].deliveries)
BY DEF Counted

(* A call in order has finitely many deliveries. *)
LEMMA FiniteDeliveries ==
    ASSUME NEW s \in Bridges, ControlOk(s), NEW c \in Calls
    PROVE  IsFiniteSet(s.calls[c].deliveries)
BY CallOfBridge, DeliveriesFinite DEF ControlOk

(* A reserved resource is known by its token. *)
ReservedKnown(s) ==
    \A t \in Tokens : s.resources[t].status = "reserved" => t \in s.byToken

(* A reserved grant is known to the bridge. *)
LEMMA TokensKnown ==
    ASSUME NEW s, NEW c, NEW H, TokensOk(s, c, H)
    PROVE  ReservedKnown(s)
BY TokenFacts DEF ReservedKnown

(* The methods that settle or fail a call *)
LEMMA SettleKnown ==
    ASSUME NEW s \in Bridges, NEW c \in Calls, IsFiniteSet(s.calls[c].deliveries),
           s.calls[c].state = "active", ReservedKnown(s), NEW outcome \in Outcomes
    PROVE  Counted(Settle(s, c, outcome), s, c, 0)
<1>1. QueuedGrants(s.calls[c]) \cap {t \in Tokens : s.resources[t].status = "reserved"}
          \subseteq s.byToken
  BY DEF ReservedKnown
<1>. QED BY <1>1, SettleCounted

(* Abort counts what it gives back. *)
LEMMA AbortCounted ==
    ASSUME NEW s \in Bridges, NEW c \in Calls, IsFiniteSet(s.calls[c].deliveries),
           s.calls[c].state = "active", ReservedKnown(s)
    PROVE  Counted(Abort(s, c), s, c, 0)
<1>. DEFINE q == Settle(s, c, "failure")
            r == CancelProvider(q, c)
<1>1. Counted(q, s, c, 0)
  BY SettleKnown DEF Outcomes
<1>. HIDE DEF q
<1>2. Counted(r, q, c, 0)
  BY <1>1, CountedFacts, CancelCounted
<1>. HIDE DEF r
<1>3. Counted(r, s, c, 0)
  BY <1>1, <1>2, CountedThen
<1>. QED BY <1>3 DEF Abort, q, r

(* A terminal without a binary *)
LEMMA LockNothing ==
    ASSUME NEW s \in Bridges, NEW c \in Calls, IsFiniteSet(s.calls[c].deliveries),
           s.calls[c].state = "active", s.calls[c].completion = NoCompletion,
           NEW completion \in Completions, completion.binary = 0
    PROVE  Counted(LockTerminal(s, c, completion), s, c, 0)
<1>1. Counted(LockTerminal(s, c, completion), s, c, 0 - completion.binary)
  BY LockCounted
<1>2. 0 - completion.binary = 0
  OBVIOUS
<1>. QED BY <1>1, <1>2

(* FailProvider gives back the credits of the call. *)
LEMMA FailCounted ==
    ASSUME NEW s \in Bridges, NEW c \in Calls, IsFiniteSet(s.calls[c].deliveries)
    PROVE  Counted(FailProvider(s, c), s, c, 0)
<1>. DEFINE p == LockTerminal(s, c, FailureCompletion)
            q == CancelProvider(p, c)
            r == ScheduleTerminal(q, c)
<1>1. CASE IsCurrent(s, c) /\ ~Locked(s, c)
  <2>1. Counted(p, s, c, 0)
    <3>1. FailureCompletion \in Completions /\ FailureCompletion.binary = 0
      BY FailureOk DEF FailureIsCompletion, FailureCompletion
    <3>. QED BY <1>1, <3>1, LockNothing DEF IsCurrent, Locked
  <2>. HIDE DEF p
  <2>2. Counted(q, p, c, 0)
    BY <2>1, CountedFacts, CancelCounted
  <2>. HIDE DEF q
  <2>3. Counted(r, q, c, 0)
    BY <2>2, CountedFacts, ScheduleCounted
  <2>. HIDE DEF r
  <2>4. Counted(q, s, c, 0)
    BY <2>1, <2>2, CountedThen
  <2>5. Counted(r, s, c, 0)
    BY <2>3, <2>4, CountedThen
  <2>. QED BY <1>1, <2>5 DEF FailProvider, p, q, r
<1>2. CASE ~(IsCurrent(s, c) /\ ~Locked(s, c))
  <2>1. FailProvider(s, c) = s
    BY <1>2 DEF FailProvider
  <2>2. Counted(s, s, c, 0)
    BY CountedSame, SameCoreRefl DEF SameCounters, OtherCores, SameTally
  <2>. QED BY <2>1, <2>2
<1>. QED BY <1>1, <1>2

(* Events of the provider *)
LEMMA ErrorCounted ==
    ASSUME NEW s \in Bridges, NEW c \in Calls, IsFiniteSet(s.calls[c].deliveries),
           s.calls[c].state = "active", s.calls[c].completion = NoCompletion
    PROVE  Counted(ScheduleTerminal(LockTerminal(s, c, ErrorCompletion), c), s, c, 0)
<1>. DEFINE q == LockTerminal(s, c, ErrorCompletion)
            r == ScheduleTerminal(q, c)
<1>1. Counted(q, s, c, 0)
  <2>1. ErrorCompletion \in Completions /\ ErrorCompletion.binary = 0
    BY DEF ErrorCompletion, Completions
  <2>. QED BY <2>1, LockNothing
<1>. HIDE DEF q
<1>2. Counted(r, q, c, 0)
  BY <1>1, CountedFacts, ScheduleCounted
<1>. HIDE DEF r
<1>3. Counted(r, s, c, 0)
  BY <1>1, <1>2, CountedThen
<1>. QED BY <1>3 DEF q, r

(* A frame of a call counts nothing. *)
LEMMA PushCounted ==
    ASSUME NEW s \in Bridges, NEW c \in Calls, IsFiniteSet(s.calls[c].deliveries)
    PROVE  Counted(Push(s, c), s, c, 0)
<1>. DEFINE r == Push(s, c)
            st == s.stack
<1>1. c \in 0..MaxCalls /\ c # Termination
  BY Constants
<1>2. /\ r \in Bridges /\ SameLoop(r, s) /\ SameProvider(r, s) /\ SameCounters(r, s)
      /\ r.stack = Append(st, c)
  BY <1>1, PushFields
<1>3. st \in Seq(0..MaxCalls)
  BY DEF Bridges
<1>. HIDE DEF r, st
<1>4. OnStack(r, Termination) <=> OnStack(s, Termination)
  <2>. DEFINE F == 0..MaxCalls
  <2>1. st \in Seq(F) /\ c \in F
    BY <1>1, <1>3
  <2>. HIDE DEF F
  <2>2. /\ Len(Append(st, c)) = Len(st) + 1 /\ Len(st) \in Nat
        /\ \A i \in 1..Len(st) : Append(st, c)[i] = st[i]
        /\ Append(st, c)[Len(st) + 1] = c
    BY <2>1
  <2>3. \A i \in 1..(Len(st) + 1) : i \in 1..Len(st) \/ i = Len(st) + 1
    BY <2>2
  <2>4. \A i \in 1..Len(st) : i \in 1..(Len(st) + 1)
    BY <2>2
  <2>5. (\E i \in 1..Len(Append(st, c)) : Append(st, c)[i] = Termination)
            <=> (\E i \in 1..Len(st) : st[i] = Termination)
    BY <1>1, <2>2, <2>3, <2>4
  <2>. QED BY <1>2, <2>5 DEF OnStack, st
<1>5. Counted(r, s, c, 0)
  BY <1>2, <1>4, CountedSame, SameCoreRefl
     DEF SameLoop, SameProvider, OtherCores, SameTally
<1>. QED BY <1>5 DEF r

(* An event during the cleanup of its call *)
LEMMA ReentrantCounted ==
    ASSUME NEW s \in Bridges, NEW c \in Calls, IsFiniteSet(s.calls[c].deliveries),
           NEW T \in SUBSET Tokens
    PROVE  Counted(CloseUndeliveredGrants(Grant(s, c, T), c, T), s, c, 0)
<1>. DEFINE q == Grant(s, c, T)
            r == CloseUndeliveredGrants(q, c, T)
<1>1. Counted(q, s, c, 0)
  BY GrantCounted
<1>. HIDE DEF q
<1>2. Counted(r, q, c, 0)
  BY <1>1, CountedFacts, CloseUndeliveredCounted
<1>. HIDE DEF r
<1>3. Counted(r, s, c, 0)
  BY <1>1, <1>2, CountedThen
<1>. QED BY <1>3 DEF q, r

(* An event that fails its call *)
LEMMA FailUndeliveredCounted ==
    ASSUME NEW s \in Bridges, NEW c \in Calls, IsFiniteSet(s.calls[c].deliveries),
           s.calls[c].state = "active", s.calls[c].completion = NoCompletion,
           NEW T \in SUBSET Tokens
    PROVE  Counted(FailProviderWithUndelivered(Grant(s, c, T), c, T), s, c, 0)
<1>. DEFINE o == Grant(s, c, T)
            p == LockTerminal(o, c, FailureCompletion)
            q == Push(p, c)
            r == CloseUndeliveredGrants(q, c, T)
<1>1. Counted(o, s, c, 0) /\ o.calls = s.calls
  BY GrantCounted, GrantFields DEF SameLoop
<1>. HIDE DEF o
<1>2. Counted(p, o, c, 0)
  <2>1. FailureCompletion \in Completions /\ FailureCompletion.binary = 0
    BY FailureOk DEF FailureIsCompletion, FailureCompletion
  <2>. QED BY <1>1, <2>1, CountedFacts, LockNothing
<1>. HIDE DEF p
<1>3. Counted(q, p, c, 0)
  BY <1>2, CountedFacts, PushCounted
<1>. HIDE DEF q
<1>4. Counted(r, q, c, 0)
  BY <1>3, CountedFacts, CloseUndeliveredCounted
<1>. HIDE DEF r
<1>5. Counted(p, s, c, 0)
  BY <1>1, <1>2, CountedThen
<1>6. Counted(q, s, c, 0)
  BY <1>3, <1>5, CountedThen
<1>7. Counted(r, s, c, 0)
  BY <1>4, <1>6, CountedThen
<1>. QED BY <1>7 DEF FailProviderWithUndelivered, o, p, q, r

(* What an event lists afresh fits when it fits before the provider holds  *)
(* it for the call.                                                        *)
LEMMA GrantedCounted ==
    ASSUME NEW s \in Bridges, NEW c \in Calls, IsFiniteSet(s.calls[c].deliveries),
           NEW T \in SUBSET Tokens, NEW b \in 0..1, Fits(s, T, b), T \cap s.byToken = {}
    PROVE  LET q == ReserveOutput(Grant(s, c, T), c, T, b)
           IN Counted(q, s, c, b) /\ q.calls = s.calls
<1>. DEFINE p == Grant(s, c, T)
            q == ReserveOutput(p, c, T, b)
<1>1. /\ Counted(p, s, c, 0) /\ p.calls = s.calls /\ p.byToken = s.byToken
      /\ Fits(p, T, b)
  BY GrantCounted, GrantFields DEF SameLoop, SameCounters, Fits
<1>. HIDE DEF p
<1>2. Counted(q, p, c, b)
  BY <1>1, CountedFacts, ReserveCounted
<1>3. q.calls = p.calls
  BY <1>1, CountedFacts, ReserveFields DEF ReserveEffect, SameLoop
<1>. HIDE DEF q
<1>4. Counted(q, s, c, 0 + b) /\ 0 + b = b
  BY <1>1, <1>2, CountedTrans
<1>. QED BY <1>1, <1>3, <1>4 DEF p, q

(* A terminal event counts its output. *)
LEMMA ReservedTerminalCounted ==
    ASSUME NEW s \in Bridges, NEW c \in Calls, IsFiniteSet(s.calls[c].deliveries),
           s.calls[c].state = "active", s.calls[c].completion = NoCompletion,
           NEW T \in SUBSET Tokens, NEW b \in 0..1, Fits(s, T, b), T \cap s.byToken = {}
    PROVE  LET q == ReserveOutput(Grant(s, c, T), c, T, b)
               completion == [kind |-> "output", binary |-> b, grants |-> T]
           IN Counted(ScheduleTerminal(LockTerminal(q, c, completion), c), s, c, 0)
<1>. DEFINE q == ReserveOutput(Grant(s, c, T), c, T, b)
            completion == [kind |-> "output", binary |-> b, grants |-> T]
            p == LockTerminal(q, c, completion)
            r == ScheduleTerminal(p, c)
<1>1. Counted(q, s, c, b) /\ q.calls = s.calls
  BY GrantedCounted
<1>2. completion \in Completions /\ completion.binary = b /\ b \in Int
  BY DEF Completions
<1>. HIDE DEF q, completion
<1>3. Counted(p, q, c, 0 - b)
  <2>1. Counted(p, q, c, 0 - completion.binary)
    BY <1>1, <1>2, CountedFacts, LockCounted
  <2>. QED BY <1>2, <2>1
<1>. HIDE DEF p
<1>4. Counted(r, p, c, 0)
  BY <1>3, CountedFacts, ScheduleCounted
<1>. HIDE DEF r
<1>5. Counted(p, s, c, 0)
  BY <1>1, <1>2, <1>3, CountedThen
<1>6. Counted(r, s, c, 0)
  BY <1>4, <1>5, CountedThen
<1>. QED BY <1>6 DEF p, q, r, completion

(* An accepted chunk retains its binary, for the credit of its reader. *)
LEMMA AssignedCounted ==
    ASSUME NEW q \in Bridges, NEW c \in Calls, IsFiniteSet(q.calls[c].deliveries),
           q.calls[c].state = "active", AnswersInOrder(q.calls[c]),
           q.calls[c].credits > 0,
           NEW i \in Nat, NEW b \in 0..1, NEW T \in SUBSET Tokens,
           FirstWaiting(q.calls[c], i)
    PROVE  LET r == AfterChunk(q, c, AssignedCall(q.calls[c], i, b, T),
                               q.calls[c].nextSequence)
           IN Counted(r, q, c, 0 - b)
<1>. DEFINE y == q.calls[c]
            x == AssignedCall(y, i, b, T)
            k == y.nextSequence
            r == AfterChunk(q, c, x, k)
            d == Delivery(k, i, b, T)
            n == Cardinality({z \in y.deliveries : z.binary = 1})
            m == Cardinality({z \in y.deliveries \cup {d} : z.binary = 1})
            o == y.completion.binary
<1>1. y \in CallRecords /\ k \in Nat /\ y.input \in Nat /\ y.credits \in Nat /\ o \in Nat
  BY CallOfBridge DEF CallRecords, Completions
<1>2. x \in CallRecords /\ AssignedEffect(x, y, i, b, T)
  <2>1. y.credits > 0 /\ i \in 1..Len(y.readers)
    BY DEF FirstWaiting
  <2>. HIDE DEF y
  <2>. QED BY <1>1, <2>1, AssignedFields
<1>. HIDE DEF x
<1>3. r \in Bridges /\ ChunkEffect(r, q, c, x, k)
  BY <1>1, <1>2, ChunkFields
<1>. HIDE DEF r
<1>4. d \notin y.deliveries /\ d.binary = b
  <2>1. d.sequence = k /\ d.binary = b
    BY DEF Delivery
  <2>2. \A z \in y.deliveries : z.sequence \in Nat /\ z.sequence < k
    BY <1>1 DEF AnswersInOrder, CallRecords, Deliveries
  <2>. HIDE DEF d, y, k
  <2>. QED BY <1>1, <2>1, <2>2
<1>. HIDE DEF d
<1>5. n \in Nat /\ m = n + b /\ IsFiniteSet(y.deliveries \cup {d})
  BY <1>4, OneDelivery, FS_AddElement
<1>6. /\ x.credits = y.credits - 1
      /\ x.mode = y.mode /\ x.state = y.state /\ x.input = y.input
      /\ x.completion = y.completion /\ x.deliveries = y.deliveries \cup {d}
  BY <1>2 DEF AssignedEffect, d
<1>7. /\ Tally(y) = Tally(x) + (0 - b) /\ StreamOf(x) = StreamOf(y)
      /\ Owed(x) = Owed(y) - 1 /\ Owed(y) \in Nat
  <2>1. QueuedBinaries(x) = o + m /\ QueuedBinaries(y) = o + n
    <3>. HIDE DEF y
    <3>. QED BY <1>6 DEF QueuedBinaries, n, m, o
  <2>2. y.state = "active" /\ x.state = "active"
    BY <1>6
  <2>3. StreamOf(x) = StreamOf(y) /\ Owed(x) = y.credits - 1 /\ Owed(y) = y.credits
    BY <1>6 DEF StreamOf, StreamHandle, Owed
  <2>4. Tally(y) = y.input + QueuedBinaries(y) /\ Tally(x) = y.input + QueuedBinaries(x)
    BY <1>6, <2>2 DEF Tally
  <2>. HIDE DEF y, n, m, o
  <2>. QED BY <1>1, <1>5, <2>1, <2>3, <2>4
<1>. HIDE DEF n, m, o
<1>8. /\ SameCounters(r, q) /\ r.byToken = q.byToken /\ r.stack = q.stack
      /\ SameCalls(r, q, c) /\ r.credits = q.credits - 1 /\ r.calls[c] = x
  BY <1>3 DEF ChunkEffect, SameProvider
<1>9. q.credits \in Int
  BY CounterType
<1>. HIDE DEF y
<1>10. r.credits - q.credits = Owed(r.calls[c]) - Owed(y) /\ r.credits <= q.credits
  BY <1>7, <1>8, <1>9
<1>11. IsFiniteSet(r.calls[c].deliveries) /\ 0 - b \in Int
  <2>1. r.calls[c].deliveries = y.deliveries \cup {d}
    BY <1>6, <1>8
  <2>. QED BY <1>5, <2>1
<1>12. Counted(r, q, c, 0 - b)
  BY <1>3, <1>7, <1>8, <1>10, <1>11, CountedTally DEF y
<1>. QED BY <1>12 DEF r, x, y

(* A chunk event counts its output, and takes one credit. *)
LEMMA ChunkCounted ==
    ASSUME NEW s \in Bridges, NEW c \in Calls, ControlOk(s), s.calls[c].state = "active",
           s.calls[c].credits > 0, NEW i \in Nat, FirstWaiting(s.calls[c], i),
           NEW T \in SUBSET Tokens, NEW b \in 0..1, Fits(s, T, b), T \cap s.byToken = {}
    PROVE  LET q == ReserveOutput(Grant(s, c, T), c, T, b)
               x == AssignedCall(s.calls[c], i, b, T)
           IN Counted(AfterChunk(q, c, x, s.calls[c].nextSequence), s, c, 0)
<1>. DEFINE q == ReserveOutput(Grant(s, c, T), c, T, b)
            r == AfterChunk(q, c, AssignedCall(q.calls[c], i, b, T), q.calls[c].nextSequence)
<1>1. IsFiniteSet(s.calls[c].deliveries) /\ AnswersInOrder(s.calls[c]) /\ b \in Int
  BY FiniteDeliveries DEF ControlOk, CallOk, StreamInOrder
<1>2. Counted(q, s, c, b) /\ q.calls = s.calls
  BY <1>1, GrantedCounted
<1>. HIDE DEF q
<1>3. Counted(r, q, c, 0 - b)
  BY <1>1, <1>2, CountedFacts, AssignedCounted
<1>. HIDE DEF r
<1>4. Counted(r, s, c, 0)
  BY <1>1, <1>2, <1>3, CountedThen
<1>. QED BY <1>2, <1>4 DEF q, r

(* What a task hands over leaves no reserved resource unknown. *)
LEMMA ReleaseKnown ==
    ASSUME NEW q, NEW p, NEW c, NEW G, NEW n, ReservedKnown(q),
           Leaves(p, q, Lost(q, G), n, 0)
    PROVE  ReservedKnown(p)
<1>. SUFFICES ASSUME NEW t \in Tokens, p.resources[t].status = "reserved"
              PROVE  t \in p.byToken
  BY DEF ReservedKnown
<1>1. t \notin Lost(q, G) /\ q.resources[t].status = "reserved"
  BY DEF Leaves
<1>. QED BY <1>1 DEF Leaves, ReservedKnown

(* Opening grants leaves no reserved grant unknown. *)
LEMMA DeliverKnown ==
    ASSUME NEW q, NEW p, NEW T, NEW b, ReservedKnown(q), DeliverEffect(p, q, T, b)
    PROVE  ReservedKnown(p)
<1>. SUFFICES ASSUME NEW t \in Tokens, p.resources[t].status = "reserved"
              PROVE  t \in p.byToken
  BY DEF ReservedKnown
<1>1. t \notin T /\ q.resources[t].status = "reserved"
  BY DEF DeliverEffect
<1>. QED BY <1>1 DEF DeliverEffect, ReservedKnown

(* deliverTerminal gives back the binaries of the completion. *)
LEMMA DeliverTerminalCounted ==
    ASSUME NEW s \in Bridges, NEW c \in Calls, ControlOk(s), TokensOk(s, c, {}),
           s.queue # <<>>, Head(s.queue) = Terminal(c)
    PROVE  LET q == TakeTerminal(s, c)
               done == s.calls[c].completion
           IN /\ done.kind \in Errors => Counted(Settle(q, c, done.kind), s, c, 0)
              /\ \A end \in {"result", "end"} :
                     Counted(Settle(DeliverOutput(q, done.grants, done.binary), c, end), s, c, 0)
              /\ Counted(Abort(ReleaseOutput(q, c, done.grants, done.binary), c), s, c, 0)
<1>. DEFINE q == TakeTerminal(s, c)
            done == s.calls[c].completion
            T == done.grants
            b == done.binary
<1>1. /\ T \in SUBSET Tokens /\ b \in 0..1 /\ b \in Int /\ b \in Nat
      /\ (done.kind # "output" => b = 0)
  <2>1. s.calls[c] \in CallRecords /\ CompletionOk(done)
    BY CallOfBridge DEF ControlOk, CallOk
  <2>. QED BY <2>1 DEF CallRecords, Completions, CompletionOk
<1>2. IsFiniteSet(s.calls[c].deliveries) /\ s.calls[c].state = "active"
  BY FiniteDeliveries, TerminalIsLast
<1>3. Counted(q, s, c, b)
  BY <1>2, TakenCounted
<1>4. q.calls[c].state = "active" /\ ReservedKnown(q)
  <2>1. Taken(q, s, c)
    BY TakeTerminalStep
  <2>2. SameProvider(q, s)
    BY TakeTerminalFields DEF TakeEffect
  <2>. QED BY <2>1, <2>2, TokensKnown DEF Taken, SameProvider, ReservedKnown
<1>5. Errors \subseteq Outcomes /\ {"result", "end"} \subseteq Outcomes
  BY DEF Errors, Outcomes
<1>6. ASSUME done.kind \in Errors
      PROVE  Counted(Settle(q, c, done.kind), s, c, 0)
  <2>1. b = 0
    BY <1>1, <1>6 DEF Errors
  <2>. HIDE DEF q, b, done
  <2>2. Counted(Settle(q, c, done.kind), q, c, 0)
    BY <1>3, <1>4, <1>5, <1>6, CountedFacts, SettleKnown
  <2>3. Counted(q, s, c, 0)
    BY <1>3, <2>1
  <2>. QED BY <1>2, <2>2, <2>3, CountedThen
<1>. HIDE DEF q, done, T, b
<1>7. ASSUME NEW end \in {"result", "end"}
      PROVE  Counted(Settle(DeliverOutput(q, T, b), c, end), s, c, 0)
  <2>. DEFINE p == DeliverOutput(q, T, b)
              r == Settle(p, c, end)
  <2>1. Counted(p, q, c, 0 - b) /\ DeliverEffect(p, q, T, b)
    BY <1>1, <1>3, CountedFacts, DeliverCounted, DeliverFields
  <2>. HIDE DEF p
  <2>2. p.calls[c].state = "active" /\ ReservedKnown(p)
    <3>1. p.calls = q.calls
      BY <2>1 DEF DeliverEffect, SameLoop
    <3>2. ReservedKnown(p)
      BY <1>4, <2>1, DeliverKnown
    <3>. QED BY <1>4, <3>1, <3>2
  <2>3. Counted(r, p, c, 0)
    BY <1>5, <2>1, <2>2, CountedFacts, SettleKnown
  <2>. HIDE DEF r
  <2>4. Counted(p, s, c, 0)
    BY <1>1, <1>2, <1>3, <2>1, CountedThen
  <2>5. Counted(r, s, c, 0)
    BY <1>2, <2>3, <2>4, CountedThen
  <2>. QED BY <2>5 DEF r, p
<1>8. Counted(Abort(ReleaseOutput(q, c, T, b), c), s, c, 0)
  <2>. DEFINE p == ReleaseOutput(q, c, T, b)
              r == Abort(p, c)
  <2>1. Counted(p, q, c, 0 - b)
    BY <1>1, <1>3, <1>4, CountedFacts, ReleaseCounted DEF ReservedKnown
  <2>2. Leaves(p, q, Lost(q, T), b, 0) /\ ClosesUp(p, q, c, GivenBack(q, c, T))
    BY <1>1, <1>3, CountedFacts, ReleaseFields
  <2>. HIDE DEF p
  <2>3. p.calls[c].state = "active" /\ ReservedKnown(p)
    BY <1>4, <2>2, ReleaseKnown DEF ClosesUp, SameCore
  <2>4. Counted(r, p, c, 0)
    BY <2>1, <2>3, CountedFacts, AbortCounted
  <2>. HIDE DEF r
  <2>5. Counted(p, s, c, 0)
    BY <1>1, <1>2, <1>3, <2>1, CountedThen
  <2>6. Counted(r, s, c, 0)
    BY <1>2, <2>4, <2>5, CountedThen
  <2>. QED BY <2>6 DEF r, p
<1>. QED BY <1>6, <1>7, <1>8 DEF q, done, T, b

(* Answering a reader counts nothing. *)
LEMMA AnswerCounted ==
    ASSUME NEW s \in Bridges, NEW q \in Bridges, NEW c \in Calls, ControlOk(s),
           NEW d \in s.calls[c].deliveries, s.calls[c].state = "active",
           SameCore(q.calls[c], ChunkTaken(s.calls[c], d)), NEW a \in {"chunk", "error"},
           IsFiniteSet(q.calls[c].deliveries)
    PROVE  Counted(AnswerReader(q, c, d, a), q, c, 0)
<1>. DEFINE y == s.calls[c]
            z == q.calls[c]
            x == ReaderAnswered(z, d, a)
            r == AnswerReader(q, c, d, a)
<1>1. y \in CallRecords /\ z \in CallRecords /\ a \in ReaderStates
  BY CallOfBridge DEF ReaderStates
<1>2. d.reader \in 1..Len(y.readers)
  <2>1. AnswersInOrder(y)
    BY DEF ControlOk, CallOk, StreamInOrder
  <2>2. d.reader = d.sequence + 1 /\ d.sequence < y.nextSequence /\ y.nextSequence <= Len(y.readers)
    BY <2>1 DEF AnswersInOrder
  <2>3. d.sequence \in Nat /\ y.nextSequence \in Nat /\ Len(y.readers) \in Nat
    BY <1>1, CallOfBridge DEF CallRecords, Deliveries
  <2>. HIDE DEF y
  <2>. QED BY <2>2, <2>3
<1>3. x \in CallRecords /\ AnsweredEffect(x, y, d, a)
  <2>. HIDE DEF z
  <2>. QED BY <1>1, <1>2, ReaderAnsweredFields DEF z
<1>4. r \in Bridges /\ AnswerEffect(r, q, c, x)
  BY <1>3, AnswerReaderFields
<1>. HIDE DEF r, x
<1>5. SameTally(x, z) /\ x.credits = z.credits
  <2>1. /\ z.state = y.state /\ z.mode = y.mode /\ z.input = y.input
        /\ z.completion = y.completion /\ z.deliveries = y.deliveries \ {d}
        /\ z.credits = y.credits
    BY <1>1, ChunkTakenFields DEF SameCore
  <2>. HIDE DEF y, z
  <2>. QED BY <1>3, <2>1 DEF SameTally, AnsweredEffect
<1>6. Counted(r, q, c, 0)
  <2>1. /\ SameCounters(r, q) /\ r.byToken = q.byToken /\ r.credits = q.credits
        /\ r.stack = q.stack /\ SameCalls(r, q, c) /\ r.calls[c] = x
    BY <1>4 DEF AnswerEffect, SameProvider
  <2>. QED BY <1>4, <1>5, <2>1, OtherCalls, CountedSame DEF OnStack
<1>. QED BY <1>6 DEF r

(* deliverChunk gives back the binaries of the delivery. *)
LEMMA DeliverChunkCounted ==
    ASSUME NEW s \in Bridges, NEW c \in Calls, ControlOk(s), TokensOk(s, c, {}),
           s.queue # <<>>, NEW k, Head(s.queue) = Chunk(c, k),
           NEW d \in s.calls[c].deliveries
    PROVE  LET q == TakeChunk(s, c, d)
           IN /\ Counted(AnswerReader(DeliverOutput(q, d.grants, d.binary), c, d, "chunk"),
                         s, c, 0)
              /\ Counted(FailProvider(
                     AnswerReader(ReleaseOutput(q, c, d.grants, d.binary), c, d, "error"), c),
                     s, c, 0)
<1>. DEFINE q == TakeChunk(s, c, d)
            T == d.grants
            b == d.binary
            x == ChunkTaken(s.calls[c], d)
<1>1. T \in SUBSET Tokens /\ b \in 0..1 /\ b \in Int /\ b \in Nat
  <2>1. d \in Deliveries
    BY CallOfBridge DEF CallRecords
  <2>. QED BY <2>1 DEF Deliveries
<1>2. IsFiniteSet(s.calls[c].deliveries) /\ s.calls[c].state = "active"
  BY FiniteDeliveries, ChunkIsNext
<1>3. Counted(q, s, c, b)
  BY <1>2, TakenChunkCounted
<1>4. q.calls[c] = x /\ ReservedKnown(q)
  BY TakeChunkFields, TokensKnown DEF TakeEffect, SameProvider, ReservedKnown
<1>. HIDE DEF q, T, b, x
<1>5. Counted(AnswerReader(DeliverOutput(q, T, b), c, d, "chunk"), s, c, 0)
  <2>. DEFINE p == DeliverOutput(q, T, b)
              r == AnswerReader(p, c, d, "chunk")
  <2>1. Counted(p, q, c, 0 - b) /\ DeliverEffect(p, q, T, b)
    BY <1>1, <1>3, CountedFacts, DeliverCounted, DeliverFields
  <2>. HIDE DEF p
  <2>2. SameCore(p.calls[c], x)
    BY <1>4, <2>1, SameCoreRefl DEF DeliverEffect, SameLoop
  <2>3. Counted(r, p, c, 0)
    BY <1>2, <2>1, <2>2, CountedFacts, AnswerCounted DEF x
  <2>. HIDE DEF r
  <2>4. Counted(p, s, c, 0)
    BY <1>1, <1>2, <1>3, <2>1, CountedThen
  <2>5. Counted(r, s, c, 0)
    BY <1>2, <2>3, <2>4, CountedThen
  <2>. QED BY <2>5 DEF r, p
<1>6. Counted(FailProvider(AnswerReader(ReleaseOutput(q, c, T, b), c, d, "error"), c), s, c, 0)
  <2>. DEFINE p == ReleaseOutput(q, c, T, b)
              o == AnswerReader(p, c, d, "error")
              r == FailProvider(o, c)
  <2>1. Counted(p, q, c, 0 - b)
    BY <1>1, <1>3, <1>4, CountedFacts, ReleaseCounted DEF ReservedKnown
  <2>2. ClosesUp(p, q, c, GivenBack(q, c, T))
    BY <1>1, <1>3, CountedFacts, ReleaseFields
  <2>. HIDE DEF p
  <2>3. SameCore(p.calls[c], x)
    BY <1>4, <2>2 DEF ClosesUp
  <2>4. Counted(o, p, c, 0)
    BY <1>2, <2>1, <2>3, CountedFacts, AnswerCounted DEF x
  <2>. HIDE DEF o
  <2>5. Counted(r, o, c, 0)
    BY <2>4, CountedFacts, FailCounted
  <2>. HIDE DEF r
  <2>6. Counted(p, s, c, 0)
    BY <1>1, <1>2, <1>3, <2>1, CountedThen
  <2>7. Counted(o, s, c, 0)
    BY <1>2, <2>4, <2>6, CountedThen
  <2>8. Counted(r, s, c, 0)
    BY <1>2, <2>5, <2>7, CountedThen
  <2>. QED BY <2>8 DEF r, o, p
<1>. QED BY <1>5, <1>6 DEF q, T, b

(* Revocations, the cleanup of a call and the end of a resource *)
LEMMA DropCounted ==
    ASSUME NEW s \in Bridges, NEW c \in Calls, IsFiniteSet(s.calls[c].deliveries),
           s.queue # <<>>, NEW t \in s.byToken
    PROVE  /\ Counted(Dequeue(s), s, c, 0)
           /\ Counted(Drop(Dequeue(s), {t}, "closed"), s, c, 0)
<1>. DEFINE q == Dequeue(s)
            r == Drop(q, {t}, "closed")
<1>1. t \in Tokens
  BY DEF Bridges
<1>2. /\ q \in Bridges /\ q.stack = s.stack /\ SameProvider(q, s) /\ SameCounters(q, s)
      /\ q.credits = s.credits /\ q.calls = s.calls
  BY DequeueFields
<1>. HIDE DEF q
<1>3. Counted(q, s, c, 0)
  BY <1>2, CountedSame, SameCoreRefl DEF SameProvider, OtherCores, SameTally, OnStack
<1>4. /\ r \in Bridges /\ r.calls = q.calls /\ r.stack = q.stack /\ r.credits = q.credits
      /\ Leaves(r, q, {t}, 0, 0)
  <2>1. {t} \in SUBSET Tokens
    BY <1>1
  <2>2. /\ r \in Bridges /\ r.calls = q.calls /\ r.stack = q.stack /\ r.credits = q.credits
        /\ r.inFlight = q.inFlight /\ r.byToken = q.byToken \ {t}
        /\ r.openHandles = q.openHandles - Cardinality({t})
        /\ r.openResources = q.openResources - Cardinality({t})
        /\ \A u \in Tokens :
              /\ r.resources[u].call = q.resources[u].call
              /\ r.resources[u].revokeQueued = q.resources[u].revokeQueued
              /\ r.resources[u].status = IF u \in {t} THEN "closed"
                                         ELSE q.resources[u].status
    BY <1>2, <2>1, DropFields
  <2>3. q.inFlight \in Int /\ q.openHandles \in Int /\ Cardinality({t}) \in Nat
    BY <1>2, <2>1, CounterType, TokensFinite
  <2>. HIDE DEF r
  <2>4. /\ r.inFlight = q.inFlight - 0
        /\ r.openHandles = q.openHandles - Cardinality({t}) - 0 - 0
    BY <2>2, <2>3
  <2>. QED BY <2>2, <2>4 DEF Leaves
<1>. HIDE DEF r
<1>5. {t} \in SUBSET Tokens /\ {t} \subseteq q.byToken
  BY <1>1, <1>2 DEF SameProvider
<1>6. Counted(r, q, c, 0 - 0)
  BY <1>2, <1>4, <1>5, LeavesCounted, SameCoreRefl
<1>7. 0 - 0 = 0
  OBVIOUS
<1>8. Counted(r, s, c, 0)
  BY <1>3, <1>6, <1>7, CountedThen
<1>. QED BY <1>3, <1>8 DEF q, r

(* Taking a task counts nothing. *)
LEMMA DequeueCounted ==
    ASSUME NEW s \in Bridges, NEW c \in Calls, IsFiniteSet(s.calls[c].deliveries),
           s.queue # <<>>
    PROVE  Counted(Dequeue(s), s, c, 0)
<1>. DEFINE q == Dequeue(s)
<1>1. /\ q \in Bridges /\ q.stack = s.stack /\ SameProvider(q, s) /\ SameCounters(q, s)
      /\ q.credits = s.credits /\ q.calls = s.calls
  BY DequeueFields
<1>. HIDE DEF q
<1>2. Counted(q, s, c, 0)
  BY <1>1, CountedSame, SameCoreRefl DEF SameProvider, OtherCores, SameTally, OnStack
<1>. QED BY <1>2 DEF q

(* CloseResource gives back one resource. *)
LEMMA CloseResourceCounted ==
    ASSUME NEW s \in Bridges, NEW c \in Calls, IsFiniteSet(s.calls[c].deliveries),
           NEW t \in Tokens, t \in s.byToken, s.resources[t].status = "open",
           s.resources[t].call \in Calls
    PROVE  Counted(CloseResource(s, t, TRUE), s, c, 0)
<1>. DEFINE r == CloseResource(s, t, TRUE)
<1>1. r \in Bridges /\ SameLoop(r, s) /\ r.stack = s.stack /\ Leaves(r, s, {t}, 0, 0)
  BY CloseResourceFields
<1>. HIDE DEF r
<1>2. Counted(r, s, c, 0 - 0)
  BY <1>1, LeavesCounted, SameCoreRefl DEF SameLoop
<1>3. 0 - 0 = 0
  OBVIOUS
<1>. QED BY <1>2, <1>3 DEF r

(* A close of a cleanup counts nothing: it was counted before. *)
LEMMA CleanedCounted ==
    ASSUME NEW s \in Bridges, NEW c \in Calls, IsFiniteSet(s.calls[c].deliveries),
           NEW t \in Tokens
    PROVE  Counted(AfterClose(s, c, t), s, c, 0)
<1>. DEFINE r == AfterClose(s, c, t)
<1>1. /\ r \in Bridges /\ r.stack = s.stack /\ r.credits = s.credits
      /\ SameCounters(r, s) /\ r.byToken = s.byToken
      /\ SameCalls(r, s, c) /\ SameCore(r.calls[c], s.calls[c])
  BY CloseNextFields
<1>. HIDE DEF r
<1>2. Counted(r, s, c, 0)
  BY <1>1, OtherCalls, CountedSame DEF SameCore, SameTally, OnStack
<1>. QED BY <1>2 DEF r

(* A revocation counts nothing until it is applied. *)
LEMMA RevokedCounted ==
    ASSUME NEW s \in Bridges, NEW c \in Calls, IsFiniteSet(s.calls[c].deliveries),
           NEW t \in Tokens, NEW queued \in BOOLEAN
    PROVE  Counted(AfterRevoke(s, c, t, queued), s, c, 0)
<1>. DEFINE r == AfterRevoke(s, c, t, queued)
<1>1. r \in Bridges /\ RevokeEffect(r, s, c, t, queued)
  BY RevokeFields
<1>. HIDE DEF r
<1>2. /\ r.calls = s.calls /\ r.stack = s.stack /\ r.credits = s.credits
      /\ SameCounters(r, s) /\ r.byToken = s.byToken
  BY <1>1 DEF RevokeEffect
<1>3. Counted(r, s, c, 0)
  BY <1>1, <1>2, CountedSame, SameCoreRefl DEF OtherCores, SameTally, OnStack
<1>. QED BY <1>3 DEF r

(* The end of a cleanup counts nothing. *)
LEMMA FinishCleanupCounted ==
    ASSUME NEW s \in Bridges, NEW c \in Calls, ControlOk(s), s.stack # <<>>,
           c = s.stack[Len(s.stack)]
    PROVE  Counted(ScheduleTerminal(Pop(s), c), s, c, 0)
<1>. DEFINE q == Pop(s)
            r == ScheduleTerminal(q, c)
<1>1. IsFiniteSet(s.calls[c].deliveries)
  BY FiniteDeliveries
<1>2. OnStack(q, Termination) <=> OnStack(s, Termination)
  <2>1. \A d : OnStack(q, d) <=> OnStack(s, d) /\ d # c
    BY PopStack DEF ControlOk, StackOk
  <2>. QED BY <2>1, Constants
<1>3. q \in Bridges /\ SameLoop(q, s) /\ SameProvider(q, s) /\ SameCounters(q, s)
  BY PopFields
<1>. HIDE DEF q
<1>4. Counted(q, s, c, 0)
  BY <1>1, <1>2, <1>3, CountedSame, SameCoreRefl
     DEF SameLoop, SameProvider, OtherCores, SameTally
<1>5. Counted(r, q, c, 0)
  BY <1>4, CountedFacts, ScheduleCounted
<1>. HIDE DEF r
<1>6. Counted(r, s, c, 0)
  BY <1>1, <1>4, <1>5, CountedThen
<1>. QED BY <1>6 DEF q, r

(* Operations of the guest: admission checks the limits. *)
LEMMA AdmitCounted ==
    ASSUME NEW s \in Bridges, NEW c \in Calls, ControlOk(s), s.calls[c].state = "unused",
           NEW id \in Ids, NEW mode \in {"result", "stream"}, NEW input \in 0..1,
           NEW deadline \in BOOLEAN,
           LET handles == input + StreamHandle(NewCall(id, mode, input, deadline))
           IN s.inFlight + input <= MaxInFlight /\ s.openHandles + handles <= MaxHandles
    PROVE  Counted(AfterAdmit(s, c, NewCall(id, mode, input, deadline)), s, c, 0)
<1>. DEFINE x == NewCall(id, mode, input, deadline)
            r == AfterAdmit(s, c, x)
            y == s.calls[c]
            h == StreamHandle(x)
<1>1. IsFiniteSet(y.deliveries)
  BY FiniteDeliveries
<1>2. /\ x \in CallRecords /\ x.state = "active" /\ x.completion = NoCompletion
      /\ x.deliveries = {} /\ x.credits = 0 /\ x.input = input
  BY NewCallFields
<1>3. s.inFlight + input <= MaxInFlight /\ s.openHandles + (input + h) <= MaxHandles
  OBVIOUS
<1>. HIDE DEF x
<1>4. r \in Bridges /\ AdmitEffect(r, s, c, x)
  BY <1>2, AdmitFields
<1>. HIDE DEF r
<1>5. IsFiniteSet(x.deliveries) /\ h \in 0..1
  BY <1>2, FS_EmptySet, TallyType
<1>6. /\ Tally(x) = input /\ StreamOf(x) = h /\ Owed(x) = 0
      /\ Tally(y) = 0 /\ StreamOf(y) = 0 /\ Owed(y) = 0
  <2>1. {d \in x.deliveries : d.binary = 1} = {} /\ x.completion.binary = 0
    BY <1>2 DEF NoCompletion
  <2>2. QueuedBinaries(x) = 0 + 0
    BY <2>1, FS_EmptySet DEF QueuedBinaries
  <2>3. Tally(x) = input
    BY <1>2, <2>2 DEF Tally
  <2>4. StreamOf(x) = h /\ Owed(x) = 0
    <3>. HIDE DEF h
    <3>. QED BY <1>2 DEF StreamOf, Owed, h
  <2>. QED BY <2>3, <2>4 DEF Tally, StreamOf, Owed
<1>. HIDE DEF h
<1>7. /\ SameProvider(r, s) /\ SameCalls(r, s, c) /\ r.calls[c] = x /\ r.stack = s.stack
      /\ r.credits = s.credits /\ r.openResources = s.openResources
      /\ r.inFlight = s.inFlight + input
      /\ r.openHandles = s.openHandles + (input + h)
  BY <1>2, <1>4 DEF AdmitEffect, h
<1>8. /\ s.inFlight \in Int /\ s.openHandles \in Int /\ s.openResources \in Int
      /\ s.credits \in Int /\ Cardinality(s.byToken) \in Int
  BY CounterType
<1>9. Limits(s) => Limits(r)
  BY <1>3, <1>7 DEF Limits
<1>10. (OnStack(r, Termination) <=> OnStack(s, Termination)) /\ OtherCores(r, s, c)
  BY <1>7, OtherCalls DEF OnStack
<1>. HIDE DEF y
<1>11. r.inFlight - s.inFlight = Tally(x) - Tally(y) + 0
  BY <1>6, <1>7, <1>8
<1>12. r.openResources - s.openResources = Cardinality(r.byToken) - Cardinality(s.byToken)
  BY <1>7, <1>8 DEF SameProvider
<1>13. r.openHandles - s.openHandles =
           (r.inFlight - s.inFlight) + (r.openResources - s.openResources)
               + StreamOf(x) - StreamOf(y)
  <2>1. r.openHandles - s.openHandles = input + h
    BY <1>5, <1>7, <1>8
  <2>2. r.inFlight - s.inFlight = input /\ r.openResources - s.openResources = 0
    BY <1>7, <1>8
  <2>. QED BY <1>5, <1>6, <2>1, <2>2
<1>14. r.credits - s.credits = Owed(x) - Owed(y)
  BY <1>6, <1>7, <1>8
<1>. QED BY <1>4, <1>5, <1>7, <1>9, <1>10, <1>11, <1>12, <1>13, <1>14 DEF Counted, r, x, y

(* next() takes one credit. *)
LEMMA ReadCounted ==
    ASSUME NEW s \in Bridges, NEW c \in Calls, IsFiniteSet(s.calls[c].deliveries),
           s.calls[c].state = "active"
    PROVE  /\ Counted(AfterRead(s, c), s, c, 0)
           /\ s.credits < MaxOutstandingCredits => Counted(AfterCredit(s, c), s, c, 0)
<1>. DEFINE q == AfterRead(s, c)
            r == AfterCredit(s, c)
            y == s.calls[c]
            x == ReadCall(y)
            z == CreditedCall(y)
<1>1. /\ q \in Bridges /\ ReadEffect(q, s, c, x, 0)
      /\ r \in Bridges /\ ReadEffect(r, s, c, z, 1)
  BY ReadFields
<1>2. /\ SameTally(x, y) /\ x.credits = y.credits
      /\ SameTally(z, y) /\ z.credits = y.credits + 1 /\ z.state = y.state
      /\ z.deliveries = y.deliveries
  BY CallOfBridge, ReadCallFields DEF SameTally
<1>3. y.credits \in Nat /\ s.credits \in Int
  BY CallOfBridge, CounterType DEF CallRecords
<1>. HIDE DEF q, r, x, z
<1>4. Counted(q, s, c, 0)
  <2>1. /\ q.stack = s.stack /\ SameProvider(q, s) /\ SameCounters(q, s)
        /\ SameCalls(q, s, c) /\ q.calls[c] = x /\ q.credits = s.credits + 0
    BY <1>1 DEF ReadEffect
  <2>2. q.credits = s.credits
    BY <1>3, <2>1
  <2>. QED BY <1>1, <1>2, <2>1, <2>2, OtherCalls, CountedSame DEF SameProvider, OnStack
<1>5. ASSUME s.credits < MaxOutstandingCredits PROVE Counted(r, s, c, 0)
  <2>1. /\ r.stack = s.stack /\ SameProvider(r, s) /\ SameCounters(r, s)
        /\ SameCalls(r, s, c) /\ r.calls[c] = z /\ r.credits = s.credits + 1
    BY <1>1 DEF ReadEffect
  <2>2. /\ Tally(z) = Tally(y) /\ StreamOf(z) = StreamOf(y)
        /\ Owed(z) = Owed(y) + 1 /\ Owed(y) \in Nat
    BY <1>2, <1>3, SameTallyCount DEF Owed
  <2>3. /\ s.inFlight \in Int /\ s.openHandles \in Int /\ s.openResources \in Int
        /\ Cardinality(s.byToken) \in Int
        /\ Tally(y) \in Int /\ StreamOf(y) \in Int
    BY CounterType, CallOfBridge, TallyType
  <2>4. /\ r.inFlight = s.inFlight /\ r.openHandles = s.openHandles
        /\ r.openResources = s.openResources /\ r.byToken = s.byToken
    BY <2>1 DEF SameCounters, SameProvider
  <2>5. Limits(s) => Limits(r)
    BY <1>3, <1>5, <2>1, <2>4, Constants DEF Limits
  <2>6. (OnStack(r, Termination) <=> OnStack(s, Termination)) /\ OtherCores(r, s, c)
    BY <2>1, OtherCalls DEF OnStack
  <2>7. IsFiniteSet(z.deliveries)
    BY <1>2
  <2>. HIDE DEF y
  <2>8. r.inFlight - s.inFlight = Tally(z) - Tally(y) + 0
    BY <2>2, <2>3, <2>4
  <2>9. r.openResources - s.openResources = Cardinality(r.byToken) - Cardinality(s.byToken)
    BY <2>3, <2>4
  <2>10. r.openHandles - s.openHandles =
           (r.inFlight - s.inFlight) + (r.openResources - s.openResources)
               + StreamOf(z) - StreamOf(y)
    BY <2>2, <2>3, <2>4
  <2>11. r.credits - s.credits = Owed(z) - Owed(y)
    BY <1>3, <2>1, <2>2
  <2>. QED BY <1>1, <2>1, <2>5, <2>6, <2>7, <2>8, <2>9, <2>10, <2>11 DEF Counted, y
<1>. QED BY <1>4, <1>5 DEF q, r

-----------------------------------------------------------------------------
(* From one call to the sums: what a handler adds for its call is what the *)
(* counters gain.                                                          *)

One(A, c) == IF c \in A THEN 1 ELSE 0
Row(A, c) == {x \in A : x[1] = c}
Rest(A, c) == {x \in A : x[1] # c}

(* Sets that differ in one element at most *)
LEMMA CountOne ==
    ASSUME NEW A, NEW B, IsFiniteSet(A), IsFiniteSet(B), NEW c, A \ {c} = B \ {c}
    PROVE  /\ Cardinality(A) \in Nat /\ Cardinality(B) \in Nat
           /\ Cardinality(A) - One(A, c) = Cardinality(B) - One(B, c)
<1>1. Cardinality(A) \in Nat /\ Cardinality(B) \in Nat
  BY FS_CardinalityType
<1>2. Cardinality(A \ {c}) = Cardinality(A) - One(A, c)
  BY <1>1, FS_RemoveElement DEF One
<1>3. Cardinality(B \ {c}) = Cardinality(B) - One(B, c)
  BY <1>1, FS_RemoveElement DEF One
<1>. QED BY <1>1, <1>2, <1>3

(* Sets of pairs that differ in one row at most *)
LEMMA CountRow ==
    ASSUME NEW A, NEW B, IsFiniteSet(A), IsFiniteSet(B), NEW c, Rest(A, c) = Rest(B, c)
    PROVE  /\ Cardinality(A) \in Nat /\ Cardinality(B) \in Nat
           /\ Cardinality(Row(A, c)) \in Nat /\ Cardinality(Row(B, c)) \in Nat
           /\ Cardinality(A) - Cardinality(Row(A, c))
                  = Cardinality(B) - Cardinality(Row(B, c))
<1>1. ASSUME NEW D, IsFiniteSet(D)
      PROVE  /\ Cardinality(Row(D, c)) \in Nat /\ Cardinality(Rest(D, c)) \in Nat
             /\ Cardinality(D) = Cardinality(Row(D, c)) + Cardinality(Rest(D, c))
  <2>1. Row(D, c) \in SUBSET D /\ Rest(D, c) \in SUBSET D
    BY DEF Row, Rest
  <2>2. D = Row(D, c) \cup Rest(D, c) /\ Row(D, c) \cap Rest(D, c) = {}
    BY DEF Row, Rest
  <2>3. IsFiniteSet(Row(D, c)) /\ IsFiniteSet(Rest(D, c))
    BY <1>1, <2>1, FS_Subset
  <2>4. /\ Cardinality(Row(D, c)) \in Nat /\ Cardinality(Rest(D, c)) \in Nat
    BY <2>3, FS_CardinalityType
  <2>5. Cardinality(D) = Cardinality(Row(D, c)) + Cardinality(Rest(D, c)) - Cardinality({})
    BY <2>2, <2>3, FS_Union
  <2>6. Cardinality({}) = 0
    BY FS_EmptySet
  <2>. QED BY <2>4, <2>5, <2>6
<1>2. Cardinality(A) \in Nat /\ Cardinality(B) \in Nat
  BY FS_CardinalityType
<1>. QED BY <1>1, <1>2

(* The sums are of finite sets. *)
LEMMA SumsFinite ==
    ASSUME NEW s
    PROVE  /\ IsFiniteSet(Inputs(s)) /\ IsFiniteSet(Outputs(s)) /\ IsFiniteSet(Streams(s))
           /\ IsFiniteSet(Chunks(s)) /\ IsFiniteSet(Credits(s))
<1>1. IsFiniteSet(Calls)
  <2>1. 1 \in Int /\ MaxCalls \in Int
    BY LimitAssumption
  <2>. QED BY <2>1, FS_Interval DEF Calls
<1>2. IsFiniteSet(Calls \X (0..MaxReads)) /\ IsFiniteSet(Calls \X (1..MaxReads))
  <2>1. 0 \in Int /\ 1 \in Int /\ MaxReads \in Int
    BY LimitAssumption
  <2>2. IsFiniteSet(0..MaxReads) /\ IsFiniteSet(1..MaxReads)
    BY <2>1, FS_Interval
  <2>. QED BY <1>1, <2>2, FS_Product
<1>3. /\ Inputs(s) \in SUBSET Calls /\ Outputs(s) \in SUBSET Calls
      /\ Streams(s) \in SUBSET Calls
  BY DEF Inputs, Outputs, Streams, Active
<1>4. /\ Chunks(s) \in SUBSET (Calls \X (0..MaxReads))
      /\ Credits(s) \in SUBSET (Calls \X (1..MaxReads))
  BY DEF Chunks, Credits, Active
<1>. QED BY <1>1, <1>2, <1>3, <1>4, FS_Subset

(* The sums differ only in what the call of the handler adds. *)
LEMMA SumsElsewhere ==
    ASSUME NEW s, NEW r, NEW c, OtherCores(r, s, c)
    PROVE  /\ Inputs(r) \ {c} = Inputs(s) \ {c} /\ Outputs(r) \ {c} = Outputs(s) \ {c}
           /\ Streams(r) \ {c} = Streams(s) \ {c}
           /\ Rest(Chunks(r), c) = Rest(Chunks(s), c)
           /\ Rest(Credits(r), c) = Rest(Credits(s), c)
<1>0. ASSUME NEW d \in Calls, d # c
      PROVE  /\ r.calls[d].state = s.calls[d].state /\ r.calls[d].mode = s.calls[d].mode
             /\ r.calls[d].input = s.calls[d].input
             /\ r.calls[d].completion = s.calls[d].completion
             /\ r.calls[d].deliveries = s.calls[d].deliveries
             /\ r.calls[d].readers = s.calls[d].readers
  BY <1>0 DEF OtherCores, SameCore
<1>1. \A d \in Calls : d # c => (d \in Active(r) <=> d \in Active(s))
  BY <1>0 DEF Active
<1>2. Active(r) \subseteq Calls /\ Active(s) \subseteq Calls
  BY DEF Active
<1>3. /\ Inputs(r) \ {c} = Inputs(s) \ {c} /\ Outputs(r) \ {c} = Outputs(s) \ {c}
      /\ Streams(r) \ {c} = Streams(s) \ {c}
  BY <1>0, <1>1, <1>2 DEF Inputs, Outputs, Streams
<1>4. Rest(Chunks(r), c) = Rest(Chunks(s), c)
  <2>1. ASSUME NEW x \in Calls \X (0..MaxReads), x[1] # c
        PROVE  x \in Chunks(r) <=> x \in Chunks(s)
    <3>1. x[1] \in Calls /\ (x \in Active(r) \X (0..MaxReads) <=> x[1] \in Active(r))
          /\ (x \in Active(s) \X (0..MaxReads) <=> x[1] \in Active(s))
      BY <1>2
    <3>. QED BY <1>0, <1>1, <2>1, <3>1 DEF Chunks
  <2>2. Chunks(r) \subseteq Calls \X (0..MaxReads) /\ Chunks(s) \subseteq Calls \X (0..MaxReads)
    BY <1>2 DEF Chunks
  <2>. QED BY <2>1, <2>2 DEF Rest
<1>5. Rest(Credits(r), c) = Rest(Credits(s), c)
  <2>1. ASSUME NEW x \in Calls \X (1..MaxReads), x[1] # c
        PROVE  x \in Credits(r) <=> x \in Credits(s)
    <3>1. x[1] \in Calls /\ (x \in Active(r) \X (1..MaxReads) <=> x[1] \in Active(r))
          /\ (x \in Active(s) \X (1..MaxReads) <=> x[1] \in Active(s))
      BY <1>2
    <3>. QED BY <1>0, <1>1, <2>1, <3>1 DEF Credits
  <2>2. Credits(r) \subseteq Calls \X (1..MaxReads) /\ Credits(s) \subseteq Calls \X (1..MaxReads)
    BY <1>2 DEF Credits
  <2>. QED BY <2>1, <2>2 DEF Rest
<1>. QED BY <1>3, <1>4, <1>5

(* What a call adds to the binaries in flight *)
LEMMA ShareOfBinaries ==
    ASSUME NEW s \in Bridges, NEW c \in Calls, ControlOk(s)
    PROVE  Tally(s.calls[c]) = One(Inputs(s), c) + One(Outputs(s), c)
                                 + Cardinality(Row(Chunks(s), c))
<1>. DEFINE y == s.calls[c]
            D == {d \in y.deliveries : d.binary = 1}
            K == Row(Chunks(s), c)
<1>1. y \in CallRecords /\ CallOk(y) /\ IsFiniteSet(y.deliveries)
  BY FiniteDeliveries DEF Bridges, ControlOk
<1>2. /\ y.input \in 0..1 /\ y.completion.binary \in 0..1
      /\ \A d \in y.deliveries : d.sequence \in Nat
  BY <1>1 DEF CallRecords, Completions, Deliveries
<1>3. CASE y.state # "active"
  <2>1. c \notin Inputs(s) /\ c \notin Outputs(s)
    BY <1>3 DEF Inputs, Outputs, Active
  <2>2. K = {}
    BY <1>3 DEF Row, Chunks, Active
  <2>3. Cardinality({}) = 0
    BY FS_EmptySet
  <2>. QED BY <1>3, <2>1, <2>2, <2>3 DEF One, Tally
<1>4. CASE y.state = "active"
  <2>1. One(Inputs(s), c) = y.input
    BY <1>2, <1>4 DEF One, Inputs, Active
  <2>2. One(Outputs(s), c) = y.completion.binary
    BY <1>2, <1>4 DEF One, Outputs, Active
  <2>3. \A d \in D : d.sequence \in 0..MaxReads
    <3>1. AnswersInOrder(y)
      BY <1>1, <1>4 DEF CallOk, StreamInOrder
    <3>2. /\ y.nextSequence <= Len(y.readers) /\ Len(y.readers) <= MaxReads
          /\ \A d \in y.deliveries : d.sequence < y.nextSequence
      BY <3>1 DEF AnswersInOrder
    <3>3. y.nextSequence \in Nat /\ Len(y.readers) \in Nat /\ MaxReads \in Nat
      BY <1>1, LimitAssumption DEF CallRecords
    <3>. QED BY <1>2, <3>2, <3>3
  <2>4. \A d, e \in D : d.sequence = e.sequence => d = e
    BY <1>1, <1>4 DEF CallOk, StreamInOrder, AnswersInOrder
  <2>5. c \in Active(s)
    BY <1>4 DEF Active
  <2>. DEFINE f == [d \in D |-> <<c, d.sequence>>]
  <2>6. \A d \in D : <<c, d.sequence>> \in K
    BY <2>3, <2>5 DEF Row, Chunks
  <2>7. ASSUME NEW x \in K PROVE \E d \in D : f[d] = x
    <3>1. x \in Active(s) \X (0..MaxReads) /\ x[1] = c
          /\ \E d \in y.deliveries : d.sequence = x[2] /\ d.binary = 1
      BY DEF Row, Chunks
    <3>2. PICK d \in D : d.sequence = x[2]
      BY <3>1
    <3>3. x = <<c, d.sequence>>
      BY <3>1, <3>2
    <3>. QED BY <3>3
  <2>8. f \in Bijection(D, K)
    <3>1. f \in [D -> K]
      BY <2>6
    <3>2. \A d, e \in D : f[d] = f[e] => d = e
      BY <2>4
    <3>. HIDE DEF f, D, K
    <3>. QED BY <2>7, <3>1, <3>2 DEF Bijection, Injection, IsInjective, Surjection
  <2>9. IsFiniteSet(D)
    BY <1>1, FS_Subset
  <2>10. Cardinality(K) = Cardinality(D)
    <3>. HIDE DEF f, D, K
    <3>. QED BY <2>8, <2>9, FS_Bijection DEF ExistsBijection
  <2>11. Tally(y) = y.input + (y.completion.binary + Cardinality(D))
    BY <1>4 DEF Tally, QueuedBinaries
  <2>12. Cardinality(D) \in Nat
    <3>. HIDE DEF D
    <3>. QED BY <2>9, FS_CardinalityType
  <2>. HIDE DEF D, K
  <2>. QED BY <1>2, <2>1, <2>2, <2>10, <2>11, <2>12 DEF y, K
<1>. QED BY <1>3, <1>4

(* What a call adds to the credits *)
LEMMA ShareOfCredits ==
    ASSUME NEW s \in Bridges, NEW c \in Calls, ControlOk(s)
    PROVE  Owed(s.calls[c]) = Cardinality(Row(Credits(s), c))
<1>. DEFINE y == s.calls[c]
            n == y.nextSequence
            m == Len(y.readers)
            K == Row(Credits(s), c)
            I == (n + 1)..m
<1>1. y \in CallRecords /\ CallOk(y)
  BY DEF Bridges, ControlOk
<1>2. n \in Nat /\ m \in Nat /\ y.credits \in Nat /\ MaxReads \in Nat
  BY <1>1, LimitAssumption DEF CallRecords
<1>3. Cardinality({}) = 0
  BY FS_EmptySet
<1>4. CASE y.state # "active"
  <2>1. K = {}
    BY <1>4 DEF Row, Credits, Active
  <2>. QED BY <1>3, <1>4, <2>1 DEF Owed
<1>5. CASE y.state = "active" /\ y.completion # NoCompletion
  <2>1. K = {}
    BY <1>5 DEF Row, Credits
  <2>2. y.credits = 0
    BY <1>1, <1>5 DEF CallOk, StreamInOrder
  <2>. QED BY <1>3, <1>5, <2>1, <2>2 DEF Owed
<1>6. CASE y.state = "active" /\ y.completion = NoCompletion
  <2>1. AnswersInOrder(y) /\ y.credits = m - n
    BY <1>1, <1>6 DEF CallOk, StreamInOrder
  <2>2. /\ n <= m /\ m <= MaxReads
        /\ \A i \in 1..m : y.readers[i] = "waiting" <=> n < i
    BY <2>1 DEF AnswersInOrder
  <2>. DEFINE f == [i \in I |-> <<c, i>>]
  <2>3. \A i \in I : i \in 1..m /\ i \in 1..MaxReads /\ n < i
    BY <1>2, <2>2
  <2>4. \A i \in I : <<c, i>> \in K
    BY <1>6, <2>2, <2>3 DEF Row, Credits, Active
  <2>5. ASSUME NEW x \in K PROVE \E i \in I : f[i] = x
    <3>1. /\ x \in Active(s) \X (1..MaxReads) /\ x[1] = c /\ x[2] <= m
          /\ y.readers[x[2]] = "waiting"
      BY DEF Row, Credits
    <3>2. x[2] \in 1..MaxReads
      BY <3>1
    <3>3. x[2] \in 1..m
      BY <1>2, <3>1, <3>2
    <3>4. n < x[2]
      BY <2>2, <3>1, <3>3
    <3>5. x[2] \in I
      BY <1>2, <3>3, <3>4
    <3>6. x = <<c, x[2]>>
      BY <3>1
    <3>. HIDE DEF I
    <3>. QED BY <3>5, <3>6
  <2>6. f \in Bijection(I, K)
    <3>1. f \in [I -> K]
      BY <2>4
    <3>2. \A i, j \in I : f[i] = f[j] => i = j
      OBVIOUS
    <3>. HIDE DEF f, I, K
    <3>. QED BY <2>5, <3>1, <3>2 DEF Bijection, Injection, IsInjective, Surjection
  <2>7. IsFiniteSet(I) /\ Cardinality(I) = IF n + 1 > m THEN 0 ELSE m - (n + 1) + 1
    <3>1. n + 1 \in Int /\ m \in Int
      BY <1>2
    <3>. HIDE DEF n, m
    <3>. QED BY <3>1, FS_Interval
  <2>8. Cardinality(K) = Cardinality(I)
    <3>. HIDE DEF f, I, K
    <3>. QED BY <2>6, <2>7, FS_Bijection DEF ExistsBijection
  <2>9. Cardinality(I) = m - n
    <3>. HIDE DEF n, m, I
    <3>. QED BY <1>2, <2>2, <2>7
  <2>. QED BY <1>6, <2>1, <2>8, <2>9 DEF Owed
<1>. QED BY <1>4, <1>5, <1>6

(* What a call adds to the handles of streams *)
LEMMA ShareOfStreams ==
    ASSUME NEW s \in Bridges, NEW c \in Calls
    PROVE  StreamOf(s.calls[c]) = One(Streams(s), c)
BY DEF StreamOf, StreamHandle, One, Streams, Active

(* The quotas are conserved by a handler that counts what it does to its   *)
(* call, whichever of the quotas it moves.                                 *)
LEMMA CountedQuota ==
    ASSUME NEW s \in Bridges, NEW r, NEW c \in Calls, ControlOk(s), ControlOk(r),
           QuotaOk(s), Counted(r, s, c, 0)
    PROVE  QuotaOk(r)
<1>. DEFINE i(q) == Cardinality(Inputs(q))
            o(q) == Cardinality(Outputs(q))
            k(q) == Cardinality(Chunks(q))
            m(q) == Cardinality(Streams(q))
            w(q) == Cardinality(Credits(q))
            i1(q) == One(Inputs(q), c)
            o1(q) == One(Outputs(q), c)
            k1(q) == Cardinality(Row(Chunks(q), c))
            m1(q) == One(Streams(q), c)
            w1(q) == Cardinality(Row(Credits(q), c))
<1>1. r \in Bridges /\ OtherCores(r, s, c)
  BY DEF Counted
<1>2. /\ i(r) \in Nat /\ i(s) \in Nat /\ i(r) - i1(r) = i(s) - i1(s)
      /\ o(r) \in Nat /\ o(s) \in Nat /\ o(r) - o1(r) = o(s) - o1(s)
      /\ m(r) \in Nat /\ m(s) \in Nat /\ m(r) - m1(r) = m(s) - m1(s)
  <2>1. /\ Inputs(r) \ {c} = Inputs(s) \ {c} /\ Outputs(r) \ {c} = Outputs(s) \ {c}
        /\ Streams(r) \ {c} = Streams(s) \ {c}
    BY <1>1, SumsElsewhere
  <2>. QED BY <2>1, SumsFinite, CountOne
<1>3. /\ k(r) \in Nat /\ k(s) \in Nat /\ k1(r) \in Nat /\ k1(s) \in Nat
      /\ k(r) - k1(r) = k(s) - k1(s)
      /\ w(r) \in Nat /\ w(s) \in Nat /\ w1(r) \in Nat /\ w1(s) \in Nat
      /\ w(r) - w1(r) = w(s) - w1(s)
  <2>1. Rest(Chunks(r), c) = Rest(Chunks(s), c) /\ Rest(Credits(r), c) = Rest(Credits(s), c)
    BY <1>1, SumsElsewhere
  <2>. QED BY <2>1, SumsFinite, CountRow
<1>4. /\ Tally(s.calls[c]) = i1(s) + o1(s) + k1(s)
      /\ Tally(r.calls[c]) = i1(r) + o1(r) + k1(r)
  BY <1>1, ShareOfBinaries
<1>5. Owed(s.calls[c]) = w1(s) /\ Owed(r.calls[c]) = w1(r)
  BY <1>1, ShareOfCredits
<1>6. StreamOf(s.calls[c]) = m1(s) /\ StreamOf(r.calls[c]) = m1(r)
  BY <1>1, ShareOfStreams
<1>7. /\ i1(s) \in Nat /\ o1(s) \in Nat /\ m1(s) \in Nat
      /\ i1(r) \in Nat /\ o1(r) \in Nat /\ m1(r) \in Nat
  BY DEF One
<1>8. /\ s.inFlight \in Int /\ s.openHandles \in Int /\ s.openResources \in Int
      /\ s.credits \in Int /\ Cardinality(s.byToken) \in Nat
      /\ r.inFlight \in Int /\ r.openHandles \in Int /\ r.openResources \in Int
      /\ r.credits \in Int /\ Cardinality(r.byToken) \in Nat
  BY <1>1, CounterType
<1>9. /\ s.inFlight = i(s) + o(s) + k(s)
      /\ s.openResources = Cardinality(s.byToken)
      /\ s.openHandles = s.inFlight + m(s) + s.openResources
      /\ s.credits = w(s)
      /\ Limits(s)
  BY DEF QuotaOk
<1>10. /\ r.openResources - s.openResources = Cardinality(r.byToken) - Cardinality(s.byToken)
       /\ Limits(r)
  BY <1>9 DEF Counted
<1>. HIDE DEF i, o, k, m, w, i1, o1, k1, m1, w1
<1>11. r.inFlight = i(r) + o(r) + k(r)
  <2>1. r.inFlight - s.inFlight = (i1(r) + o1(r) + k1(r)) - (i1(s) + o1(s) + k1(s)) + 0
    BY <1>4 DEF Counted
  <2>. QED BY <1>2, <1>3, <1>7, <1>8, <1>9, <2>1
<1>12. r.openResources = Cardinality(r.byToken)
  BY <1>8, <1>9, <1>10
<1>13. r.openHandles = r.inFlight + m(r) + r.openResources
  <2>1. r.openHandles - s.openHandles =
            (r.inFlight - s.inFlight) + (r.openResources - s.openResources) + m1(r) - m1(s)
    BY <1>6 DEF Counted
  <2>. QED BY <1>2, <1>7, <1>8, <1>9, <2>1
<1>14. r.credits = w(r)
  <2>1. r.credits - s.credits = w1(r) - w1(s)
    BY <1>5 DEF Counted
  <2>. QED BY <1>3, <1>8, <1>9, <2>1
<1>. QED BY <1>10, <1>11, <1>12, <1>13, <1>14 DEF QuotaOk, i, o, k, m, w

(* A handler that touches none of the calls, of the counters *)
LEMMA QuotaSame ==
    ASSUME NEW s, NEW r, QuotaOk(s), r.calls = s.calls, r.byToken = s.byToken,
           SameCounters(r, s), r.credits = s.credits
    PROVE  QuotaOk(r)
<1>1. /\ Inputs(r) = Inputs(s) /\ Outputs(r) = Outputs(s) /\ Chunks(r) = Chunks(s)
      /\ Streams(r) = Streams(s) /\ Credits(r) = Credits(s)
  BY DEF Inputs, Outputs, Chunks, Streams, Credits, Active
<1>2. Limits(r) <=> Limits(s)
  BY DEF Limits, SameCounters
<1>. QED BY <1>1, <1>2 DEF QuotaOk, SameCounters

-----------------------------------------------------------------------------
(* Handlers                                                                *)

CoreOk(s) == ControlOk(s) /\ TokensOk(s, 1, {}) /\ QuotaOk(s)

(* A handler keeps the invariant and only advances its calls. *)
Handled(r, s) ==
    /\ r \in Bridges /\ CoreOk(r) /\ Advance(r, s)
    /\ OnStack(r, Termination) <=> OnStack(s, Termination)

(* What keeps the control and the token invariant and counts what it does  *)
(* is a handler that keeps the whole invariant.                            *)
LEMMA HandlerOk ==
    ASSUME NEW s \in Bridges, NEW r, NEW c \in Calls, NEW e, CoreOk(s), StepOk(r, s),
           TokensOk(r, e, {}), Counted(r, s, c, 0)
    PROVE  Handled(r, s)
<1>1. r \in Bridges /\ ControlOk(r) /\ Advance(r, s)
  BY DEF StepOk
<1>2. TokensOk(r, 1, {})
  BY EmptyHand
<1>3. QuotaOk(r)
  BY <1>1, CountedQuota DEF CoreOk
<1>4. OnStack(r, Termination) <=> OnStack(s, Termination)
  BY DEF Counted
<1>. QED BY <1>1, <1>2, <1>3, <1>4 DEF Handled, CoreOk

(* What the invariant says of one call *)
LEMMA CoreCall ==
    ASSUME NEW s \in Bridges, NEW c \in Calls, CoreOk(s)
    PROVE  /\ ControlOk(s) /\ TokensOk(s, c, {}) /\ ReservedKnown(s)
           /\ IsFiniteSet(s.calls[c].deliveries) /\ QueuedBinaries(s.calls[c]) \in Nat
           /\ CallOk(s.calls[c]) /\ s.calls[c] \in CallRecords
<1>1. ControlOk(s) /\ TokensOk(s, 1, {})
  BY DEF CoreOk
<1>2. TokensOk(s, c, {}) /\ ReservedKnown(s)
  BY <1>1, EmptyHand, TokensKnown
<1>3. CallOk(s.calls[c]) /\ s.calls[c] \in CallRecords
  BY <1>1, CallOfBridge DEF ControlOk
<1>4. IsFiniteSet(s.calls[c].deliveries) /\ QueuedBinaries(s.calls[c]) \in Nat
  BY <1>3, DeliveriesFinite
<1>. QED BY <1>1, <1>2, <1>3, <1>4

(* cancelPending, handleDeadline, and terminateBridge for one call *)
LEMMA AbortHandled ==
    ASSUME NEW s \in Bridges, NEW c \in Calls, CoreOk(s), s.calls[c].state = "active"
    PROVE  Handled(Abort(s, c), s)
<1>. DEFINE r == Abort(s, c)
<1>0. /\ ControlOk(s) /\ TokensOk(s, c, {}) /\ ReservedKnown(s)
      /\ IsFiniteSet(s.calls[c].deliveries) /\ QueuedBinaries(s.calls[c]) \in Int
  BY CoreCall
<1>1. StepOk(r, s)
  BY <1>0, AbortStep
<1>2. TokensOk(r, c, {})
  BY <1>0, AbortTokens
<1>3. Counted(r, s, c, 0)
  BY <1>0, AbortCounted
<1>. SUFFICES Handled(r, s) OBVIOUS
<1>. HIDE DEF r
<1>. QED BY <1>1, <1>2, <1>3, HandlerOk

(* next() of a stream *)
LEMMA ReadHandled ==
    ASSUME NEW s \in Bridges, NEW c \in Calls, CoreOk(s), s.calls[c].state = "active",
           s.calls[c].mode = "stream", Len(s.calls[c].readers) < MaxReads
    PROVE  /\ s.calls[c].completion # NoCompletion => Handled(AfterRead(s, c), s)
           /\ s.calls[c].completion = NoCompletion /\ s.credits < MaxOutstandingCredits =>
                  Handled(AfterCredit(s, c), s)
<1>0. /\ ControlOk(s) /\ TokensOk(s, c, {}) /\ IsFiniteSet(s.calls[c].deliveries)
  BY CoreCall
<1>1. ASSUME s.calls[c].completion # NoCompletion
      PROVE  Handled(AfterRead(s, c), s)
  <2>. DEFINE r == AfterRead(s, c)
  <2>1. StepOk(r, s)
    BY <1>0, <1>1, ReadStep
  <2>2. TokensOk(r, c, {})
    BY <1>0, ReadTokens
  <2>3. Counted(r, s, c, 0)
    BY <1>0, ReadCounted
  <2>. SUFFICES Handled(r, s) OBVIOUS
  <2>. HIDE DEF r
  <2>. QED BY <2>1, <2>2, <2>3, HandlerOk
<1>2. ASSUME s.calls[c].completion = NoCompletion, s.credits < MaxOutstandingCredits
      PROVE  Handled(AfterCredit(s, c), s)
  <2>. DEFINE r == AfterCredit(s, c)
  <2>1. StepOk(r, s)
    BY <1>0, <1>2, ReadStep
  <2>2. TokensOk(r, c, {})
    BY <1>0, ReadTokens
  <2>3. Counted(r, s, c, 0)
    BY <1>0, <1>2, ReadCounted
  <2>. SUFFICES Handled(r, s) OBVIOUS
  <2>. HIDE DEF r
  <2>. QED BY <2>1, <2>2, <2>3, HandlerOk
<1>. QED BY <1>1, <1>2

(* close() of a resource *)
LEMMA CloseHandled ==
    ASSUME NEW s \in Bridges, NEW t \in Tokens, CoreOk(s), s.resources[t].status = "open"
    PROVE  Handled(CloseResource(s, t, TRUE), s)
<1>. DEFINE r == CloseResource(s, t, TRUE)
            c == s.resources[t].call
<1>0. ControlOk(s) /\ TokensOk(s, 1, {})
  BY DEF CoreOk
<1>1. c \in Calls /\ TokensOk(r, 1, {})
  BY <1>0, ClosedTokens
<1>2. StepOk(r, s)
  BY <1>0, <1>1, CloseResourceStep
<1>3. t \in s.byToken
  BY <1>0, TokenFacts
<1>4. IsFiniteSet(s.calls[c].deliveries)
  BY <1>1, CoreCall
<1>5. Counted(r, s, c, 0)
  BY <1>1, <1>3, <1>4, CloseResourceCounted
<1>. SUFFICES Handled(r, s) OBVIOUS
<1>. HIDE DEF r, c
<1>. QED BY <1>1, <1>2, <1>5, HandlerOk

(* Events of the provider that fail their call, or end it *)
LEMMA FailUndeliveredHandled ==
    ASSUME NEW s \in Bridges, NEW c \in Calls, CoreOk(s), s.calls[c].state = "active",
           s.calls[c].completion = NoCompletion, NEW T \in SUBSET Tokens, ListedFor(s, c, T)
    PROVE  Handled(FailProviderWithUndelivered(Grant(s, c, T), c, T), s)
<1>. DEFINE r == FailProviderWithUndelivered(Grant(s, c, T), c, T)
<1>0. /\ ControlOk(s) /\ TokensOk(s, c, {}) /\ IsFiniteSet(s.calls[c].deliveries)
  BY CoreCall
<1>1. StepOk(r, s)
  BY <1>0, FailUndeliveredStep
<1>2. TokensOk(r, c, {})
  BY <1>0, FailUndeliveredTokens
<1>3. Counted(r, s, c, 0)
  BY <1>0, FailUndeliveredCounted
<1>. SUFFICES Handled(r, s) OBVIOUS
<1>. HIDE DEF r
<1>. QED BY <1>1, <1>2, <1>3, HandlerOk

(* The completion of a call that the provider ends with an error *)
LEMMA ErrorIsCompletion ==
    /\ ErrorCompletion \in Completions /\ CompletionOk(ErrorCompletion)
    /\ ErrorCompletion.kind = "error"
BY DEF ErrorCompletion, Completions, CompletionOk

(* An error event *)
LEMMA ErrorHandled ==
    ASSUME NEW s \in Bridges, NEW c \in Calls, CoreOk(s), s.calls[c].state = "active",
           s.calls[c].completion = NoCompletion
    PROVE  Handled(ScheduleTerminal(LockTerminal(s, c, ErrorCompletion), c), s)
<1>. DEFINE r == ScheduleTerminal(LockTerminal(s, c, ErrorCompletion), c)
<1>0. /\ ControlOk(s) /\ TokensOk(s, c, {}) /\ IsFiniteSet(s.calls[c].deliveries)
  BY CoreCall
<1>1. StepOk(r, s)
  <2>1. ErrorCompletion.kind \notin {"none", "failure"}
    BY ErrorIsCompletion
  <2>. QED BY <1>0, <2>1, ErrorIsCompletion, LockStep
<1>2. TokensOk(r, c, {})
  BY <1>0, ErrorTokens
<1>3. Counted(r, s, c, 0)
  BY <1>0, ErrorCounted
<1>. SUFFICES Handled(r, s) OBVIOUS
<1>. HIDE DEF r
<1>. QED BY <1>1, <1>2, <1>3, HandlerOk

(* The result of a request, the end of a stream *)
LEMMA TerminalHandled ==
    ASSUME NEW s \in Bridges, NEW c \in Calls, CoreOk(s), s.calls[c].state = "active",
           s.calls[c].completion = NoCompletion, NEW T \in SUBSET Tokens, NEW b \in 0..1,
           \A t \in T : s.held[t] = Fresh, Fits(s, T, b), T \cap s.byToken = {}
    PROVE  LET q == ReserveOutput(Grant(s, c, T), c, T, b)
               completion == [kind |-> "output", binary |-> b, grants |-> T]
           IN Handled(ScheduleTerminal(LockTerminal(q, c, completion), c), s)
<1>. DEFINE q == ReserveOutput(Grant(s, c, T), c, T, b)
            completion == [kind |-> "output", binary |-> b, grants |-> T]
            r == ScheduleTerminal(LockTerminal(q, c, completion), c)
<1>0. /\ ControlOk(s) /\ TokensOk(s, c, {}) /\ IsFiniteSet(s.calls[c].deliveries)
  BY CoreCall
<1>1. StepOk(r, s)
  BY <1>0, ReservedTerminalStep
<1>2. TokensOk(r, c, {})
  BY <1>0, ReservedTerminalTokens
<1>3. Counted(r, s, c, 0)
  BY <1>0, ReservedTerminalCounted
<1>. SUFFICES Handled(r, s) OBVIOUS
<1>. HIDE DEF r
<1>. QED BY <1>1, <1>2, <1>3, HandlerOk

(* A chunk, for the reader that waits longest *)
LEMMA ChunkHandled ==
    ASSUME NEW s \in Bridges, NEW c \in Calls, CoreOk(s), s.calls[c].state = "active",
           s.calls[c].completion = NoCompletion, s.calls[c].credits > 0,
           NEW i \in Nat, FirstWaiting(s.calls[c], i),
           NEW T \in SUBSET Tokens, NEW b \in 0..1,
           \A t \in T : s.held[t] = Fresh, Fits(s, T, b), T \cap s.byToken = {}
    PROVE  LET q == ReserveOutput(Grant(s, c, T), c, T, b)
               x == AssignedCall(s.calls[c], i, b, T)
           IN Handled(AfterChunk(q, c, x, s.calls[c].nextSequence), s)
<1>. DEFINE q == ReserveOutput(Grant(s, c, T), c, T, b)
            x == AssignedCall(s.calls[c], i, b, T)
            r == AfterChunk(q, c, x, s.calls[c].nextSequence)
<1>0. /\ ControlOk(s) /\ TokensOk(s, c, {}) /\ IsFiniteSet(s.calls[c].deliveries)
  BY CoreCall
<1>1. StepOk(r, s)
  <2>1. StepOk(q, s) /\ q.calls = s.calls
    <3>1. b \in Int
      OBVIOUS
    <3>. QED BY <1>0, <3>1, ReserveStep
  <2>. HIDE DEF q
  <2>2. q \in Bridges /\ ControlOk(q)
    BY <2>1 DEF StepOk
  <2>3. StepOk(AfterChunk(q, c, AssignedCall(q.calls[c], i, b, T),
                          q.calls[c].nextSequence), q)
    <3>1. /\ q.calls[c].state = "active" /\ q.calls[c].completion = NoCompletion
          /\ q.calls[c].credits > 0 /\ FirstWaiting(q.calls[c], i)
      BY <2>1
    <3>. QED BY <2>2, <3>1, ChunkStep
  <2>4. StepOk(r, q)
    BY <2>1, <2>3
  <2>. HIDE DEF r
  <2>. QED BY <2>1, <2>4, StepTrans
<1>2. TokensOk(r, c, {})
  <2>1. i \in 1..Len(s.calls[c].readers)
    BY DEF FirstWaiting
  <2>. QED BY <1>0, <2>1, ChunkTokens
<1>3. Counted(r, s, c, 0)
  BY <1>0, ChunkCounted
<1>. SUFFICES Handled(r, s) OBVIOUS
<1>. HIDE DEF r
<1>. QED BY <1>1, <1>2, <1>3, HandlerOk

(* The port rejects. *)
LEMMA RejectHandled ==
    ASSUME NEW s \in Bridges, NEW c \in Calls, CoreOk(s)
    PROVE  Handled(FailProvider(s, c), s)
<1>. DEFINE r == FailProvider(s, c)
<1>0. /\ ControlOk(s) /\ TokensOk(s, c, {}) /\ IsFiniteSet(s.calls[c].deliveries)
  BY CoreCall
<1>1. StepOk(r, s)
  BY <1>0, FailStep
<1>2. TokensOk(r, c, {})
  BY <1>0, FailTokens
<1>3. Counted(r, s, c, 0)
  BY <1>0, FailCounted
<1>. SUFFICES Handled(r, s) OBVIOUS
<1>. HIDE DEF r
<1>. QED BY <1>1, <1>2, <1>3, HandlerOk

(* An event that the provider emits while its call is being cleaned *)
LEMMA ReentrantHandled ==
    ASSUME NEW s \in Bridges, NEW c \in Calls, CoreOk(s), s.calls[c].state = "active",
           OnStack(s, c), NEW T \in SUBSET Tokens, ListedFor(s, c, T)
    PROVE  Handled(CloseUndeliveredGrants(Grant(s, c, T), c, T), s)
<1>. DEFINE r == CloseUndeliveredGrants(Grant(s, c, T), c, T)
<1>0. /\ ControlOk(s) /\ TokensOk(s, c, {}) /\ IsFiniteSet(s.calls[c].deliveries)
  BY CoreCall
<1>1. StepOk(r, s)
  BY <1>0, ReentrantStep
<1>2. TokensOk(r, c, {})
  BY <1>0, ReentrantTokens
<1>3. Counted(r, s, c, 0)
  BY <1>0, ReentrantCounted
<1>. SUFFICES Handled(r, s) OBVIOUS
<1>. HIDE DEF r
<1>. QED BY <1>1, <1>2, <1>3, HandlerOk

(* The provider takes a resource back. *)
LEMMA RevokeHandled ==
    ASSUME NEW s \in Bridges, NEW c \in Calls, CoreOk(s), NEW t \in Tokens, s.held[t] = c
    PROVE  LET queued == t \in s.byToken /\ s.resources[t].call = c
                         /\ ~s.resources[t].revokeQueued
           IN Handled(AfterRevoke(s, c, t, queued), s)
<1>. DEFINE queued == t \in s.byToken /\ s.resources[t].call = c
                      /\ ~s.resources[t].revokeQueued
            r == AfterRevoke(s, c, t, queued)
<1>0. /\ ControlOk(s) /\ TokensOk(s, c, {}) /\ IsFiniteSet(s.calls[c].deliveries)
  BY CoreCall
<1>1. queued \in BOOLEAN
  BY DEF Bridges, ResourceRecords
<1>2. StepOk(r, s)
  <2>. HIDE DEF queued
  <2>. QED BY <1>0, <1>1, RevokeStep
<1>3. r \in Bridges /\ RevokeEffect(r, s, c, t, queued)
  <2>. HIDE DEF queued
  <2>. QED BY <1>1, RevokeFields
<1>4. Counted(r, s, c, 0)
  <2>. HIDE DEF queued
  <2>. QED BY <1>0, <1>1, RevokedCounted
<1>. SUFFICES Handled(r, s) OBVIOUS
<1>. HIDE DEF r
<1>5. TokensOk(r, c, {})
  BY <1>0, <1>3, RevokedTokens
<1>. QED BY <1>2, <1>4, <1>5, HandlerOk

(* The cleanup of a call, and the tasks of the loop *)
LEMMA CleanedHandled ==
    ASSUME NEW s \in Bridges, NEW c \in Calls, CoreOk(s), NEW t \in s.calls[c].todo
    PROVE  Handled(AfterClose(s, c, t), s)
<1>. DEFINE r == AfterClose(s, c, t)
<1>0. /\ ControlOk(s) /\ TokensOk(s, c, {}) /\ IsFiniteSet(s.calls[c].deliveries)
      /\ t \in Tokens
  BY CoreCall, GrantsAreTokens
<1>1. StepOk(r, s)
  BY <1>0, CloseNextStep
<1>2. TokensOk(r, c, {})
  BY <1>0, CleanedTokens
<1>3. Counted(r, s, c, 0)
  BY <1>0, CleanedCounted
<1>. SUFFICES Handled(r, s) OBVIOUS
<1>. HIDE DEF r
<1>. QED BY <1>1, <1>2, <1>3, HandlerOk

(* cancelPendingProvider at the end of a cleanup *)
LEMMA CancelHandled ==
    ASSUME NEW s \in Bridges, NEW c \in Calls, CoreOk(s)
    PROVE  Handled(CancelProvider(s, c), s)
<1>. DEFINE r == CancelProvider(s, c)
<1>0. /\ ControlOk(s) /\ TokensOk(s, c, {}) /\ IsFiniteSet(s.calls[c].deliveries)
  BY CoreCall
<1>1. StepOk(r, s)
  BY <1>0, CancelStep
<1>2. TokensOk(r, c, {})
  BY <1>0, CancelTokens
<1>3. Counted(r, s, c, 0)
  BY <1>0, CancelCounted
<1>. SUFFICES Handled(r, s) OBVIOUS
<1>. HIDE DEF r
<1>. QED BY <1>1, <1>2, <1>3, HandlerOk

(* The end of a cleanup: the terminal is scheduled. *)
LEMMA FinishCleanupHandled ==
    ASSUME NEW s \in Bridges, NEW c \in Calls, CoreOk(s), s.stack # <<>>,
           c = s.stack[Len(s.stack)], s.calls[c].cancelIssued
    PROVE  Handled(ScheduleTerminal(Pop(s), c), s)
<1>. DEFINE r == ScheduleTerminal(Pop(s), c)
<1>0. ControlOk(s) /\ TokensOk(s, c, {})
  BY CoreCall
<1>1. StepOk(r, s)
  BY <1>0, FinishCleanupStep
<1>2. TokensOk(r, c, {})
  BY <1>0, StackTokens
<1>3. Counted(r, s, c, 0)
  BY <1>0, FinishCleanupCounted
<1>. SUFFICES Handled(r, s) OBVIOUS
<1>. HIDE DEF r
<1>. QED BY <1>1, <1>2, <1>3, HandlerOk

(* deliverTerminal: an error, an output, or an output that was withdrawn   *)
(* in the meantime                                                         *)
LEMMA DeliverTerminalHandled ==
    ASSUME NEW s \in Bridges, NEW c \in Calls, CoreOk(s), s.queue # <<>>,
           Head(s.queue) = Terminal(c)
    PROVE  LET q == TakeTerminal(s, c)
               done == s.calls[c].completion
           IN /\ done.kind \in Errors => Handled(Settle(q, c, done.kind), s)
              /\ Deliverable(q, done.grants) => \A end \in {"result", "end"} :
                     Handled(Settle(DeliverOutput(q, done.grants, done.binary), c, end), s)
              /\ Handled(Abort(ReleaseOutput(q, c, done.grants, done.binary), c), s)
<1>. DEFINE q == TakeTerminal(s, c)
            done == s.calls[c].completion
            r1 == Settle(q, c, done.kind)
            r2(end) == Settle(DeliverOutput(q, done.grants, done.binary), c, end)
            r3 == Abort(ReleaseOutput(q, c, done.grants, done.binary), c)
<1>0. ControlOk(s) /\ TokensOk(s, c, {}) /\ s.calls[c] \in CallRecords
  BY CoreCall
<1>1. done.grants \in SUBSET Tokens /\ done.binary \in Int
  <2>1. done \in Completions
    BY <1>0 DEF CallRecords
  <2>. QED BY <2>1 DEF Completions
<1>2. /\ done.kind \in Errors => StepOk(r1, s)
      /\ \A end \in {"result", "end"} : StepOk(r2(end), s)
      /\ StepOk(r3, s)
  BY <1>0, <1>1, DeliverTerminalStep
<1>3. /\ done.kind \in Errors => TokensOk(r1, c, {})
      /\ Deliverable(q, done.grants) => \A end \in {"result", "end"} : TokensOk(r2(end), c, {})
      /\ TokensOk(r3, c, {})
  BY <1>0, DeliverTerminalTokens
<1>4. /\ done.kind \in Errors => Counted(r1, s, c, 0)
      /\ \A end \in {"result", "end"} : Counted(r2(end), s, c, 0)
      /\ Counted(r3, s, c, 0)
  BY <1>0, DeliverTerminalCounted
<1>5. ASSUME done.kind \in Errors PROVE Handled(r1, s)
  <2>. HIDE DEF r1
  <2>. QED BY <1>2, <1>3, <1>4, <1>5, HandlerOk
<1>6. ASSUME Deliverable(q, done.grants), NEW end \in {"result", "end"}
      PROVE  Handled(r2(end), s)
  <2>. HIDE DEF r2
  <2>. QED BY <1>2, <1>3, <1>4, <1>6, HandlerOk
<1>7. Handled(r3, s)
  <2>. HIDE DEF r3
  <2>. QED BY <1>2, <1>3, <1>4, HandlerOk
<1>. QED BY <1>5, <1>6, <1>7

(* deliverChunk: a chunk, or one that was withdrawn in the meantime *)
LEMMA DeliverChunkHandled ==
    ASSUME NEW s \in Bridges, NEW c \in Calls, CoreOk(s), s.queue # <<>>,
           NEW k, Head(s.queue) = Chunk(c, k),
           NEW d \in s.calls[c].deliveries, d.sequence = k
    PROVE  LET q == TakeChunk(s, c, d)
           IN /\ Deliverable(q, d.grants) =>
                     Handled(AnswerReader(DeliverOutput(q, d.grants, d.binary), c, d, "chunk"), s)
              /\ Handled(FailProvider(
                     AnswerReader(ReleaseOutput(q, c, d.grants, d.binary), c, d, "error"), c), s)
<1>. DEFINE q == TakeChunk(s, c, d)
            r1 == AnswerReader(DeliverOutput(q, d.grants, d.binary), c, d, "chunk")
            r2 == FailProvider(
                     AnswerReader(ReleaseOutput(q, c, d.grants, d.binary), c, d, "error"), c)
<1>0. ControlOk(s) /\ TokensOk(s, c, {}) /\ s.calls[c] \in CallRecords
  BY CoreCall
<1>1. d.grants \in SUBSET Tokens /\ d.binary \in Int
  <2>1. d \in Deliveries
    BY <1>0 DEF CallRecords
  <2>. QED BY <2>1 DEF Deliveries
<1>2. StepOk(r1, s) /\ StepOk(r2, s)
  BY <1>0, <1>1, DeliverChunkStep
<1>3. /\ Deliverable(q, d.grants) => TokensOk(r1, c, {})
      /\ TokensOk(r2, c, {})
  BY <1>0, DeliverChunkTokens
<1>4. Counted(r1, s, c, 0) /\ Counted(r2, s, c, 0)
  BY <1>0, DeliverChunkCounted
<1>5. ASSUME Deliverable(q, d.grants) PROVE Handled(r1, s)
  <2>. HIDE DEF r1
  <2>. QED BY <1>2, <1>3, <1>4, <1>5, HandlerOk
<1>6. Handled(r2, s)
  <2>. HIDE DEF r2
  <2>. QED BY <1>2, <1>3, <1>4, HandlerOk
<1>. QED BY <1>5, <1>6

(* applyProviderResourceRevoke *)
LEMMA ApplyRevokeHandled ==
    ASSUME NEW s \in Bridges, NEW c \in Calls, CoreOk(s), s.queue # <<>>,
           NEW t \in Tokens, Head(s.queue) = Revocation(c, t)
    PROVE  /\ Handled(Dequeue(s), s)
           /\ t \in s.byToken => Handled(Drop(Dequeue(s), {t}, "closed"), s)
<1>. DEFINE r1 == Dequeue(s)
            r2 == Drop(Dequeue(s), {t}, "closed")
<1>0. /\ ControlOk(s) /\ TokensOk(s, c, {}) /\ IsFiniteSet(s.calls[c].deliveries)
  BY CoreCall
<1>1. Head(s.queue).kind = "revoke" /\ s.held[t] = Revoked
  <2>1. Head(s.queue) = s.queue[1] /\ 1 \in 1..Len(s.queue)
    <3>1. s.queue \in Seq(Tasks)
      BY DEF Bridges
    <3>. QED BY <3>1
  <2>2. TaskOk(s, s.queue[1])
    BY <1>0, <2>1 DEF ControlOk, QueueOk
  <2>3. s.queue[1].kind = "revoke" /\ s.queue[1].arg = t
    BY <2>1 DEF Revocation
  <2>. QED BY <2>1, <2>2, <2>3 DEF TaskOk
<1>2. StepOk(r1, s) /\ StepOk(r2, s)
  BY <1>0, <1>1, ApplyRevokeStep
<1>3. TokensOk(r1, c, {}) /\ TokensOk(r2, c, {})
  BY <1>0, <1>1, ApplyRevokeTokens
<1>4. Counted(r1, s, c, 0)
  BY <1>0, DequeueCounted
<1>5. t \in s.byToken => Counted(r2, s, c, 0)
  BY <1>0, DropCounted
<1>6. Handled(r1, s)
  <2>. HIDE DEF r1
  <2>. QED BY <1>2, <1>3, <1>4, HandlerOk
<1>7. ASSUME t \in s.byToken PROVE Handled(r2, s)
  <2>. HIDE DEF r2
  <2>. QED BY <1>2, <1>3, <1>5, <1>7, HandlerOk
<1>. QED BY <1>6, <1>7

(* A call is admitted. *)
LEMMA AdmitHandled ==
    ASSUME NEW s \in Bridges, NEW c \in Calls, CoreOk(s), s.calls[c].state = "unused",
           NEW id \in Ids, NEW mode \in {"result", "stream"}, NEW input \in 0..1,
           NEW deadline \in BOOLEAN,
           LET handles == input + StreamHandle(NewCall(id, mode, input, deadline))
           IN s.inFlight + input <= MaxInFlight /\ s.openHandles + handles <= MaxHandles
    PROVE  LET r == AfterAdmit(s, c, NewCall(id, mode, input, deadline))
           IN /\ r \in Bridges /\ CoreOk(r)
              /\ SameCalls(r, s, c) /\ s.calls[c].readers = <<>>
              /\ OnStack(r, Termination) <=> OnStack(s, Termination)
<1>. DEFINE r == AfterAdmit(s, c, NewCall(id, mode, input, deadline))
<1>0. ControlOk(s) /\ TokensOk(s, 1, {})
  BY DEF CoreOk
<1>1. r \in Bridges /\ ControlOk(r) /\ SameCalls(r, s, c) /\ s.calls[c].readers = <<>>
  BY <1>0, AdmitStep
<1>2. TokensOk(r, 1, {})
  BY <1>0, AdmitTokens
<1>3. Counted(r, s, c, 0)
  BY <1>0, AdmitCounted
<1>. SUFFICES /\ r \in Bridges /\ CoreOk(r)
              /\ SameCalls(r, s, c) /\ s.calls[c].readers = <<>>
              /\ OnStack(r, Termination) <=> OnStack(s, Termination)
  OBVIOUS
<1>. HIDE DEF r
<1>4. QuotaOk(r)
  BY <1>0, <1>1, <1>3, CountedQuota DEF CoreOk
<1>5. OnStack(r, Termination) <=> OnStack(s, Termination)
  BY <1>3 DEF Counted
<1>. QED BY <1>1, <1>2, <1>4, <1>5 DEF CoreOk

(* terminateBridge begins, *)
LEMMA TerminateHandled ==
    ASSUME NEW s \in Bridges, CoreOk(s), ~OnStack(s, Termination)
    PROVE  LET r == Push(s, Termination)
           IN /\ r \in Bridges /\ CoreOk(r) /\ Advance(r, s)
              /\ OnStack(r, Termination)
<1>. DEFINE r == Push(s, Termination)
<1>0. ControlOk(s) /\ TokensOk(s, 1, {}) /\ QuotaOk(s)
  BY DEF CoreOk
<1>1. StepOk(r, s) /\ OnStack(r, Termination)
  BY <1>0, TerminateStep
<1>2. TokensOk(r, 1, {})
  BY <1>0, StackTokens
<1>3. /\ r.calls = s.calls /\ r.byToken = s.byToken /\ r.credits = s.credits
      /\ SameCounters(r, s)
  BY DEF Push, Bridges, SameCounters
<1>. SUFFICES /\ r \in Bridges /\ CoreOk(r) /\ Advance(r, s)
              /\ OnStack(r, Termination)
  OBVIOUS
<1>. HIDE DEF r
<1>4. QuotaOk(r)
  BY <1>0, <1>3, QuotaSame
<1>. QED BY <1>1, <1>2, <1>4 DEF CoreOk, StepOk

(* Once no call is pending and no resource open, nothing is left, *)
LEMMA NothingLeft ==
    ASSUME NEW s \in Bridges, CoreOk(s), \A c \in Calls : s.calls[c].state # "active",
           \A t \in Tokens : s.resources[t].status # "open"
    PROVE  s.byToken = {}
<1>1. s.byToken \in SUBSET Tokens
  BY DEF Bridges
<1>2. ASSUME NEW t \in s.byToken PROVE FALSE
  <2>. DEFINE c == s.resources[t].call
  <2>1. t \in Tokens /\ TokensOk(s, 1, {})
    BY <1>1 DEF CoreOk
  <2>2. /\ c \in Calls /\ s.resources[t].status = "reserved"
        /\ t \in QueuedGrants(s.calls[c]) \cup InHand(c, 1, {})
    BY <2>1, TokenFacts
  <2>3. t \in QueuedGrants(s.calls[c])
    BY <2>2 DEF InHand
  <2>4. Over(s.calls[c])
    BY <2>2, CoreCall DEF CallOk
  <2>5. QueuedGrants(s.calls[c]) = {}
    BY <2>4 DEF Over, QueuedGrants, NoCompletion
  <2>. QED BY <2>3, <2>5
<1>. QED BY <1>1, <1>2

(* and terminateBridge returns. *)
LEMMA FinishTerminationHandled ==
    ASSUME NEW s \in Bridges, CoreOk(s), s.stack # <<>>,
           s.stack[Len(s.stack)] = Termination,
           \A c \in Calls : s.calls[c].state # "active",
           \A t \in Tokens : s.resources[t].status # "open"
    PROVE  LET r == AfterTermination(s)
           IN /\ r \in Bridges /\ CoreOk(r) /\ Advance(r, s)
              /\ r.calls = s.calls /\ r.byToken = {} /\ r.queue = <<>>
              /\ ~OnStack(r, Termination)
<1>. DEFINE r == AfterTermination(s)
<1>0. ControlOk(s) /\ TokensOk(s, 1, {}) /\ QuotaOk(s)
  BY DEF CoreOk
<1>1. /\ StepOk(r, s)
      /\ SameProvider(r, s) /\ SameCounters(r, s) /\ r.calls = s.calls
      /\ r.credits = s.credits /\ r.queue = <<>>
      /\ ~OnStack(r, Termination)
  BY <1>0, FinishTerminationStep
<1>. SUFFICES /\ r \in Bridges /\ CoreOk(r) /\ Advance(r, s)
              /\ r.calls = s.calls /\ r.byToken = {} /\ r.queue = <<>>
              /\ ~OnStack(r, Termination)
  OBVIOUS
<1>. HIDE DEF r
<1>2. TokensOk(r, 1, {})
  <2>1. \A d \in Calls : SameTokens(r.calls[d], s.calls[d])
    BY <1>1, SameTokensRefl
  <2>. QED BY <1>0, <1>1, <2>1, TokensSame
<1>3. r.byToken = {}
  BY <1>1, NothingLeft DEF SameProvider
<1>4. QuotaOk(r)
  BY <1>0, <1>1, QuotaSame DEF SameProvider
<1>. QED BY <1>1, <1>2, <1>3, <1>4 DEF CoreOk, StepOk

-----------------------------------------------------------------------------
(* Steps of the specification                                              *)

(* What was answered stays answered. *)
KeepsAnswers(r, s) ==
    \A c \in Calls :
        /\ s.calls[c].state = "settled" =>
               r.calls[c].state = "settled" /\ r.calls[c].outcome = s.calls[c].outcome
        /\ \A i \in 1..Len(s.calls[c].readers) :
               s.calls[c].readers[i] \in Answered =>
                   r.calls[c].readers[i] = s.calls[c].readers[i]

Quiet(s) ==
    /\ \A c \in Calls : s.calls[c].state # "active"
    /\ s.byToken = {} /\ s.queue = <<>>

Safe == IInv' /\ KeepsAnswers(State', State)

(* The state as a record *)
LEMMA StateIs ==
    /\ State.calls = calls /\ State.resources = resources /\ State.byToken = byToken
    /\ State.inFlight = inFlight /\ State.openHandles = openHandles
    /\ State.openResources = openResources /\ State.credits = credits
    /\ State.queue = queue /\ State.stack = stack /\ State.held = held
    /\ State.strayClose = strayClose
BY DEF State

(* The next state as a record *)
LEMMA NextStateIs ==
    ASSUME NEW r \in Bridges, Becomes(r)
    PROVE  State' = r
<1>1. r = [calls |-> r.calls, resources |-> r.resources, byToken |-> r.byToken,
           inFlight |-> r.inFlight, openHandles |-> r.openHandles,
           openResources |-> r.openResources, credits |-> r.credits, queue |-> r.queue,
           stack |-> r.stack, held |-> r.held, strayClose |-> r.strayClose]
  BY DEF Bridges
<1>. QED BY <1>1 DEF State, Becomes

(* The invariant, by its parts *)
LEMMA InvParts ==
    ASSUME IInv
    PROVE  /\ State \in Bridges /\ CoreOk(State) /\ nextCall \in Nat \ {0}
           /\ disposed \in BOOLEAN
           /\ \A c \in Calls : c >= nextCall => State.calls[c].state = "unused"
           /\ OnStack(State, Termination) => disposed
           /\ disposed /\ ~OnStack(State, Termination) => Quiet(State)
<1>1. /\ State \in Bridges /\ CoreOk(State) /\ nextCall \in Nat \ {0}
      /\ disposed \in BOOLEAN
      /\ \A c \in Calls : c >= nextCall => State.calls[c].state = "unused"
  BY DEF IInv, CoreOk, Numbered
<1>2. /\ OnStack(State, Termination) => disposed
      /\ disposed /\ ~OnStack(State, Termination) =>
             Pending = {} /\ byToken = {} /\ queue = <<>>
  BY DEF IInv, DisposedOk
<1>3. Pending = {} => \A c \in Calls : State.calls[c].state # "active"
  BY StateIs DEF Pending
<1>. QED BY <1>1, <1>2, <1>3, StateIs DEF Quiet

(* The invariant of the next state, from its parts *)
LEMMA InvReached ==
    ASSUME NEW r \in Bridges, Becomes(r), CoreOk(r), nextCall' \in Nat \ {0},
           disposed' \in BOOLEAN,
           \A c \in Calls : c >= nextCall' => r.calls[c].state = "unused",
           OnStack(r, Termination) => disposed',
           disposed' /\ ~OnStack(r, Termination) => Quiet(r)
    PROVE  IInv' /\ State' = r
<1>1. State' = r
  BY NextStateIs
<1>2. CoreOk(r) => ControlOk(r) /\ TokensOk(r, 1, {}) /\ QuotaOk(r)
  BY DEF CoreOk
<1>3. Numbered(State', nextCall')
  BY <1>1 DEF Numbered
<1>4. DisposedOk'
  <2>1. calls' = r.calls /\ byToken' = r.byToken /\ queue' = r.queue
    BY DEF Becomes
  <2>2. Quiet(r) => Pending' = {} /\ byToken' = {} /\ queue' = <<>>
    BY <2>1 DEF Quiet, Pending
  <2>3. /\ OnStack(State', Termination) => disposed'
        /\ disposed' /\ ~OnStack(State', Termination) =>
               Pending' = {} /\ byToken' = {} /\ queue' = <<>>
    BY <1>1, <2>2
  <2>. QED BY <2>3 DEF DisposedOk
<1>5. /\ State' \in Bridges /\ ControlOk(State') /\ TokensOk(State', 1, {})
      /\ QuotaOk(State')
  BY <1>1, <1>2
<1>6. nextCall' \in Nat
  OBVIOUS
<1>. QED BY <1>1, <1>3, <1>4, <1>5, <1>6 DEF IInv

(* A handler that is not the last thing that happens is safe. *)
LEMMA HandlerSafe ==
    ASSUME IInv, NEW r, Becomes(r), Handled(r, State), UNCHANGED <<nextCall, disposed>>,
           Quiet(State) => Quiet(r)
    PROVE  Safe
<1>0. /\ State \in Bridges /\ CoreOk(State) /\ nextCall \in Nat \ {0}
      /\ disposed \in BOOLEAN
      /\ \A c \in Calls : c >= nextCall => State.calls[c].state = "unused"
      /\ OnStack(State, Termination) => disposed
      /\ disposed /\ ~OnStack(State, Termination) => Quiet(State)
  BY InvParts
<1>1. /\ r \in Bridges /\ CoreOk(r) /\ Advance(r, State)
      /\ OnStack(r, Termination) <=> OnStack(State, Termination)
  BY DEF Handled
<1>2. \A c \in Calls : c >= nextCall' => r.calls[c].state = "unused"
  BY <1>0, <1>1 DEF Advance, Advances
<1>3. IInv' /\ State' = r
  <2>1. nextCall' \in Nat \ {0} /\ disposed' = disposed /\ disposed' \in BOOLEAN
    BY <1>0
  <2>. QED BY <1>0, <1>1, <1>2, <2>1, InvReached
<1>4. KeepsAnswers(r, State)
  BY <1>1 DEF KeepsAnswers, Advance, Advances
<1>. QED BY <1>3, <1>4 DEF Safe

(* A state with something left to do is not quiet. *)
LEMMA NotQuiet ==
    ASSUME NEW s
    PROVE  /\ \A c \in Calls : s.calls[c].state = "active" => ~Quiet(s)
           /\ \A t \in s.byToken : ~Quiet(s)
           /\ s.queue # <<>> => ~Quiet(s)
BY DEF Quiet

(* request and stream *)
LEMMA AdmitSafe ==
    ASSUME IInv, NEW id \in Ids, NEW mode \in Modes, NEW input \in Binaries,
           NEW deadline \in Deadlines, Admit(id, mode, input, deadline)
    PROVE  Safe
<1>. DEFINE c == nextCall
            call == NewCall(id, mode, input, deadline)
            r == AfterAdmit(State, c, call)
<1>0. /\ State \in Bridges /\ CoreOk(State) /\ nextCall \in Nat \ {0}
      /\ disposed \in BOOLEAN
      /\ \A d \in Calls : d >= nextCall => State.calls[d].state = "unused"
      /\ OnStack(State, Termination) => disposed
  BY InvParts
<1>1. /\ mode \in {"result", "stream"} /\ input \in 0..1 /\ deadline \in BOOLEAN
  BY Constants
<1>2. c \in Calls
  BY <1>0, LimitAssumption DEF Admit, Calls
<1>3. State.calls[c].state = "unused"
  BY <1>0, <1>2
<1>4. call.input = input
  BY <1>1, NewCallFields
<1>5. /\ ~disposed /\ State.inFlight + input <= MaxInFlight
      /\ State.openHandles + (input + StreamHandle(call)) <= MaxHandles
  BY StateIs DEF Admit, Admissible, NewCall
<1>6. Becomes(r)
  <2>1. Becomes([State EXCEPT !.calls[c] = call, !.inFlight = @ + input,
                              !.openHandles = @ + (input + StreamHandle(call))])
    BY DEF Admit, NewCall
  <2>2. r = [State EXCEPT !.calls[c] = call, !.inFlight = @ + input,
                          !.openHandles = @ + (input + StreamHandle(call))]
    BY <1>4 DEF AfterAdmit
  <2>. QED BY <2>1, <2>2
<1>7. /\ r \in Bridges /\ CoreOk(r)
      /\ SameCalls(r, State, c) /\ State.calls[c].readers = <<>>
      /\ OnStack(r, Termination) <=> OnStack(State, Termination)
  BY <1>0, <1>1, <1>2, <1>3, <1>5, AdmitHandled
<1>8. nextCall' = c + 1 /\ disposed' = disposed
  BY DEF Admit
<1>. HIDE DEF r
<1>9. \A d \in Calls : d >= nextCall' => r.calls[d].state = "unused"
  <2>. TAKE d \in Calls
  <2>1. d >= c + 1 => d # c /\ d >= c
    BY <1>0 DEF Calls
  <2>. QED BY <1>0, <1>7, <1>8, <2>1 DEF SameCalls
<1>10. IInv' /\ State' = r
  <2>1. nextCall' \in Nat \ {0} /\ ~disposed' /\ disposed' \in BOOLEAN
    BY <1>0, <1>5, <1>8
  <2>2. OnStack(r, Termination) => disposed'
    BY <1>0, <1>7, <1>8
  <2>. QED BY <1>6, <1>7, <1>9, <2>1, <2>2, InvReached
<1>11. KeepsAnswers(r, State)
  <2>. SUFFICES ASSUME NEW d \in Calls
                PROVE  /\ State.calls[d].state = "settled" =>
                              /\ r.calls[d].state = "settled"
                              /\ r.calls[d].outcome = State.calls[d].outcome
                       /\ \A i \in 1..Len(State.calls[d].readers) :
                              State.calls[d].readers[i] \in Answered =>
                                  r.calls[d].readers[i] = State.calls[d].readers[i]
    BY DEF KeepsAnswers
  <2>1. CASE d = c
    <3>1. 1..Len(State.calls[d].readers) = {}
      BY <1>7, <2>1
    <3>2. State.calls[d].state # "settled"
      BY <1>3, <2>1
    <3>. QED BY <3>1, <3>2
  <2>2. CASE d # c
    BY <1>7, <2>2 DEF SameCalls
  <2>. QED BY <2>1, <2>2
<1>. QED BY <1>10, <1>11 DEF Safe

(* next() of a stream *)
LEMMA ReadSafe ==
    ASSUME IInv, NEW c \in Calls, ReadStream(c)
    PROVE  Safe
<1>0. State \in Bridges /\ CoreOk(State)
  BY InvParts
<1>1. /\ State.calls[c].state = "active" /\ State.calls[c].mode = "stream"
      /\ Len(State.calls[c].readers) < MaxReads
      /\ UNCHANGED <<nextCall, disposed>>
  BY StateIs DEF ReadStream, IsCurrent
<1>2. ~Quiet(State)
  BY <1>1, NotQuiet
<1>3. CASE Locked(State, c)
  <2>1. Becomes(AfterRead(State, c))
    BY <1>3 DEF ReadStream, AfterRead
  <2>2. Handled(AfterRead(State, c), State)
    BY <1>0, <1>1, <1>3, ReadHandled DEF Locked
  <2>. QED BY <1>1, <1>2, <2>1, <2>2, HandlerSafe
<1>4. CASE ~Locked(State, c)
  <2>1. Becomes(AfterCredit(State, c)) /\ State.credits < MaxOutstandingCredits
    BY <1>4, StateIs DEF ReadStream, AfterRead, AfterCredit
  <2>2. Handled(AfterCredit(State, c), State)
    BY <1>0, <1>1, <1>4, <2>1, ReadHandled DEF Locked
  <2>. QED BY <1>1, <1>2, <2>1, <2>2, HandlerSafe
<1>. QED BY <1>3, <1>4

(* A call is aborted: by its guest, its deadline, the end of the bridge *)
LEMMA AbortSafe ==
    ASSUME IInv, NEW c \in Calls, calls[c].state = "active", Becomes(Abort(State, c)),
           UNCHANGED <<nextCall, disposed>>
    PROVE  Safe
<1>0. State \in Bridges /\ CoreOk(State) /\ State.calls[c].state = "active"
  BY InvParts, StateIs
<1>1. ~Quiet(State)
  BY <1>0, NotQuiet
<1>2. Handled(Abort(State, c), State)
  BY <1>0, AbortHandled
<1>. QED BY <1>1, <1>2, HandlerSafe

(* A resource is closed: by its guest, or with the bridge *)
LEMMA CloseSafe ==
    ASSUME IInv, NEW t \in Tokens, resources[t].status = "open",
           Becomes(CloseResource(State, t, TRUE)), UNCHANGED <<nextCall, disposed>>
    PROVE  Safe
<1>0. State \in Bridges /\ CoreOk(State) /\ State.resources[t].status = "open"
  BY InvParts, StateIs
<1>1. t \in State.byToken
  BY <1>0, TokenFacts DEF CoreOk
<1>2. ~Quiet(State)
  BY <1>1, NotQuiet
<1>3. Handled(CloseResource(State, t, TRUE), State)
  BY <1>0, CloseHandled
<1>. QED BY <1>2, <1>3, HandlerSafe

(* terminateBridge *)
LEMMA TerminateSafe ==
    ASSUME IInv, Terminate
    PROVE  Safe
<1>. DEFINE r == Push(State, Termination)
<1>0. /\ State \in Bridges /\ CoreOk(State) /\ nextCall \in Nat \ {0}
      /\ \A c \in Calls : c >= nextCall => State.calls[c].state = "unused"
      /\ OnStack(State, Termination) => disposed
  BY InvParts
<1>1. ~disposed /\ disposed' = TRUE /\ nextCall' = nextCall /\ Becomes(r)
  BY DEF Terminate
<1>2. /\ r \in Bridges /\ CoreOk(r) /\ Advance(r, State)
      /\ OnStack(r, Termination)
  BY <1>0, <1>1, TerminateHandled
<1>. HIDE DEF r
<1>3. \A c \in Calls : c >= nextCall' => r.calls[c].state = "unused"
  BY <1>0, <1>1, <1>2 DEF Advance, Advances
<1>4. IInv' /\ State' = r
  <2>1. nextCall' \in Nat \ {0} /\ disposed' /\ disposed' \in BOOLEAN
    BY <1>0, <1>1
  <2>. QED BY <1>1, <1>2, <1>3, <2>1, InvReached
<1>5. KeepsAnswers(r, State)
  BY <1>2 DEF KeepsAnswers, Advance, Advances
<1>. QED BY <1>4, <1>5 DEF Safe

(* terminateBridge returns. *)
LEMMA FinishTerminationSafe ==
    ASSUME IInv, FinishTermination
    PROVE  Safe
<1>. DEFINE r == AfterTermination(State)
<1>0. /\ State \in Bridges /\ CoreOk(State) /\ nextCall \in Nat \ {0}
      /\ disposed \in BOOLEAN
      /\ \A c \in Calls : c >= nextCall => State.calls[c].state = "unused"
  BY InvParts
<1>1. /\ State.stack # <<>> /\ State.stack[Len(State.stack)] = Termination
      /\ \A c \in Calls : State.calls[c].state # "active"
      /\ \A t \in Tokens : State.resources[t].status # "open"
      /\ nextCall' = nextCall /\ disposed' = disposed
  BY StateIs DEF FinishTermination, Terminating, Top, Pending, OpenRecords
<1>2. Becomes(r)
  BY DEF FinishTermination, AfterTermination
<1>3. /\ r \in Bridges /\ CoreOk(r) /\ Advance(r, State)
      /\ r.calls = State.calls /\ r.byToken = {} /\ r.queue = <<>>
      /\ ~OnStack(r, Termination)
  BY <1>0, <1>1, FinishTerminationHandled
<1>. HIDE DEF r
<1>4. \A c \in Calls : c >= nextCall' => r.calls[c].state = "unused"
  BY <1>0, <1>1, <1>3
<1>5. Quiet(r)
  BY <1>1, <1>3 DEF Quiet
<1>6. IInv' /\ State' = r
  <2>1. nextCall' \in Nat \ {0} /\ disposed' \in BOOLEAN
    BY <1>0, <1>1
  <2>. QED BY <1>2, <1>3, <1>4, <1>5, <2>1, InvReached
<1>7. KeepsAnswers(r, State)
  BY <1>3 DEF KeepsAnswers, Advance, Advances
<1>. QED BY <1>6, <1>7 DEF Safe

(* What an event of the provider may list *)
LEMMA ListedTokens ==
    ASSUME IInv, NEW c \in Calls
    PROVE  /\ \A T \in Listed({}) :
                 T \in SUBSET Tokens /\ \A t \in T : State.held[t] = Fresh
           /\ \A T \in Listed(InUse) : T \in SUBSET Tokens /\ ListedFor(State, c, T)
           /\ \A T \in Listed(InUse \cup calls[c].closedTokens) :
                 T \in SUBSET Tokens /\ ListedFor(State, c, T)
<1>1. /\ State.byToken \in SUBSET Tokens /\ State.calls[c].closedTokens \in SUBSET Tokens
  BY InvParts, GrantsAreTokens
<1>2. InUse \in SUBSET Tokens /\ \A t \in InUse : t \in State.byToken /\ State.held[t] \in Calls
  BY <1>1, StateIs DEF InUse
<1>3. Unused \in SUBSET Tokens /\ \A t \in Unused : State.held[t] = Fresh
  BY StateIs DEF Unused
<1>4. \A T \in Listed({}) : T \subseteq Unused
  BY DEF Listed
<1>5. \A T \in Listed(InUse) : T \subseteq Unused \cup InUse
  BY DEF Listed
<1>6. \A T \in Listed(InUse \cup calls[c].closedTokens) :
          T \subseteq Unused \cup InUse \cup State.calls[c].closedTokens
  BY StateIs DEF Listed
<1>7. \A T \in Listed({}) : T \in SUBSET Tokens /\ \A t \in T : State.held[t] = Fresh
  BY <1>3, <1>4
<1>8. \A T \in Listed(InUse) : T \in SUBSET Tokens /\ ListedFor(State, c, T)
  BY <1>2, <1>3, <1>5 DEF ListedFor
<1>9. \A T \in Listed(InUse \cup calls[c].closedTokens) :
          T \in SUBSET Tokens /\ ListedFor(State, c, T)
  BY <1>1, <1>2, <1>3, <1>6 DEF ListedFor
<1>. QED BY <1>7, <1>8, <1>9

(* An event is for a pending call that is not locked. *)
LEMMA AcceptingCall ==
    ASSUME IInv, NEW c \in Calls, Accepting(c)
    PROVE  /\ State \in Bridges /\ CoreOk(State) /\ ~Quiet(State)
           /\ State.calls[c].state = "active" /\ State.calls[c].completion = NoCompletion
<1>1. State.calls[c].state = "active" /\ State.calls[c].completion = NoCompletion
  BY DEF Accepting, IsCurrent, Locked
<1>. QED BY <1>1, InvParts, NotQuiet

(* An event that fails its call *)
LEMMA FailingSafe ==
    ASSUME IInv, NEW c \in Calls, NEW T \in Listed(InUse), FailingEvent(c, T)
    PROVE  Safe
<1>. DEFINE r == FailProviderWithUndelivered(Grant(State, c, T), c, T)
<1>1. Accepting(c) /\ Becomes(r) /\ UNCHANGED <<nextCall, disposed>>
  BY DEF FailingEvent
<1>2. /\ State \in Bridges /\ CoreOk(State) /\ ~Quiet(State)
      /\ State.calls[c].state = "active" /\ State.calls[c].completion = NoCompletion
  BY <1>1, AcceptingCall
<1>3. T \in SUBSET Tokens /\ ListedFor(State, c, T)
  BY ListedTokens
<1>4. Handled(r, State)
  BY <1>2, <1>3, FailUndeliveredHandled
<1>. HIDE DEF r
<1>. QED BY <1>1, <1>2, <1>4, HandlerSafe

(* An error event *)
LEMMA ErrorSafe ==
    ASSUME IInv, NEW c \in Calls, ErrorEvent(c)
    PROVE  Safe
<1>. DEFINE r == ScheduleTerminal(LockTerminal(State, c, ErrorCompletion), c)
<1>1. Accepting(c) /\ Becomes(r) /\ UNCHANGED <<nextCall, disposed>>
  BY DEF ErrorEvent
<1>2. /\ State \in Bridges /\ CoreOk(State) /\ ~Quiet(State)
      /\ State.calls[c].state = "active" /\ State.calls[c].completion = NoCompletion
  BY <1>1, AcceptingCall
<1>3. Handled(r, State)
  BY <1>2, ErrorHandled
<1>. HIDE DEF r
<1>. QED BY <1>1, <1>2, <1>3, HandlerSafe

(* The result of a request, the end of a stream *)
LEMMA TerminalSafe ==
    ASSUME IInv, NEW c \in Calls, NEW T \in Listed({}), NEW binary \in Binaries,
           TerminalEvent(c, T, binary)
    PROVE  Safe
<1>. DEFINE q == ReserveOutput(Grant(State, c, T), c, T, binary)
            completion == [kind |-> "output", binary |-> binary, grants |-> T]
            r == ScheduleTerminal(LockTerminal(q, c, completion), c)
<1>1. /\ Accepting(c) /\ Becomes(r) /\ UNCHANGED <<nextCall, disposed>>
      /\ T \cap State.byToken = {} /\ Fits(State, T, binary)
  BY StateIs DEF TerminalEvent
<1>2. /\ State \in Bridges /\ CoreOk(State) /\ ~Quiet(State)
      /\ State.calls[c].state = "active" /\ State.calls[c].completion = NoCompletion
  BY <1>1, AcceptingCall
<1>3. T \in SUBSET Tokens /\ (\A t \in T : State.held[t] = Fresh) /\ binary \in 0..1
  BY ListedTokens, Constants
<1>4. Handled(r, State)
  BY <1>1, <1>2, <1>3, TerminalHandled
<1>. HIDE DEF r
<1>. QED BY <1>1, <1>2, <1>4, HandlerSafe

(* A chunk goes to the reader that waits longest. *)
LEMMA ChunkSafe ==
    ASSUME IInv, NEW c \in Calls, NEW T \in Listed({}), NEW binary \in Binaries,
           ChunkEvent(c, T, binary)
    PROVE  Safe
<1>. DEFINE i == CHOOSE i \in Waiting(c) : \A j \in Waiting(c) : i <= j
            k == State.calls[c].nextSequence
            q == ReserveOutput(Grant(State, c, T), c, T, binary)
            x == AssignedCall(State.calls[c], i, binary, T)
            r == AfterChunk(q, c, x, k)
<1>1. /\ Accepting(c) /\ UNCHANGED <<nextCall, disposed>>
      /\ State.calls[c].credits > 0 /\ Waiting(c) # {}
      /\ T \cap State.byToken = {} /\ Fits(State, T, binary)
  BY StateIs DEF ChunkEvent
<1>2. /\ State \in Bridges /\ CoreOk(State) /\ ~Quiet(State)
      /\ State.calls[c].state = "active" /\ State.calls[c].completion = NoCompletion
  BY <1>1, AcceptingCall
<1>3. T \in SUBSET Tokens /\ (\A t \in T : State.held[t] = Fresh) /\ binary \in 0..1
  BY ListedTokens, Constants
<1>4. i \in Nat /\ FirstWaiting(State.calls[c], i)
  <2>1. Waiting(c) \in SUBSET Nat
    BY DEF Waiting
  <2>2. \E m \in Waiting(c) : \A j \in Waiting(c) : m <= j
    BY <1>1, <2>1, SmallestExists
  <2>3. i \in Waiting(c) /\ \A j \in Waiting(c) : i <= j
    BY <2>2
  <2>. HIDE DEF i
  <2>4. /\ i \in 1..Len(State.calls[c].readers) /\ State.calls[c].readers[i] = "waiting"
        /\ \A j \in 1..Len(State.calls[c].readers) :
               State.calls[c].readers[j] = "waiting" => i <= j
    BY <2>3, StateIs DEF Waiting
  <2>. QED BY <2>4 DEF FirstWaiting
<1>5. q.calls = State.calls
  <2>1. binary \in Int /\ ControlOk(State)
    BY <1>2, <1>3 DEF CoreOk
  <2>. QED BY <1>2, <1>3, <2>1, ReserveStep
<1>6. Becomes(r)
  <2>1. k = calls[c].nextSequence
    BY StateIs
  <2>. DEFINE call == [q.calls[c] EXCEPT !.readers[i] = "assigned", !.credits = @ - 1,
                                         !.nextSequence = k + 1,
                                         !.deliveries = @ \cup {Delivery(k, i, binary, T)}]
              r0 == [q EXCEPT !.calls[c] = call, !.credits = @ - 1,
                              !.queue = Append(@, Chunk(c, k))]
  <2>2. Becomes(r0)
    <3>. HIDE DEF i, q
    <3>. QED BY <2>1 DEF ChunkEvent, Delivery, i, q
  <2>3. call = x
    BY <1>5 DEF AssignedCall
  <2>4. r0 = r
    BY <2>3 DEF AfterChunk
  <2>. QED BY <2>2, <2>4
<1>7. Handled(r, State)
  <2>. HIDE DEF i
  <2>. QED BY <1>1, <1>2, <1>3, <1>4, ChunkHandled
<1>. HIDE DEF r
<1>. QED BY <1>1, <1>2, <1>6, <1>7, HandlerSafe

(* The port rejects. *)
LEMMA RejectSafe ==
    ASSUME IInv, NEW c \in Calls, PortRejects(c)
    PROVE  Safe
<1>. DEFINE r == FailProvider(State, c)
<1>1. Accepting(c) /\ Becomes(r) /\ UNCHANGED <<nextCall, disposed>>
  BY DEF PortRejects
<1>2. State \in Bridges /\ CoreOk(State) /\ ~Quiet(State)
  BY <1>1, AcceptingCall
<1>3. Handled(r, State)
  BY <1>2, RejectHandled
<1>. HIDE DEF r
<1>. QED BY <1>1, <1>2, <1>3, HandlerSafe

(* An event during the cleanup of its call *)
LEMMA ReentrantSafe ==
    ASSUME IInv, NEW c \in Calls, NEW T \in Listed(InUse \cup calls[c].closedTokens),
           ReentrantEvent(c, T)
    PROVE  Safe
<1>. DEFINE r == CloseUndeliveredGrants(Grant(State, c, T), c, T)
<1>1. Becomes(r) /\ UNCHANGED <<nextCall, disposed>>
  BY DEF ReentrantEvent
<1>2. /\ State \in Bridges /\ CoreOk(State)
      /\ OnStack(State, c) /\ State.calls[c].state = "active"
  BY InvParts DEF ReentrantEvent, IsCurrent
<1>3. ~Quiet(State)
  BY <1>2, NotQuiet
<1>4. T \in SUBSET Tokens /\ ListedFor(State, c, T)
  BY ListedTokens
<1>5. Handled(r, State)
  BY <1>2, <1>4, ReentrantHandled
<1>. HIDE DEF r
<1>. QED BY <1>1, <1>3, <1>5, HandlerSafe

(* A quiet bridge takes note of a revocation, and nothing more. *)
LEMMA RevokeSafe ==
    ASSUME IInv, NEW t \in Tokens, RevokeEvent(t)
    PROVE  Safe
<1>. DEFINE c == held[t]
            queued == t \in State.byToken /\ State.resources[t].call = c
                      /\ ~State.resources[t].revokeQueued
            r == AfterRevoke(State, c, t, queued)
<1>1. State \in Bridges /\ CoreOk(State)
  BY InvParts
<1>2. c \in Calls /\ State.held[t] = c /\ UNCHANGED <<nextCall, disposed>>
  BY StateIs DEF RevokeEvent
<1>3. Becomes(r)
  BY StateIs DEF RevokeEvent, AfterRevoke
<1>4. Handled(r, State)
  BY <1>1, <1>2, RevokeHandled
<1>5. Quiet(State) => Quiet(r)
  <2>. SUFFICES ASSUME Quiet(State) PROVE Quiet(r) OBVIOUS
  <2>1. ~queued
    BY DEF Quiet
  <2>2. r = [State EXCEPT !.held[t] = Revoked]
    BY <2>1 DEF AfterRevoke
  <2>3. r.calls = State.calls /\ r.byToken = State.byToken /\ r.queue = State.queue
    BY <2>2 DEF State
  <2>. HIDE DEF r
  <2>. QED BY <2>3 DEF Quiet
<1>. HIDE DEF r
<1>. QED BY <1>2, <1>3, <1>4, <1>5, HandlerSafe

(* The cleanup of a call: the frame on top of the stack *)
LEMMA TopFrame ==
    ASSUME IInv, stack # <<>>
    PROVE  /\ State \in Bridges /\ CoreOk(State) /\ State.stack # <<>>
           /\ Top = State.stack[Len(State.stack)] /\ Top \in 0..MaxCalls
           /\ Top # Termination => Top \in Calls
<1>1. State \in Bridges /\ CoreOk(State)
  BY InvParts
<1>2. State.stack # <<>> /\ Top = State.stack[Len(State.stack)]
  BY StateIs DEF Top
<1>. DEFINE F == 0..MaxCalls
<1>3. Top \in F
  <2>1. State.stack \in Seq(F)
    BY <1>1 DEF Bridges
  <2>. HIDE DEF F
  <2>. QED BY <1>2, <2>1
<1>4. Top # Termination => Top \in Calls
  BY <1>3, LimitAssumption DEF Calls, Termination
<1>. QED BY <1>1, <1>2, <1>3, <1>4

(* One close of a cleanup *)
LEMMA CloseNextSafe ==
    ASSUME IInv, CloseNext
    PROVE  Safe
<1>. DEFINE t == CHOOSE t \in calls[Top].todo : \A u \in calls[Top].todo : t <= u
            r == AfterClose(State, Top, t)
<1>1. /\ stack # <<>> /\ Top # Termination /\ calls[Top].todo # {}
      /\ UNCHANGED <<nextCall, disposed>>
  BY DEF CloseNext
<1>2. State \in Bridges /\ CoreOk(State) /\ Top \in Calls
  BY <1>1, TopFrame
<1>3. t \in State.calls[Top].todo
  <2>1. calls[Top].todo \in SUBSET Nat
    BY <1>2, StateIs, GrantsAreTokens, Constants
  <2>. QED BY <1>1, <2>1, SmallestExists, StateIs
<1>4. Becomes(r)
  BY StateIs DEF CloseNext, AfterClose
<1>5. Handled(r, State)
  <2>. HIDE DEF t
  <2>. QED BY <1>2, <1>3, CleanedHandled
<1>6. Quiet(State) => Quiet(r)
  <2>. SUFFICES ASSUME Quiet(State) PROVE Quiet(r) OBVIOUS
  <2>1. t \in Tokens
    BY <1>2, <1>3, GrantsAreTokens
  <2>. HIDE DEF t
  <2>2. /\ r.queue = State.queue /\ r.byToken = State.byToken
        /\ SameCalls(r, State, Top) /\ SameCore(r.calls[Top], State.calls[Top])
    BY <1>2, <2>1, CloseNextFields
  <2>. HIDE DEF r
  <2>. QED BY <2>2 DEF Quiet, SameCalls, SameCore
<1>. HIDE DEF r
<1>. QED BY <1>1, <1>4, <1>5, <1>6, HandlerSafe

(* The provider is told of the end. *)
LEMMA CancelSafe ==
    ASSUME IInv, CancelCleaned
    PROVE  Safe
<1>. DEFINE r == CancelProvider(State, Top)
<1>1. /\ stack # <<>> /\ Top # Termination /\ Becomes(r) /\ UNCHANGED <<nextCall, disposed>>
  BY DEF CancelCleaned
<1>2. State \in Bridges /\ CoreOk(State) /\ Top \in Calls
  BY <1>1, TopFrame
<1>3. Handled(r, State)
  BY <1>2, CancelHandled
<1>4. /\ r.queue = State.queue /\ r.byToken = State.byToken
      /\ SameCalls(r, State, Top) /\ r.calls[Top].state = State.calls[Top].state
  <2>1. /\ r.queue = State.queue /\ SameProvider(r, State) /\ SameCalls(r, State, Top)
        /\ r.calls[Top] = CancelledCall(State.calls[Top])
    BY <1>2, CancelFields
  <2>2. CancelledCall(State.calls[Top]).state = State.calls[Top].state
    BY <1>2, CallOfBridge, VariantFields
  <2>. HIDE DEF r
  <2>. QED BY <2>1, <2>2 DEF SameProvider
<1>. HIDE DEF r
<1>5. Quiet(State) => Quiet(r)
  BY <1>4 DEF Quiet, SameCalls
<1>. QED BY <1>1, <1>3, <1>5, HandlerSafe

(* The end of a cleanup *)
LEMMA FinishCleanupSafe ==
    ASSUME IInv, FinishCleanup
    PROVE  Safe
<1>. DEFINE r == ScheduleTerminal(Pop(State), Top)
<1>1. /\ stack # <<>> /\ Top # Termination /\ Becomes(r) /\ UNCHANGED <<nextCall, disposed>>
      /\ State.calls[Top].cancelIssued
  BY StateIs DEF FinishCleanup
<1>2. /\ State \in Bridges /\ CoreOk(State) /\ Top \in Calls
      /\ State.stack # <<>> /\ Top = State.stack[Len(State.stack)]
  BY <1>1, TopFrame
<1>3. Handled(r, State)
  BY <1>1, <1>2, FinishCleanupHandled
<1>4. Quiet(State) => Quiet(r)
  <2>. SUFFICES ASSUME Quiet(State) PROVE Quiet(r) OBVIOUS
  <2>1. State.calls[Top].state # "active"
    BY <1>2 DEF Quiet
  <2>2. r = Pop(State)
    BY <2>1 DEF ScheduleTerminal, IsCurrent, Pop
  <2>3. r.calls = State.calls /\ r.byToken = State.byToken /\ r.queue = State.queue
    BY <2>2 DEF Pop, State
  <2>. HIDE DEF r
  <2>. QED BY <2>3 DEF Quiet
<1>. HIDE DEF r
<1>. QED BY <1>1, <1>3, <1>4, HandlerSafe

-----------------------------------------------------------------------------
(* Tasks of the loop *)

LEMMA DueTask ==
    ASSUME IInv, NEW task, Due(task)
    PROVE  /\ State \in Bridges /\ CoreOk(State) /\ ~Quiet(State)
           /\ State.queue # <<>> /\ Head(State.queue) = task
           /\ Dequeued = Dequeue(State)
<1>1. State.queue # <<>> /\ Head(State.queue) = task
  BY StateIs DEF Due
<1>2. Dequeued = Dequeue(State)
  BY DEF Dequeued, Dequeue
<1>. QED BY <1>1, <1>2, InvParts, NotQuiet

(* deliverTerminal *)
LEMMA DeliverTerminalSafe ==
    ASSUME IInv, NEW c \in Calls, DeliverTerminal(c)
    PROVE  Safe
<1>. DEFINE q == TakeTerminal(State, c)
            done == State.calls[c].completion
            end == IF State.calls[c].mode = "stream" THEN "end" ELSE "result"
            r1 == Settle(q, c, done.kind)
            r2 == Settle(DeliverOutput(q, done.grants, done.binary), c, end)
            r3 == Abort(ReleaseOutput(q, c, done.grants, done.binary), c)
<1>1. Due(Terminal(c)) /\ UNCHANGED <<nextCall, disposed>>
  BY DEF DeliverTerminal
<1>2. /\ State \in Bridges /\ CoreOk(State) /\ ~Quiet(State)
      /\ State.queue # <<>> /\ Head(State.queue) = Terminal(c)
      /\ Dequeued = Dequeue(State)
  BY <1>1, DueTask
<1>3. q = [Dequeued EXCEPT !.calls[c].completion = NoCompletion]
  BY <1>2 DEF TakeTerminal
<1>4. \/ done.kind \in Errors /\ Becomes(r1)
      \/ Deliverable(q, done.grants) /\ Becomes(r2)
      \/ Becomes(r3)
  <2>. HIDE DEF q
  <2>. QED BY <1>3, StateIs DEF DeliverTerminal, Errors
<1>5. /\ done.kind \in Errors => Handled(r1, State)
      /\ Deliverable(q, done.grants) => \A e \in {"result", "end"} :
             Handled(Settle(DeliverOutput(q, done.grants, done.binary), c, e), State)
      /\ Handled(r3, State)
  BY <1>2, DeliverTerminalHandled
<1>6. Deliverable(q, done.grants) => Handled(r2, State)
  <2>1. end \in {"result", "end"}
    OBVIOUS
  <2>. HIDE DEF end, q, done
  <2>. QED BY <1>5, <2>1
<1>. HIDE DEF r1, r2, r3
<1>7. CASE done.kind \in Errors /\ Becomes(r1)
  BY <1>1, <1>2, <1>5, <1>7, HandlerSafe
<1>8. CASE Deliverable(q, done.grants) /\ Becomes(r2)
  BY <1>1, <1>2, <1>6, <1>8, HandlerSafe
<1>9. CASE Becomes(r3)
  BY <1>1, <1>2, <1>5, <1>9, HandlerSafe
<1>. QED BY <1>4, <1>7, <1>8, <1>9

(* deliverChunk *)
LEMMA DeliverChunkSafe ==
    ASSUME IInv, NEW c \in Calls, NEW k, DeliverChunk(c, k)
    PROVE  Safe
<1>1. Due(Chunk(c, k)) /\ UNCHANGED <<nextCall, disposed>>
  BY DEF DeliverChunk
<1>2. /\ State \in Bridges /\ CoreOk(State) /\ ~Quiet(State)
      /\ State.queue # <<>> /\ Head(State.queue) = Chunk(c, k)
      /\ Dequeued = Dequeue(State)
  BY <1>1, DueTask
<1>3. PICK d \in calls[c].deliveries :
        /\ d.sequence = k
        /\ LET s == [Dequeued EXCEPT !.calls[c].deliveries = @ \ {d}]
           IN \/ /\ Deliverable(s, d.grants)
                 /\ Becomes([DeliverOutput(s, d.grants, d.binary)
                                EXCEPT !.calls[c].readers[d.reader] = "chunk"])
              \/ /\ ~Deliverable(s, d.grants)
                 /\ LET s1 == ReleaseOutput(s, c, d.grants, d.binary)
                    IN Becomes(FailProvider(
                          [s1 EXCEPT !.calls[c].readers[d.reader] = "error"], c))
  BY DEF DeliverChunk
<1>. DEFINE q == TakeChunk(State, c, d)
            r1 == AnswerReader(DeliverOutput(q, d.grants, d.binary), c, d, "chunk")
            r2 == FailProvider(
                    AnswerReader(ReleaseOutput(q, c, d.grants, d.binary), c, d, "error"), c)
<1>4. q = [Dequeued EXCEPT !.calls[c].deliveries = @ \ {d}]
  BY <1>2 DEF TakeChunk
<1>5. (Deliverable(q, d.grants) /\ Becomes(r1)) \/ Becomes(r2)
  <2>. HIDE DEF q
  <2>. QED BY <1>3, <1>4 DEF AnswerReader
<1>6. d \in State.calls[c].deliveries /\ d.sequence = k
  BY <1>3, StateIs
<1>7. (Deliverable(q, d.grants) => Handled(r1, State)) /\ Handled(r2, State)
  BY <1>2, <1>6, DeliverChunkHandled
<1>. HIDE DEF r1, r2
<1>8. CASE Deliverable(q, d.grants) /\ Becomes(r1)
  BY <1>1, <1>2, <1>7, <1>8, HandlerSafe
<1>9. CASE Becomes(r2)
  BY <1>1, <1>2, <1>7, <1>9, HandlerSafe
<1>. QED BY <1>5, <1>8, <1>9

(* applyProviderResourceRevoke *)
LEMMA ApplyRevokeSafe ==
    ASSUME IInv, NEW c \in Calls, NEW t \in Tokens, ApplyRevoke(c, t)
    PROVE  Safe
<1>. DEFINE r1 == Dequeue(State)
            r2 == Drop(Dequeue(State), {t}, "closed")
<1>1. Due(Revocation(c, t)) /\ UNCHANGED <<nextCall, disposed>>
  BY DEF ApplyRevoke
<1>2. /\ State \in Bridges /\ CoreOk(State) /\ ~Quiet(State)
      /\ State.queue # <<>> /\ Head(State.queue) = Revocation(c, t)
      /\ Dequeued = Dequeue(State)
  BY <1>1, DueTask
<1>3. Becomes(r1) \/ (t \in State.byToken /\ Becomes(r2))
  BY <1>2, StateIs DEF ApplyRevoke
<1>4. Handled(r1, State) /\ (t \in State.byToken => Handled(r2, State))
  BY <1>2, ApplyRevokeHandled
<1>. HIDE DEF r1, r2
<1>5. CASE Becomes(r1)
  BY <1>1, <1>2, <1>4, <1>5, HandlerSafe
<1>6. CASE t \in State.byToken /\ Becomes(r2)
  BY <1>1, <1>2, <1>4, <1>6, HandlerSafe
<1>. QED BY <1>3, <1>5, <1>6

-----------------------------------------------------------------------------
(* The inductive invariant *)

LEMMA UnusedFields ==
    /\ UnusedCall \in CallRecords /\ UnusedCall.state = "unused"
    /\ UnusedCall.completion = NoCompletion /\ UnusedCall.deliveries = {}
    /\ UnusedCall.credits = 0 /\ ~UnusedCall.registered /\ ~UnusedCall.deadline
    /\ UnusedCall.readers = <<>> /\ UnusedCall.outcome = "none"
    /\ UnusedCall.closedTokens = {} /\ UnusedCall.todo = {}
    /\ CallOk(UnusedCall) /\ QueuedGrants(UnusedCall) = {}
<1>1. /\ UnusedCall.state = "unused"
      /\ UnusedCall.completion = NoCompletion /\ UnusedCall.deliveries = {}
      /\ UnusedCall.credits = 0 /\ ~UnusedCall.registered /\ ~UnusedCall.deadline
      /\ UnusedCall.readers = <<>> /\ UnusedCall.outcome = "none"
      /\ UnusedCall.closedTokens = {} /\ UnusedCall.todo = {}
  BY DEF UnusedCall
<1>2. NoCompletion \in Completions
  BY DEF NoCompletion, Completions
<1>3. <<>> \in Seq(ReaderStates)
  OBVIOUS
<1>4. UnusedCall \in CallRecords
  BY <1>2, <1>3 DEF UnusedCall, CallRecords
<1>5. Over(UnusedCall)
  BY <1>1 DEF Over
<1>6. CallOk(UnusedCall)
  BY <1>1, <1>5 DEF CallOk, CompletionOk, NoCompletion
<1>7. QueuedGrants(UnusedCall) = {}
  BY <1>1 DEF QueuedGrants, NoCompletion
<1>. QED BY <1>1, <1>4, <1>6, <1>7

(* Sums over no call *)
LEMMA NoPending ==
    ASSUME NEW s, \A c \in Calls : s.calls[c].state # "active"
    PROVE  /\ Cardinality(Inputs(s)) = 0 /\ Cardinality(Outputs(s)) = 0
           /\ Cardinality(Streams(s)) = 0
           /\ Cardinality(Chunks(s)) = 0 /\ Cardinality(Credits(s)) = 0
<1>1. Active(s) = {}
  BY DEF Active
<1>2. Inputs(s) = {} /\ Outputs(s) = {} /\ Streams(s) = {}
  BY <1>1 DEF Inputs, Outputs, Streams
<1>3. Chunks(s) = {} /\ Credits(s) = {}
  BY <1>1 DEF Chunks, Credits
<1>. QED BY <1>2, <1>3, FS_EmptySet

(* IInv holds initially. *)
LEMMA InitInv ==
    ASSUME Init
    PROVE  IInv
<1>. DEFINE s == State
<1>1. /\ \A c \in Calls : s.calls[c] = UnusedCall
      /\ \A t \in Tokens : s.resources[t] = NoResource /\ s.held[t] = Fresh
      /\ s.byToken = {} /\ s.queue = <<>> /\ s.stack = <<>> /\ s.strayClose = FALSE
      /\ s.inFlight = 0 /\ s.openHandles = 0 /\ s.openResources = 0 /\ s.credits = 0
      /\ nextCall = 1 /\ disposed = FALSE
  BY StateIs DEF Init
<1>2. State \in Bridges
  <2>1. calls \in [Calls -> CallRecords]
    BY UnusedFields DEF Init
  <2>2. NoResource \in ResourceRecords
    BY LimitAssumption DEF NoResource, ResourceRecords
  <2>3. resources \in [Tokens -> ResourceRecords]
    BY <2>2 DEF Init
  <2>4. held \in [Tokens -> -2..MaxCalls]
    BY LimitAssumption DEF Init, Fresh
  <2>5. queue \in Seq(Tasks) /\ stack \in Seq(0..MaxCalls)
    BY DEF Init
  <2>6. byToken \in SUBSET Tokens /\ strayClose \in BOOLEAN
    BY Zenon DEF Init
  <2>7. /\ inFlight \in Int /\ openHandles \in Int
        /\ openResources \in Int /\ credits \in Int
    BY DEF Init
  <2>. QED BY <2>1, <2>3, <2>4, <2>5, <2>6, <2>7 DEF State, Bridges
<1>. HIDE DEF s
<1>3. ControlOk(s)
  <2>1. \A c \in Calls : CallOk(s.calls[c])
    BY <1>1, UnusedFields
  <2>2. 1..Len(s.queue) = {} /\ 1..Len(s.stack) = {}
    BY <1>1
  <2>3. QueueOk(s)
    BY <1>1, <2>2, UnusedFields DEF QueueOk
  <2>4. Awaited(s) /\ StackOk(s)
    BY <1>1, <2>2, UnusedFields DEF Awaited, StackOk, OnStack
  <2>. QED BY <2>1, <2>3, <2>4 DEF ControlOk
<1>4. TokensOk(s, 1, {})
  <2>1. \A c : Fresh # c \/ c \notin Calls
    BY Constants
  <2>2. \A t \in Tokens : TokenOk(s, t, 1, {})
    BY <1>1, <2>1, Constants DEF TokenOk, NoResource
  <2>3. \A d \in Calls : GrantsOk(s, d, InHand(d, 1, {}))
    BY <1>1, UnusedFields DEF GrantsOk, InHand
  <2>4. \A d \in Calls : CleanupOk(s, d)
    BY <1>1, UnusedFields DEF CleanupOk
  <2>. QED BY <1>1, <2>2, <2>3, <2>4 DEF TokensOk
<1>5. QuotaOk(s)
  <2>1. \A c \in Calls : s.calls[c].state # "active"
    BY <1>1, UnusedFields
  <2>2. Cardinality(s.byToken) = 0
    BY <1>1, FS_EmptySet
  <2>3. Limits(s)
    BY <1>1, Constants DEF Limits
  <2>. QED BY <1>1, <2>1, <2>2, <2>3, NoPending DEF QuotaOk
<1>6. Numbered(State, nextCall)
  BY <1>1, UnusedFields DEF Numbered, s
<1>7. DisposedOk
  BY <1>1 DEF DisposedOk, OnStack, s
<1>. QED BY <1>1, <1>2, <1>3, <1>4, <1>5, <1>6, <1>7 DEF IInv, s

(* Every step of the specification is safe. *)
LEMMA StepSafe ==
    ASSUME IInv, Next
    PROVE  Safe
<1>1. CASE GuestStep
  <2>1. ASSUME NEW id \in Ids, NEW mode \in Modes, NEW input \in Binaries,
               NEW deadline \in Deadlines, Admit(id, mode, input, deadline)
        PROVE  Safe
    BY <2>1, AdmitSafe
  <2>2. ASSUME NEW c \in Calls, ReadStream(c)
        PROVE  Safe
    BY <2>2, ReadSafe
  <2>3. ASSUME NEW c \in Calls, CancelPending(c)
        PROVE  Safe
    <3>1. /\ calls[c].state = "active" /\ Becomes(Abort(State, c))
          /\ UNCHANGED <<nextCall, disposed>>
      BY <2>3, StateIs DEF CancelPending, IsCurrent
    <3>. QED BY <3>1, AbortSafe
  <2>4. ASSUME NEW t \in Tokens, CloseHandle(t)
        PROVE  Safe
    BY <2>4, CloseSafe DEF CloseHandle
  <2>5. CASE Terminate
    BY <2>5, TerminateSafe
  <2>. QED BY <1>1, <2>1, <2>2, <2>3, <2>4, <2>5 DEF GuestStep
<1>2. CASE ProviderStep
  <2>1. ASSUME NEW c \in Calls, NEW T \in Listed(InUse), FailingEvent(c, T)
        PROVE  Safe
    BY <2>1, FailingSafe
  <2>2. ASSUME NEW c \in Calls, NEW T \in Listed({}), NEW binary \in Binaries,
               TerminalEvent(c, T, binary) \/ ChunkEvent(c, T, binary)
        PROVE  Safe
    BY <2>2, TerminalSafe, ChunkSafe
  <2>3. ASSUME NEW c \in Calls, NEW T \in Listed(InUse \cup calls[c].closedTokens),
               ReentrantEvent(c, T)
        PROVE  Safe
    BY <2>3, ReentrantSafe
  <2>4. ASSUME NEW c \in Calls, ErrorEvent(c) \/ PortRejects(c)
        PROVE  Safe
    BY <2>4, ErrorSafe, RejectSafe
  <2>5. ASSUME NEW t \in Tokens, RevokeEvent(t)
        PROVE  Safe
    BY <2>5, RevokeSafe
  <2>. QED BY <1>2, <2>1, <2>2, <2>3, <2>4, <2>5 DEF ProviderStep
<1>3. CASE CleanupStep
  BY <1>3, CloseNextSafe, CancelSafe, FinishCleanupSafe DEF CleanupStep
<1>4. CASE TerminationStep
  <2>1. CASE TerminatePending
    <3>. DEFINE c == CHOOSE c \in Pending : \A e \in Pending : c <= e
    <3>1. Pending # {} /\ Becomes(Abort(State, c)) /\ UNCHANGED <<nextCall, disposed>>
      BY <2>1 DEF TerminatePending
    <3>2. Pending \in SUBSET Nat
      BY LimitAssumption DEF Pending, Calls
    <3>3. c \in Pending
      BY <3>1, <3>2, SmallestExists
    <3>. HIDE DEF c
    <3>4. c \in Calls /\ calls[c].state = "active"
      BY <3>3 DEF Pending
    <3>. QED BY <3>1, <3>4, AbortSafe
  <2>2. CASE TerminateResource
    <3>. DEFINE t == CHOOSE t \in OpenRecords : \A u \in OpenRecords : t <= u
    <3>1. /\ OpenRecords # {} /\ Becomes(CloseResource(State, t, TRUE))
          /\ UNCHANGED <<nextCall, disposed>>
      BY <2>2 DEF TerminateResource
    <3>2. OpenRecords \in SUBSET Nat
      BY Constants DEF OpenRecords
    <3>3. t \in OpenRecords
      BY <3>1, <3>2, SmallestExists
    <3>. HIDE DEF t
    <3>4. t \in Tokens /\ resources[t].status = "open"
      BY <3>3 DEF OpenRecords
    <3>. QED BY <3>1, <3>4, CloseSafe
  <2>3. CASE FinishTermination
    BY <2>3, FinishTerminationSafe
  <2>. QED BY <1>4, <2>1, <2>2, <2>3 DEF TerminationStep
<1>5. CASE LoopStep
  <2>1. ASSUME NEW c \in Calls, DeliverTerminal(c)
        PROVE  Safe
    BY <2>1, DeliverTerminalSafe
  <2>2. ASSUME NEW c \in Calls, NEW k \in 0..MaxReads, DeliverChunk(c, k)
        PROVE  Safe
    BY <2>2, DeliverChunkSafe
  <2>3. ASSUME NEW c \in Calls, NEW t \in Tokens, ApplyRevoke(c, t)
        PROVE  Safe
    BY <2>3, ApplyRevokeSafe
  <2>4. ASSUME NEW c \in Calls, DeadlinePasses(c)
        PROVE  Safe
    <3>1. /\ calls[c].state = "active" /\ Becomes(Abort(State, c))
          /\ UNCHANGED <<nextCall, disposed>>
      BY <2>4, StateIs DEF DeadlinePasses, IsCurrent
    <3>. QED BY <3>1, AbortSafe
  <2>. QED BY <1>5, <2>1, <2>2, <2>3, <2>4 DEF LoopStep
<1>. QED BY <1>1, <1>2, <1>3, <1>4, <1>5 DEF Next

(* Every reachable state satisfies the inductive invariant: what the       *)
(* bridge keeps of a call, of a token and of a counter agree between any   *)
(* two handlers, and between the provider calls of one that is under way.  *)
THEOREM Invariance == Spec => []IInv
<1>1. Init => IInv
  BY InitInv
<1>2. IInv /\ [Next]_vars => IInv'
  <2>1. ASSUME IInv, Next PROVE IInv'
    BY <2>1, StepSafe DEF Safe
  <2>2. ASSUME IInv, UNCHANGED vars PROVE IInv'
    <3>1. State' = State /\ nextCall' = nextCall /\ disposed' = disposed
      BY <2>2 DEF vars, State
    <3>2. DisposedOk'
      BY <2>2, <3>1 DEF IInv, DisposedOk, Pending, vars
    <3>. QED BY <2>2, <3>1, <3>2 DEF IInv
  <2>. QED BY <2>1, <2>2
<1>. QED BY <1>1, <1>2, PTL DEF Spec

(* The first terminal wins: what a call was settled with never changes, nor*)
(* does what a next() was answered with, whatever the provider, a deadline,*)
(* the guest and the end of the bridge do later (isCurrent, lockTerminal). *)
THEOREM FirstTerminal == Spec => FirstTerminalWins
<1>. DEFINE Kept == \A c \in Calls :
              /\ calls[c].state = "settled" =>
                    calls'[c].state = "settled" /\ calls'[c].outcome = calls[c].outcome
              /\ \A i \in 1..Len(calls[c].readers) :
                    calls[c].readers[i] \in {"chunk", "end", "error"} =>
                        calls'[c].readers[i] = calls[c].readers[i]
<1>1. IInv /\ [Next]_vars => [Kept]_vars
  <2>1. ASSUME IInv, Next PROVE Kept
    <3>1. KeepsAnswers(State', State)
      BY <2>1, StepSafe DEF Safe
    <3>2. State.calls = calls /\ State'.calls = calls'
      BY DEF State
    <3>. QED BY <3>1, <3>2 DEF KeepsAnswers, Answered
  <2>. QED BY <2>1
<1>. QED BY <1>1, Invariance, PTL DEF Spec, FirstTerminalWins

(* What the invariant says of a settled call *)
LEMMA SettledQuietly ==
    ASSUME IInv
    PROVE  SettledIsQuiet
<1>. SUFFICES ASSUME NEW c \in Calls, calls[c].state = "settled"
              PROVE  /\ ~calls[c].registered /\ ~calls[c].deadline
                     /\ calls[c].credits = 0
                     /\ calls[c].outcome = "failure" => calls[c].cancelIssued
                     /\ \A i \in 1..Len(queue) : queue[i].call = c => queue[i].kind = "revoke"
                     /\ \A t \in byToken : resources[t].call = c => resources[t].status = "open"
                     /\ \A i \in 1..Len(calls[c].readers) :
                            calls[c].readers[i] \in {"chunk", "end", "error"}
  BY DEF SettledIsQuiet
<1>1. State \in Bridges /\ CoreOk(State)
  BY InvParts
<1>2. State.calls[c].state = "settled"
  BY StateIs
<1>3. ControlOk(State) /\ TokensOk(State, c, {}) /\ CallOk(State.calls[c])
  BY <1>1, CoreCall
<1>4. Over(calls[c])
  BY <1>2, <1>3, StateIs DEF CallOk
<1>5. MineOk(State, c)
  BY <1>3, ControlParts
<1>6. ASSUME NEW i \in 1..Len(queue), queue[i].call = c PROVE queue[i].kind = "revoke"
  <2>1. ~OwnTask(State.queue[i], c)
    BY <1>1, <1>2, <1>5, StateIs, NoOwnTask
  <2>. QED BY <1>6, <2>1, StateIs DEF OwnTask
<1>7. ASSUME NEW t \in byToken, resources[t].call = c PROVE resources[t].status = "open"
  <2>1. t \in Tokens /\ t \in State.byToken
    BY <1>1, StateIs, GrantsAreTokens
  <2>2. QueuedGrants(State.calls[c]) = {}
    BY <1>4, StateIs DEF Over, QueuedGrants, NoCompletion
  <2>3. /\ State.resources[t].status \in {"reserved", "open"}
        /\ State.resources[t].status = "reserved" =>
               t \in QueuedGrants(State.calls[State.resources[t].call])
                     \cup InHand(State.resources[t].call, c, {})
    BY <1>3, <2>1, TokenFacts
  <2>4. State.resources[t].call = c /\ State.resources[t] = resources[t]
    BY <1>7, StateIs
  <2>. QED BY <2>2, <2>3, <2>4 DEF InHand
<1>. QED BY <1>4, <1>6, <1>7 DEF Over, Answered

(* What the invariant says of the readers of a stream *)
LEMMA ReadInOrder ==
    ASSUME IInv
    PROVE  ReadersInOrder
<1>. SUFFICES ASSUME NEW c \in Calls
              PROVE  /\ \A d \in calls[c].deliveries :
                           d.reader = d.sequence + 1 /\ calls[c].readers[d.reader] = "assigned"
                     /\ \A i, j \in 1..Len(calls[c].readers) :
                           i < j /\ calls[c].readers[j] \in {"assigned", "chunk", "end"} =>
                               /\ calls[c].readers[i] # "waiting"
                               /\ calls[c].readers[i] = "assigned" =>
                                      calls[c].readers[j] = "assigned"
  BY DEF ReadersInOrder
<1>. DEFINE y == calls[c]
<1>1. CallOk(y) /\ y \in CallRecords
  BY InvParts, CoreCall, StateIs
<1>2. CASE y.state # "active"
  <2>1. y.deliveries = {} /\ \A i \in 1..Len(y.readers) : y.readers[i] \in Answered
    BY <1>1, <1>2 DEF CallOk, Over
  <2>. QED BY <2>1 DEF Answered
<1>3. CASE y.state = "active"
  <2>1. AnswersInOrder(y) /\ y.nextSequence \in Nat
    BY <1>1, <1>3 DEF CallOk, StreamInOrder, CallRecords
  <2>2. /\ \A d \in y.deliveries :
             d.reader = d.sequence + 1 /\ y.readers[d.reader] = "assigned"
        /\ \A i \in 1..Len(y.readers) :
              /\ y.readers[i] = "waiting" <=> y.nextSequence < i
              /\ \A j \in 1..Len(y.readers) :
                    i < j /\ y.readers[i] = "assigned" =>
                        y.readers[j] \in {"assigned", "waiting"}
    BY <2>1 DEF AnswersInOrder
  <2>. HIDE DEF y
  <2>3. ASSUME NEW i \in 1..Len(y.readers), NEW j \in 1..Len(y.readers), i < j,
               y.readers[j] # "waiting"
        PROVE  y.readers[i] # "waiting"
    <3>1. ~(y.nextSequence < j)
      BY <2>2, <2>3
    <3>2. ~(y.nextSequence < i)
      BY <2>1, <2>3, <3>1
    <3>. QED BY <2>2, <3>2
  <2>4. ASSUME NEW i \in 1..Len(y.readers), NEW j \in 1..Len(y.readers), i < j,
               y.readers[j] \in {"assigned", "chunk", "end"}
        PROVE  /\ y.readers[i] # "waiting"
               /\ y.readers[i] = "assigned" => y.readers[j] = "assigned"
    <3>1. y.readers[j] # "waiting"
      BY <2>4
    <3>2. y.readers[i] = "assigned" => y.readers[j] \in {"assigned", "waiting"}
      BY <2>2, <2>4
    <3>. QED BY <2>3, <2>4, <3>1, <3>2
  <2>. QED BY <2>2, <2>4 DEF y
<1>. QED BY <1>2, <1>3

(* A settled call leaves nothing in the bridge or in the loop's queue but  *)
(* revocations, and the readers of a stream are answered in the order of   *)
(* their next() calls (releasePending, handleChunk).                       *)
THEOREM SettledOrderly == Spec => []SettledInOrder
<1>1. IInv => SettledInOrder
  BY SettledQuietly, ReadInOrder DEF SettledInOrder
<1>. QED BY <1>1, Invariance, PTL

(* What the invariant says of the provider's resources *)
LEMMA NoOrphan ==
    ASSUME IInv
    PROVE  NothingOrphaned
<1>1. /\ State \in Bridges /\ CoreOk(State)
      /\ disposed /\ ~OnStack(State, Termination) => Quiet(State)
  BY InvParts
<1>2. TokensOk(State, 1, {}) /\ QuotaOk(State)
  BY <1>1 DEF CoreOk
<1>3. ~strayClose
  BY <1>2, StateIs DEF TokensOk
<1>4. ASSUME NEW t \in Tokens
      PROVE  /\ held[t] \in Calls =>
                  \/ t \in byToken /\ resources[t].call = held[t]
                  \/ t \in calls[held[t]].todo
                  \/ Capped(held[t])
             /\ t \in byToken =>
                  /\ resources[t].status \in {"reserved", "open"}
                  /\ resources[t].status = "reserved" =>
                         t \in QueuedGrants(calls[resources[t].call])
                  /\ held[t] = resources[t].call \/ resources[t].revokeQueued
  <2>1. /\ resources[t].revokeQueued => held[t] = Revoked
        /\ t \in byToken <=> resources[t].status \in {"reserved", "open"}
        /\ t \in byToken => resources[t].revokeQueued \/ held[t] = resources[t].call
        /\ held[t] \in Calls =>
               \/ t \in byToken
               \/ t \in calls[held[t]].todo
               \/ Cardinality(calls[held[t]].closedTokens) >= HardCap
        /\ resources[t].status = "reserved" =>
               t \in QueuedGrants(calls[resources[t].call])
                     \cup InHand(resources[t].call, 1, {})
    BY <1>2, StateIs, TokenFacts
  <2>2. Revoked \notin Calls
    BY Constants
  <2>3. InHand(resources[t].call, 1, {}) = {}
    BY DEF InHand
  <2>. QED BY <2>1, <2>2, <2>3 DEF Capped
<1>5. ASSUME disposed, ~OnStack(State, Termination)
      PROVE  /\ Pending = {} /\ byToken = {} /\ queue = <<>>
             /\ inFlight = 0 /\ openHandles = 0 /\ openResources = 0 /\ credits = 0
  <2>1. /\ \A c \in Calls : State.calls[c].state # "active"
        /\ State.byToken = {} /\ State.queue = <<>>
    BY <1>1, <1>5 DEF Quiet
  <2>2. Pending = {}
    BY <2>1, StateIs DEF Pending
  <2>3. /\ Cardinality(Inputs(State)) = 0 /\ Cardinality(Outputs(State)) = 0
        /\ Cardinality(Streams(State)) = 0
        /\ Cardinality(Chunks(State)) = 0 /\ Cardinality(Credits(State)) = 0
    BY <2>1, NoPending
  <2>4. Cardinality(State.byToken) = 0
    BY <2>1, FS_EmptySet
  <2>5. /\ State.inFlight = 0 /\ State.openResources = 0
        /\ State.openHandles = 0 /\ State.credits = 0
    BY <1>2, <2>3, <2>4 DEF QuotaOk
  <2>. QED BY <2>1, <2>2, <2>5, StateIs
<1>. QED BY <1>3, <1>4, <1>5 DEF NothingOrphaned

(* What the invariant says of a pending call *)
LEMMA AwaitedPending ==
    ASSUME IInv
    PROVE  PendingIsAwaited
<1>. SUFFICES ASSUME NEW c \in Pending
              PROVE  /\ ~Locked(State, c) =>
                            calls[c].registered /\ ~InQueue(queue, Terminal(c))
                     /\ Locked(State, c) => InQueue(queue, Terminal(c)) \/ OnStack(State, c)
  BY DEF PendingIsAwaited
<1>1. State \in Bridges /\ CoreOk(State) /\ c \in Calls /\ State.calls[c].state = "active"
  BY InvParts, StateIs DEF Pending
<1>2. ControlOk(State)
  BY <1>1 DEF CoreOk
<1>3. /\ State.calls[c].completion = NoCompletion => State.calls[c].registered
      /\ State.calls[c].completion # NoCompletion =>
             InQueue(State.queue, Terminal(c)) \/ OnStack(State, c)
  BY <1>1, <1>2 DEF ControlOk, Awaited
<1>4. ASSUME InQueue(State.queue, Terminal(c)) PROVE State.calls[c].completion # NoCompletion
  <2>1. PICK i \in 1..Len(State.queue) : State.queue[i] = Terminal(c)
    BY <1>4 DEF InQueue
  <2>2. TaskOk(State, State.queue[i])
    BY <1>2 DEF ControlOk, QueueOk
  <2>3. State.queue[i].kind = "terminal" /\ State.queue[i].call = c
    BY <2>1 DEF Terminal
  <2>. QED BY <2>2, <2>3 DEF TaskOk
<1>. QED BY <1>3, <1>4, StateIs DEF Locked

(* The provider's resources and the guest's promises each have somebody    *)
(* left who will end them: no resource is forgotten or closed twice, every *)
(* pending call keeps the loop alive or has its terminal under way, and a  *)
(* disposed bridge holds nothing (closeProviderResource, scheduleTerminal, *)
(* terminateBridge).                                                       *)
THEOREM AllAccounted == Spec => []CallsAccounted
<1>1. IInv => CallsAccounted
  BY NoOrphan, AwaitedPending DEF CallsAccounted
<1>. QED BY <1>1, Invariance, PTL

(* What the invariant says of the counters *)
LEMMA CountersAgree ==
    ASSUME IInv
    PROVE  QuotaConserved
<1>1. /\ State \in Bridges /\ TokensOk(State, 1, {}) /\ QuotaOk(State)
  BY InvParts DEF CoreOk
<1>2. Pending = Active(State)
  BY StateIs DEF Pending, Active
<1>3. /\ {c \in Pending : calls[c].input = 1} = Inputs(State)
      /\ {c \in Pending : calls[c].completion.binary = 1} = Outputs(State)
      /\ {c \in Pending : calls[c].mode = "stream"} = Streams(State)
  BY <1>2, StateIs DEF Inputs, Outputs, Streams
<1>4. {x \in Pending \X (0..MaxReads) :
          \E d \in calls[x[1]].deliveries : d.sequence = x[2] /\ d.binary = 1} = Chunks(State)
  BY <1>2, StateIs DEF Chunks
<1>5. {x \in Pending \X (1..MaxReads) :
          ~Locked(State, x[1]) /\ x[2] \in Waiting(x[1])} = Credits(State)
  <2>1. ASSUME NEW x \in Pending \X (1..MaxReads)
        PROVE  ~Locked(State, x[1]) /\ x[2] \in Waiting(x[1]) <=>
                  /\ State.calls[x[1]].completion = NoCompletion
                  /\ x[2] <= Len(State.calls[x[1]].readers)
                  /\ State.calls[x[1]].readers[x[2]] = "waiting"
    <3>1. x[1] \in Calls /\ x[2] \in 1..MaxReads
      BY <1>2 DEF Active
    <3>2. Len(State.calls[x[1]].readers) \in Nat
      BY <1>1, <3>1, CallOfBridge
    <3>3. x[2] \in 1..Len(State.calls[x[1]].readers)
              <=> x[2] <= Len(State.calls[x[1]].readers)
      BY <3>1, <3>2
    <3>. QED BY <3>3, StateIs DEF Locked, Waiting
  <2>. QED BY <1>2, <2>1 DEF Credits
<1>6. {t \in Tokens : resources[t].status \in {"reserved", "open"}} = State.byToken
  <2>1. State.byToken \in SUBSET Tokens
    BY <1>1 DEF Bridges
  <2>2. \A t \in Tokens : t \in State.byToken <=> resources[t].status \in {"reserved", "open"}
    BY <1>1, StateIs, TokenFacts
  <2>. QED BY <2>1, <2>2
<1>7. /\ inFlight = Cardinality(Inputs(State)) + Cardinality(Outputs(State))
                      + Cardinality(Chunks(State))
      /\ openResources = Cardinality(State.byToken)
      /\ openHandles = inFlight + Cardinality(Streams(State)) + openResources
      /\ credits = Cardinality(Credits(State))
      /\ inFlight <= MaxInFlight /\ openHandles <= MaxHandles
      /\ openResources <= MaxOpenResources /\ credits <= MaxOutstandingCredits
  BY <1>1, StateIs DEF QuotaOk, Limits
<1>. QED BY <1>3, <1>4, <1>5, <1>6, <1>7 DEF QuotaConserved

(* The counters of getSnapshot are the binaries, resources, stream handles *)
(* and credits that pending calls retain, and none exceeds its limit, in   *)
(* every order in which handlers take and give back                        *)
(* (reserveOutput, releaseOutput, releasePending, lockTerminal).           *)
THEOREM QuotasConserved == Spec => []QuotaConserved
<1>1. IInv => QuotaConserved
  BY CountersAgree
<1>. QED BY <1>1, Invariance, PTL

=============================================================================
