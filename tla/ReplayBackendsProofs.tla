------------------------- MODULE ReplayBackendsProofs -------------------------
(* The three backends of the replay registry implement the contract of       *)
(* ReplayStore for any keys, tokens, retentions, workers, capacity and lag:   *)
(* initial states map to initial states, and every step to a step of the     *)
(* contract or to none. What ReplayStoreProofs shows of the contract is so   *)
(* shown of each of them.                                                     *)
EXTENDS MCReplayBackends, FiniteSetTheorems, TLAPS

(* A worker's call read the clock at most Lag seconds ago; no worker is      *)
(* called unless the table is the backend.                                   *)
ClockRead ==
  \A w \in Workers : calls[w] # Sql!Idle =>
    part = "sql" /\ calls[w].n <= now /\ now <= calls[w].n + Lag

HeldKeys(table) == {k \in Keys : table[k].state # "missing"}

(* The tables with a capacity are finite and within it.                      *)
Bounded(table) ==
  IsFiniteSet(HeldKeys(table)) /\ Cardinality(HeldKeys(table)) <= MaxEntries

IInv == /\ part \in {"contract", "python", "memory", "sql"}
        /\ BackendsTypeOK /\ ClockRead
        /\ Bounded(memory_cache) /\ Bounded(cache)

-----------------------------------------------------------------------------
LEMMA InitInv == PartInit => IInv
<1> SUFFICES ASSUME PartInit PROVE IInv
  OBVIOUS
<1>1. Python!TypeOK
  BY KeysAssumption, TokensAssumption
  DEF PartInit, Python!Init, Python!TypeOK, Python!Missing, Python!Entry, Python!NoGrant,
      Python!Grant
<1>2. Memory!TypeOK
  BY KeysAssumption, TokensAssumption
  DEF PartInit, Memory!Init, Memory!TypeOK, Memory!Missing, Memory!Entry, Memory!NoGrant,
      Memory!Grant
<1>3. Sql!TypeOK
  BY KeysAssumption, TokensAssumption
  DEF PartInit, Sql!Init, Sql!TypeOK, Sql!Missing, Sql!Entry, Sql!NoGrant, Sql!Grant,
      Sql!Calls, Sql!Idle
<1>4. HeldKeys(memory_cache) = {} /\ HeldKeys(cache) = {}
  BY DEF PartInit, Python!Init, Memory!Init, Python!Missing, Memory!Missing, HeldKeys
<1>5. Bounded(memory_cache) /\ Bounded(cache)
  BY <1>4, FS_EmptySet, CapacityAssumption DEF Bounded
<1>6. ClockRead
  BY DEF ClockRead, PartInit, Sql!Init
<1> QED
  BY <1>1, <1>2, <1>3, <1>5, <1>6 DEF IInv, BackendsTypeOK, PartInit

(* A table that has lost entries and gained at most one stays bounded if it  *)
(* had room.                                                                 *)
LEMMA BoundedSmaller ==
  ASSUME NEW c, NEW d, Bounded(c), HeldKeys(d) \subseteq HeldKeys(c)
  PROVE  Bounded(d)
<1>1. /\ IsFiniteSet(HeldKeys(d)) /\ Cardinality(HeldKeys(d)) \in Nat
      /\ Cardinality(HeldKeys(d)) <= Cardinality(HeldKeys(c))
      /\ Cardinality(HeldKeys(c)) \in Nat
  BY FS_Subset, FS_CardinalityType DEF Bounded
<1> QED
  BY <1>1, CapacityAssumption DEF Bounded

LEMMA BoundedWithRoom ==
  ASSUME NEW c, NEW d, NEW k, Bounded(c), ~ Cardinality(HeldKeys(c)) >= MaxEntries,
         HeldKeys(d) \subseteq HeldKeys(c) \cup {k}
  PROVE  Bounded(d)
<1>1. /\ IsFiniteSet(HeldKeys(c) \cup {k}) /\ Cardinality(HeldKeys(c)) \in Nat
      /\ Cardinality(HeldKeys(c) \cup {k}) <= Cardinality(HeldKeys(c)) + 1
      /\ Cardinality(HeldKeys(c) \cup {k}) \in Nat
  BY FS_AddElement, FS_CardinalityType DEF Bounded
<1>2. /\ IsFiniteSet(HeldKeys(d)) /\ Cardinality(HeldKeys(d)) \in Nat
      /\ Cardinality(HeldKeys(d)) <= Cardinality(HeldKeys(c) \cup {k})
  BY <1>1, FS_Subset, FS_CardinalityType
<1> QED
  BY <1>1, <1>2, CapacityAssumption DEF Bounded

(* The instances count as this module does.                                  *)
LEMMA SameCardinality ==
  ASSUME NEW S
  PROVE  Python!Cardinality(S) = Cardinality(S) /\ Memory!Cardinality(S) = Cardinality(S)
  BY DEF Python!Cardinality, Memory!Cardinality, Cardinality

-----------------------------------------------------------------------------
(* The dictionary of the Python registry.                                    *)
LEMMA PythonPruned ==
  ASSUME Python!TypeOK
  PROVE  /\ Python!Pruned \in [Keys -> Python!Entry]
         /\ \A k \in Keys : Python!Pruned[k] = IF k \in Python!ExpiredKeys
                                               THEN Python!Missing ELSE memory_cache[k]
         /\ HeldKeys(Python!Pruned) \subseteq HeldKeys(memory_cache)
<1>1. Python!Missing \in Python!Entry
  BY DEF Python!Missing, Python!Entry
<1> QED
  BY <1>1 DEF Python!Pruned, Python!Swept, Python!TypeOK, HeldKeys, Python!Missing

LEMMA PythonInv ==
  ASSUME Python!TypeOK, Bounded(memory_cache), Python!Next
  PROVE  Python!TypeOK' /\ Bounded(memory_cache)'
<1> USE TtlsAssumption DEF Python!TypeOK
<1>1. ASSUME NEW k \in Keys, NEW t \in Tokens, NEW ttl \in Ttls, Python!Claim(k, t, ttl)
      PROVE  Python!TypeOK' /\ Bounded(memory_cache)'
  <2>1. now + ttl \in Int
    OBVIOUS
  <2>2. Python!PendingEntry(t, now + ttl) \in Python!Entry
    BY <2>1 DEF Python!PendingEntry, Python!Entry
  <2>3. Python!OpenGrant(k, now, now + ttl) \in Python!Grant
    BY <2>1 DEF Python!OpenGrant, Python!Grant
  <2>4. /\ memory_cache' = [Python!Pruned EXCEPT ![k] = Python!PendingEntry(t, now + ttl)]
        /\ cacheGrants' = [cacheGrants EXCEPT ![t] = Python!OpenGrant(k, now, now + ttl)]
        /\ now' = now
    BY <1>1 DEF Python!Claim
  <2>5. Python!TypeOK'
    BY <2>2, <2>3, <2>4, PythonPruned
  <2>6. ~ Cardinality(HeldKeys(Python!Pruned)) >= MaxEntries
    <3>1. HeldKeys(Python!Pruned) = {x \in Keys : Python!Held(Python!Pruned, x)}
      BY DEF HeldKeys, Python!Held
    <3>2. ~ Cardinality({x \in Keys : Python!Held(Python!Pruned, x)}) >= MaxEntries
      BY <1>1, SameCardinality DEF Python!Claim, Python!Full
    <3> QED
      BY <3>1, <3>2
  <2>7. Bounded(Python!Pruned)
    BY PythonPruned, BoundedSmaller
  <2>8. HeldKeys(memory_cache') \subseteq HeldKeys(Python!Pruned) \cup {k}
    BY <2>4, PythonPruned DEF HeldKeys
  <2>9. Bounded(memory_cache')
    BY <2>6, <2>7, <2>8, BoundedWithRoom
  <2> QED
    BY <2>5, <2>9 DEF Bounded, HeldKeys
<1>2. ASSUME NEW k \in Keys, NEW t \in Tokens, NEW ttl \in Ttls,
             Python!Commit(k, t, ttl) \/ Python!Reject(k, t, ttl)
      PROVE  Python!TypeOK' /\ Bounded(memory_cache)'
  <2>0. PICK outcome \in Python!Settled : Python!Settle(k, t, outcome, ttl)
    BY <1>2 DEF Python!Commit, Python!Reject, Python!Settled
  <2>1. now + ttl \in Int /\ memory_cache[k] \in Python!Entry
        /\ cacheGrants[t] \in Python!Grant
    OBVIOUS
  <2>2. [memory_cache[k] EXCEPT !.state = outcome, !.expires = now + ttl] \in Python!Entry
    BY <2>1 DEF Python!Entry
  <2>3. [cacheGrants[t] EXCEPT !.fate = outcome, !.until = now + ttl] \in Python!Grant
    BY <2>1 DEF Python!Grant
  <2>4. /\ memory_cache' = [memory_cache EXCEPT ![k] =
             [memory_cache[k] EXCEPT !.state = outcome, !.expires = now + ttl]]
        /\ cacheGrants' = [cacheGrants EXCEPT ![t] =
             [cacheGrants[t] EXCEPT !.fate = outcome, !.until = now + ttl]]
        /\ now' = now /\ memory_cache[k].state = "pending"
    BY <2>0 DEF Python!Settle, Python!HeldBy
  <2>5. Python!TypeOK'
    BY <2>2, <2>3, <2>4
  <2>6. HeldKeys(memory_cache') \subseteq HeldKeys(memory_cache)
    BY <2>4 DEF HeldKeys
  <2>7. Bounded(memory_cache')
    BY <2>6, BoundedSmaller
  <2> QED
    BY <2>5, <2>7 DEF Bounded, HeldKeys
<1>3. ASSUME NEW k \in Keys, NEW t \in Tokens, Python!Release(k, t)
      PROVE  Python!TypeOK' /\ Bounded(memory_cache)'
  <2>1. [cacheGrants[t] EXCEPT !.fate = "released"] \in Python!Grant
    BY DEF Python!Grant
  <2>2. Python!Missing \in Python!Entry
    BY DEF Python!Missing, Python!Entry
  <2>3. Python!TypeOK'
    BY <1>3, <2>1, <2>2 DEF Python!Release
  <2>4. HeldKeys(memory_cache') \subseteq HeldKeys(memory_cache)
    BY <1>3 DEF HeldKeys, Python!Release, Python!Missing
  <2>5. Bounded(memory_cache')
    BY <2>4, BoundedSmaller
  <2> QED
    BY <2>3, <2>5 DEF Bounded, HeldKeys
<1>4. ASSUME NEW k \in Keys, Python!ClaimRefused(k)
      PROVE  Python!TypeOK' /\ Bounded(memory_cache)'
  <2>1. memory_cache' = Python!Pruned /\ now' = now /\ cacheGrants' = cacheGrants
    BY <1>4 DEF Python!ClaimRefused
  <2>2. Bounded(memory_cache')
    BY <2>1, PythonPruned, BoundedSmaller
  <2> QED
    BY <2>1, <2>2, PythonPruned DEF Bounded, HeldKeys
<1>5. CASE Python!Tick
  BY <1>5 DEF Python!Tick, Bounded, HeldKeys
<1> QED
  BY <1>1, <1>2, <1>3, <1>4, <1>5 DEF Python!Next

(* The contract's view of the dictionary, entry by entry.                    *)
PythonView ==
  [k \in Keys |-> IF memory_cache[k].state \in Python!Settled
                  THEN [memory_cache[k] EXCEPT !.token = NoToken]
                  ELSE memory_cache[k]]

LEMMA PythonViewOf ==
  ASSUME Python!TypeOK, NEW k \in Keys
  PROVE  /\ PythonView[k].state = memory_cache[k].state
         /\ PythonView[k].expires = memory_cache[k].expires
         /\ memory_cache[k].state \notin Python!Settled => PythonView[k] = memory_cache[k]
  BY DEF Python!TypeOK, Python!Entry, PythonView

LEMMA PythonInit == Python!Init => Python!Store!Init
  BY DEF Python!Init, Python!Store!Init, Python!Missing, Python!Store!Missing,
         Python!NoGrant, Python!Store!NoGrant, Python!Settled

(* What the contract calls expired has been swept before the claim is        *)
(* looked at.                                                                *)
LEMMA PythonExpired ==
  ASSUME Python!TypeOK, NEW k \in Keys
  PROVE  k \in Python!ExpiredKeys <=> Python!Store!Expired(k)
  BY PythonViewOf
  DEF Python!ExpiredKeys, Python!Store!Expired, Python!Held, Python!Store!Held,
      PythonView, Python!TypeOK, Python!Entry

LEMMA PythonStep ==
  ASSUME Python!TypeOK, Python!Next
  PROVE  Python!Store!Next
<1> USE TtlsAssumption
<1>t. now \in Nat
  BY DEF Python!TypeOK
<1>1. ASSUME NEW k \in Keys, NEW t \in Tokens, NEW ttl \in Ttls, Python!Claim(k, t, ttl)
      PROVE  Python!Store!Claim(k, t, ttl)
  <2> DEFINE gone == Python!ExpiredKeys
             e == now + ttl
  <2>1. gone \in SUBSET {x \in Keys : Python!Store!Expired(x)}
    BY PythonExpired DEF Python!ExpiredKeys
  <2>2. e \in Python!Store!Expiries(ttl)
    BY <1>t DEF Python!Store!Expiries
  <2>3. ~ Python!Store!Held(PythonView, k) \/ Python!Store!Expired(k)
    BY <1>1, PythonPruned, PythonViewOf, PythonExpired
    DEF Python!Claim, Python!Held, Python!Store!Held
  <2>4. PythonView' = [Python!Store!Swept(PythonView, gone) EXCEPT
                         ![k] = Python!Store!PendingEntry(t, e)]
    <3>1. ASSUME NEW x \in Keys
          PROVE  PythonView'[x] = IF x = k THEN Python!Store!PendingEntry(t, e)
                                  ELSE IF x \in gone THEN Python!Store!Missing
                                  ELSE PythonView[x]
      <4>1. memory_cache'[x] = IF x = k THEN Python!PendingEntry(t, e)
                               ELSE IF x \in gone THEN Python!Missing ELSE memory_cache[x]
        BY <1>1, PythonPruned DEF Python!Claim
      <4>2. CASE x = k
        BY <4>1, <4>2 DEF PythonView, Python!PendingEntry, Python!Store!PendingEntry,
                          Python!Settled
      <4>3. CASE x # k /\ x \in gone
        BY <4>1, <4>3 DEF PythonView, Python!Missing, Python!Store!Missing, Python!Settled
      <4>4. CASE x # k /\ x \notin gone
        BY <4>1, <4>4 DEF PythonView
      <4> QED
        BY <4>2, <4>3, <4>4
    <3> QED
      BY <3>1 DEF PythonView, Python!Store!Swept
  <2>5. cacheGrants' = [cacheGrants EXCEPT ![t] = Python!Store!OpenGrant(k, now, e)]
    BY <1>1 DEF Python!Claim, Python!OpenGrant, Python!Store!OpenGrant
  <2> QED
    BY <1>1, <2>1, <2>2, <2>3, <2>4, <2>5
    DEF Python!Store!Claim, Python!Claim, PythonView
<1>2. ASSUME NEW k \in Keys, NEW t \in Tokens, NEW ttl \in Ttls,
             NEW outcome \in Python!Settled, Python!Settle(k, t, outcome, ttl)
      PROVE  Python!Store!Settle(k, t, outcome, ttl)
  <2> DEFINE e == now + ttl
  <2>1. e \in Python!Store!Expiries(ttl)
    BY <1>t DEF Python!Store!Expiries
  <2>2. PythonView[k].state = "pending" /\ PythonView[k].token = t
    BY <1>2 DEF Python!Settle, Python!HeldBy, PythonView, Python!Settled
  <2>3. PythonView' = [PythonView EXCEPT ![k] = [state |-> outcome, token |-> NoToken,
                                                 expires |-> e]]
    <3>1. ASSUME NEW x \in Keys
          PROVE  PythonView'[x] = IF x = k THEN [state |-> outcome, token |-> NoToken,
                                                 expires |-> e]
                                  ELSE PythonView[x]
      <4>1. memory_cache' = [memory_cache EXCEPT ![k] =
               [memory_cache[k] EXCEPT !.state = outcome, !.expires = e]]
        BY <1>2 DEF Python!Settle
      <4>2. CASE x # k
        BY <4>1, <4>2 DEF PythonView, Python!TypeOK
      <4>3. CASE x = k
        <5>1. memory_cache'[x] = [state |-> outcome, token |-> memory_cache[k].token,
                                  expires |-> e]
          BY <4>1, <4>3 DEF Python!TypeOK, Python!Entry
        <5> QED
          BY <4>3, <5>1 DEF PythonView
      <4> QED
        BY <4>2, <4>3
    <3> QED
      BY <3>1 DEF PythonView
  <2>4. cacheGrants' = [cacheGrants EXCEPT ![t].fate = outcome, ![t].until = e]
    BY <1>2 DEF Python!Settle
  <2> QED
    BY <1>2, <2>1, <2>2, <2>3, <2>4 DEF Python!Store!Settle, Python!Settle, PythonView
<1>3. ASSUME NEW k \in Keys, NEW t \in Tokens, Python!Release(k, t)
      PROVE  Python!Store!Release(k, t)
  <2>1. PythonView[k].state = "pending" /\ PythonView[k].token = t
    BY <1>3 DEF Python!Release, Python!HeldBy, PythonView, Python!Settled
  <2>2. PythonView' = [PythonView EXCEPT ![k] = Python!Store!Missing]
    <3>1. ASSUME NEW x \in Keys
          PROVE  PythonView'[x] = IF x = k THEN Python!Store!Missing ELSE PythonView[x]
      <4>1. memory_cache'[x] = IF x = k THEN Python!Missing ELSE memory_cache[x]
        BY <1>3 DEF Python!Release, Python!TypeOK
      <4> QED
        BY <4>1 DEF PythonView, Python!Missing, Python!Store!Missing, Python!Settled
    <3> QED
      BY <3>1 DEF PythonView
  <2> QED
    BY <1>3, <2>1, <2>2 DEF Python!Store!Release, Python!Release, PythonView
<1>4. ASSUME NEW k \in Keys, Python!ClaimRefused(k)
      PROVE  Python!Store!Forget
  <2> DEFINE gone == Python!ExpiredKeys
  <2>1. gone \in SUBSET {x \in Keys : Python!Store!Expired(x)}
    BY PythonExpired DEF Python!ExpiredKeys
  <2>2. PythonView' = Python!Store!Swept(PythonView, gone)
    <3>1. ASSUME NEW x \in Keys
          PROVE  PythonView'[x] = IF x \in gone THEN Python!Store!Missing ELSE PythonView[x]
      <4>1. memory_cache'[x] = IF x \in gone THEN Python!Missing ELSE memory_cache[x]
        BY <1>4, PythonPruned DEF Python!ClaimRefused
      <4> QED
        BY <4>1 DEF PythonView, Python!Missing, Python!Store!Missing, Python!Settled
    <3> QED
      BY <3>1 DEF PythonView, Python!Store!Swept
  <2> QED
    BY <1>4, <2>1, <2>2 DEF Python!Store!Forget, Python!ClaimRefused, PythonView
<1>5. CASE Python!Tick
  BY <1>5 DEF Python!Tick, Python!Store!Next, Python!Store!Tick
<1>6. Python!Settled = Python!Store!Settled
  BY DEF Python!Settled, Python!Store!Settled
<1>7. "consumed" \in Python!Settled /\ "rejected" \in Python!Settled
  BY DEF Python!Settled
<1> QED
  BY <1>1, <1>2, <1>3, <1>4, <1>5, <1>6, <1>7
  DEF Python!Next, Python!Commit, Python!Reject, Python!Store!Next

-----------------------------------------------------------------------------
(* The map of the Rust registry.                                             *)
LEMMA MemoryRetained ==
  ASSUME Memory!TypeOK, NEW n \in Int, n <= now
  PROVE  /\ Memory!Retained(n) \in [Keys -> Memory!Entry]
         /\ HeldKeys(Memory!Retained(n)) \subseteq HeldKeys(cache)
         /\ \E gone \in SUBSET {k \in Keys : Memory!Store!Expired(k)} :
              Memory!Retained(n) = Memory!Store!Swept(cache, gone)
<1> DEFINE gone == {k \in Keys : Memory!Held(cache, k) /\ cache[k].expires <= n}
<1>1. Memory!Missing \in Memory!Entry
  BY DEF Memory!Missing, Memory!Entry
<1>2. \A k \in Keys : cache[k].expires \in Int
  BY DEF Memory!TypeOK, Memory!Entry
<1>3. gone \in SUBSET {k \in Keys : Memory!Store!Expired(k)}
  BY <1>2 DEF Memory!Held, Memory!Store!Held, Memory!Store!Expired, Memory!TypeOK
<1>4. Memory!Swept(cache, gone) = Memory!Store!Swept(cache, gone)
  BY DEF Memory!Swept, Memory!Store!Swept, Memory!Missing, Memory!Store!Missing
<1>5. cache = Memory!Store!Swept(cache, {})
  BY DEF Memory!TypeOK, Memory!Store!Swept
<1>6. \E g \in SUBSET {k \in Keys : Memory!Store!Expired(k)} :
        Memory!Retained(n) = Memory!Store!Swept(cache, g)
  BY <1>3, <1>4, <1>5 DEF Memory!Retained
<1>7. /\ Memory!Swept(cache, gone) \in [Keys -> Memory!Entry]
      /\ HeldKeys(Memory!Swept(cache, gone)) \subseteq HeldKeys(cache)
  BY <1>1 DEF Memory!Swept, Memory!TypeOK, HeldKeys, Memory!Missing
<1>8. Memory!Retained(n) = Memory!Swept(cache, gone) \/ Memory!Retained(n) = cache
  BY DEF Memory!Retained
<1> QED
  BY <1>6, <1>7, <1>8 DEF Memory!TypeOK

LEMMA MemoryClocks ==
  ASSUME Memory!TypeOK, NEW n \in Memory!Clocks
  PROVE  n \in Int /\ n <= now /\ now <= n + Lag
  BY DEF Memory!Clocks

LEMMA MemoryInv ==
  ASSUME Memory!TypeOK, Bounded(cache), Memory!Next
  PROVE  Memory!TypeOK' /\ Bounded(cache)'
<1> USE TtlsAssumption, LagAssumption DEF Memory!TypeOK
<1>1. ASSUME NEW n \in Memory!Clocks, NEW k \in Keys, NEW t \in Tokens, NEW ttl \in Ttls,
             Memory!Claim(k, t, ttl, n)
      PROVE  Memory!TypeOK' /\ Bounded(cache)'
  <2>1. n \in Int /\ n <= now /\ n + ttl \in Int
    BY MemoryClocks
  <2>2. Memory!PendingEntry(t, n + ttl) \in Memory!Entry
    BY <2>1 DEF Memory!PendingEntry, Memory!Entry
  <2>3. Memory!OpenGrant(k, now, n + ttl) \in Memory!Grant
    BY <2>1 DEF Memory!OpenGrant, Memory!Grant
  <2>4. /\ cache' = [Memory!Retained(n) EXCEPT ![k] = Memory!PendingEntry(t, n + ttl)]
        /\ mapGrants' = [mapGrants EXCEPT ![t] = Memory!OpenGrant(k, now, n + ttl)]
        /\ now' = now
    BY <1>1 DEF Memory!Claim
  <2>5. Memory!TypeOK'
    BY <2>1, <2>2, <2>3, <2>4, MemoryRetained
  <2>6. ~ Cardinality(HeldKeys(Memory!Retained(n))) >= MaxEntries
    <3>1. HeldKeys(Memory!Retained(n)) = {x \in Keys : Memory!Held(Memory!Retained(n), x)}
      BY DEF HeldKeys, Memory!Held
    <3>2. ~ Cardinality({x \in Keys : Memory!Held(Memory!Retained(n), x)}) >= MaxEntries
      BY <1>1, SameCardinality DEF Memory!Claim, Memory!Full
    <3> QED
      BY <3>1, <3>2
  <2>7. Bounded(Memory!Retained(n))
    BY <2>1, MemoryRetained, BoundedSmaller
  <2>8. HeldKeys(cache') \subseteq HeldKeys(Memory!Retained(n)) \cup {k}
    BY <2>1, <2>4, MemoryRetained DEF HeldKeys
  <2>9. Bounded(cache')
    BY <2>6, <2>7, <2>8, BoundedWithRoom
  <2> QED
    BY <2>5, <2>9 DEF Bounded, HeldKeys
<1>2. ASSUME NEW n \in Memory!Clocks, NEW k \in Keys, NEW t \in Tokens, NEW ttl \in Ttls,
             NEW outcome \in Memory!Settled, Memory!Settle(k, t, outcome, ttl, n)
      PROVE  Memory!TypeOK' /\ Bounded(cache)'
  <2>1. n + ttl \in Int /\ mapGrants[t] \in Memory!Grant
    BY MemoryClocks
  <2>2. [state |-> outcome, token |-> NoToken, expires |-> n + ttl] \in Memory!Entry
    BY <2>1 DEF Memory!Entry
  <2>3. [mapGrants[t] EXCEPT !.fate = outcome, !.until = n + ttl] \in Memory!Grant
    BY <2>1 DEF Memory!Grant
  <2>4. /\ cache' = [cache EXCEPT ![k] =
             [state |-> outcome, token |-> NoToken, expires |-> n + ttl]]
        /\ mapGrants' = [mapGrants EXCEPT ![t] =
             [mapGrants[t] EXCEPT !.fate = outcome, !.until = n + ttl]]
        /\ now' = now /\ cache[k].state = "pending"
    BY <1>2 DEF Memory!Settle, Memory!HeldBy
  <2>5. Memory!TypeOK'
    BY <2>2, <2>3, <2>4
  <2>6. HeldKeys(cache') \subseteq HeldKeys(cache)
    BY <2>4 DEF HeldKeys
  <2>7. Bounded(cache')
    BY <2>6, BoundedSmaller
  <2> QED
    BY <2>5, <2>7 DEF Bounded, HeldKeys
<1>3. ASSUME NEW k \in Keys, NEW t \in Tokens, Memory!Release(k, t)
      PROVE  Memory!TypeOK' /\ Bounded(cache)'
  <2>1. [mapGrants[t] EXCEPT !.fate = "released"] \in Memory!Grant
    BY DEF Memory!Grant
  <2>2. Memory!Missing \in Memory!Entry
    BY DEF Memory!Missing, Memory!Entry
  <2>3. Memory!TypeOK'
    BY <1>3, <2>1, <2>2 DEF Memory!Release
  <2>4. HeldKeys(cache') \subseteq HeldKeys(cache)
    BY <1>3 DEF HeldKeys, Memory!Release, Memory!Missing
  <2>5. Bounded(cache')
    BY <2>4, BoundedSmaller
  <2> QED
    BY <2>3, <2>5 DEF Bounded, HeldKeys
<1>4. ASSUME NEW n \in Memory!Clocks, NEW k \in Keys, Memory!ClaimRefused(k, n)
      PROVE  Memory!TypeOK' /\ Bounded(cache)'
  <2>1. cache' = Memory!Retained(n) /\ now' = now /\ mapGrants' = mapGrants
    BY <1>4 DEF Memory!ClaimRefused
  <2>2. n \in Int /\ n <= now
    BY MemoryClocks
  <2>3. Bounded(cache')
    BY <2>1, <2>2, MemoryRetained, BoundedSmaller
  <2> QED
    BY <2>1, <2>2, <2>3, MemoryRetained DEF Bounded, HeldKeys
<1>5. CASE Memory!Tick
  BY <1>5 DEF Memory!Tick, Bounded, HeldKeys
<1> QED
  BY <1>1, <1>2, <1>3, <1>4, <1>5 DEF Memory!Next

LEMMA MemoryStep ==
  ASSUME Memory!TypeOK, Memory!Next
  PROVE  Memory!Store!Next
<1> USE TtlsAssumption, LagAssumption
<1>t. now \in Nat
  BY DEF Memory!TypeOK
<1>1. ASSUME NEW n \in Memory!Clocks, NEW k \in Keys, NEW t \in Tokens, NEW ttl \in Ttls,
             Memory!Claim(k, t, ttl, n)
      PROVE  Memory!Store!Claim(k, t, ttl)
  <2> DEFINE e == n + ttl
  <2>1. n \in Int /\ n <= now /\ e \in Memory!Store!Expiries(ttl)
    BY <1>t, MemoryClocks DEF Memory!Store!Expiries
  <2>2. PICK gone \in SUBSET {x \in Keys : Memory!Store!Expired(x)} :
          Memory!Retained(n) = Memory!Store!Swept(cache, gone)
    BY <2>1, MemoryRetained
  <2>3. ~ Memory!Store!Held(cache, k) \/ Memory!Store!Expired(k)
    <3>1. CASE k \in gone
      BY <3>1
    <3>2. CASE k \notin gone
      <4>1. Memory!Retained(n)[k] = cache[k] /\ cache[k].expires \in Int
        BY <2>2, <3>2 DEF Memory!Store!Swept, Memory!TypeOK, Memory!Entry
      <4> QED
        BY <1>1, <1>t, <2>1, <4>1
        DEF Memory!Claim, Memory!Live, Memory!Held, Memory!Store!Held, Memory!Store!Expired
    <3> QED
      BY <3>1, <3>2
  <2>4. cache' = [Memory!Store!Swept(cache, gone) EXCEPT ![k] = Memory!Store!PendingEntry(t, e)]
    BY <1>1, <2>2 DEF Memory!Claim, Memory!PendingEntry, Memory!Store!PendingEntry
  <2>5. mapGrants' = [mapGrants EXCEPT ![t] = Memory!Store!OpenGrant(k, now, e)]
    BY <1>1 DEF Memory!Claim, Memory!OpenGrant, Memory!Store!OpenGrant
  <2> QED
    BY <1>1, <2>1, <2>2, <2>3, <2>4, <2>5 DEF Memory!Store!Claim, Memory!Claim
<1>2. ASSUME NEW n \in Memory!Clocks, NEW k \in Keys, NEW t \in Tokens, NEW ttl \in Ttls,
             NEW outcome \in Memory!Settled, Memory!Settle(k, t, outcome, ttl, n)
      PROVE  Memory!Store!Settle(k, t, outcome, ttl)
  <2>1. n + ttl \in Memory!Store!Expiries(ttl)
    BY <1>t, MemoryClocks DEF Memory!Store!Expiries
  <2> QED
    BY <1>2, <2>1 DEF Memory!Store!Settle, Memory!Settle, Memory!HeldBy
<1>3. ASSUME NEW k \in Keys, NEW t \in Tokens, Memory!Release(k, t)
      PROVE  Memory!Store!Release(k, t)
  BY <1>3 DEF Memory!Store!Release, Memory!Release, Memory!HeldBy, Memory!Missing,
              Memory!Store!Missing
<1>4. ASSUME NEW n \in Memory!Clocks, NEW k \in Keys, Memory!ClaimRefused(k, n)
      PROVE  Memory!Store!Forget
  <2>1. n \in Int /\ n <= now
    BY MemoryClocks
  <2> QED
    BY <1>4, <2>1, MemoryRetained DEF Memory!Store!Forget, Memory!ClaimRefused
<1>5. CASE Memory!Tick
  BY <1>5 DEF Memory!Tick, Memory!Store!Next, Memory!Store!Tick
<1>6. Memory!Settled = Memory!Store!Settled
  BY DEF Memory!Settled, Memory!Store!Settled
<1> QED
  BY <1>1, <1>2, <1>3, <1>4, <1>5, <1>6 DEF Memory!Next, Memory!Store!Next

-----------------------------------------------------------------------------
(* The shared table.                                                         *)
LEMMA SqlCall ==
  ASSUME Sql!TypeOK, ClockRead, NEW w \in Workers
  PROVE  /\ calls[w].op \in {"prune", "insert", "update"} =>
              /\ calls[w] # Sql!Idle /\ calls[w].key \in Keys /\ calls[w].ttl \in Ttls
              /\ calls[w].n \in Nat /\ calls[w].n <= now /\ now <= calls[w].n + Lag
         /\ calls[w].op = "update" =>
              calls[w].token \in Tokens /\ calls[w].outcome \in Sql!Settled
<1>1. calls[w] \in Sql!Calls
  BY DEF Sql!TypeOK
<1>2. calls[w].op \in {"prune", "insert", "update"} =>
        /\ calls[w] # Sql!Idle /\ calls[w].key \in Keys /\ calls[w].ttl \in Ttls
        /\ calls[w].n \in Nat
  BY <1>1 DEF Sql!Calls, Sql!Idle
<1>3. calls[w].op = "update" =>
        calls[w].token \in Tokens /\ calls[w].outcome \in Sql!Settled
  BY <1>1 DEF Sql!Calls, Sql!Idle
<1> QED
  BY <1>2, <1>3 DEF ClockRead

LEMMA SqlInv ==
  ASSUME Sql!TypeOK, ClockRead, Sql!Next, part = "sql", UNCHANGED part
  PROVE  Sql!TypeOK' /\ ClockRead'
<1> USE TtlsAssumption, LagAssumption DEF Sql!TypeOK
<1>m. Sql!Missing \in Sql!Entry
  BY DEF Sql!Missing, Sql!Entry
<1>i. Sql!Idle \in Sql!Calls
  BY DEF Sql!Calls
<1>1. ASSUME NEW w \in Workers, NEW k \in Keys, NEW ttl \in Ttls, Sql!BeginClaim(w, k, ttl)
      PROVE  Sql!TypeOK' /\ ClockRead'
  <2>1. Sql!ClaimCall("prune", k, ttl, now) \in Sql!Calls
    BY DEF Sql!ClaimCall, Sql!Calls
  <2>2. Sql!ClaimCall("prune", k, ttl, now).n = now
    BY DEF Sql!ClaimCall
  <2> QED
    BY <1>1, <2>1, <2>2 DEF Sql!BeginClaim, ClockRead
<1>2. ASSUME NEW w \in Workers, NEW k \in Keys, NEW ttl \in Ttls, NEW t \in Tokens,
             NEW outcome \in Sql!Settled, Sql!BeginSettle(w, k, t, outcome, ttl)
      PROVE  Sql!TypeOK' /\ ClockRead'
  <2>1. Sql!SettleCall(k, t, outcome, ttl, now) \in Sql!Calls
    BY DEF Sql!SettleCall, Sql!Calls
  <2>2. Sql!SettleCall(k, t, outcome, ttl, now).n = now
    BY DEF Sql!SettleCall
  <2> QED
    BY <1>2, <2>1, <2>2 DEF Sql!BeginSettle, ClockRead
<1>3. ASSUME NEW w \in Workers, Sql!Prune(w)
      PROVE  Sql!TypeOK' /\ ClockRead'
  <2>1. calls[w] \in [op : {"prune", "insert"}, key : Keys, ttl : Ttls, n : Nat]
    BY <1>3 DEF Sql!Prune, Sql!Calls, Sql!Idle
  <2>2. [calls[w] EXCEPT !.op = "insert"] \in Sql!Calls
    BY <2>1 DEF Sql!Calls
  <2>3. [calls[w] EXCEPT !.op = "insert"].n = calls[w].n
    BY <2>1
  <2>4. rows' \in [Keys -> Sql!Entry]
    BY <1>3, <1>m DEF Sql!Prune, Sql!Swept
  <2>5. ClockRead'
    BY <1>3, <2>3, SqlCall DEF Sql!Prune, ClockRead
  <2> QED
    BY <1>3, <2>2, <2>4, <2>5 DEF Sql!Prune
<1>4. ASSUME NEW w \in Workers, NEW t \in Tokens, Sql!Insert(w, t)
      PROVE  Sql!TypeOK' /\ ClockRead'
  <2> DEFINE k == calls[w].key
             e == calls[w].n + calls[w].ttl
  <2>0. calls[w].op = "insert"
    BY <1>4 DEF Sql!Insert
  <2>1. k \in Keys /\ e \in Int
    <3>1. calls[w].key \in Keys /\ calls[w].ttl \in Ttls /\ calls[w].n \in Nat
      BY <2>0, SqlCall
    <3>2. calls[w].ttl \in Nat
      BY <3>1
    <3>3. calls[w].n + calls[w].ttl \in Int
      BY <3>1, <3>2
    <3> QED
      BY <3>1, <3>3
  <2>2. Sql!PendingEntry(t, e) \in Sql!Entry
    BY <2>1 DEF Sql!PendingEntry, Sql!Entry
  <2>3. Sql!OpenGrant(k, now, e) \in Sql!Grant
    BY <2>1 DEF Sql!OpenGrant, Sql!Grant
  <2>4. /\ rows' = [rows EXCEPT ![k] = Sql!PendingEntry(t, e)]
        /\ rowGrants' = [rowGrants EXCEPT ![t] = Sql!OpenGrant(k, now, e)]
        /\ calls' = [calls EXCEPT ![w] = Sql!Idle] /\ now' = now
    BY <1>4 DEF Sql!Insert
  <2> QED
    BY <1>i, <2>2, <2>3, <2>4 DEF ClockRead
<1>5. ASSUME NEW w \in Workers, Sql!InsertRefused(w) \/ Sql!Fail(w)
      PROVE  Sql!TypeOK' /\ ClockRead'
  BY <1>5, <1>i DEF Sql!InsertRefused, Sql!Fail, ClockRead
<1>6. ASSUME NEW w \in Workers, Sql!Update(w)
      PROVE  Sql!TypeOK' /\ ClockRead'
  <2> DEFINE c == calls[w]
             e == c.n + c.ttl
  <2>1. c.key \in Keys /\ c.token \in Tokens /\ c.outcome \in Sql!Settled /\ e \in Int
    BY <1>6, SqlCall DEF Sql!Update
  <2>2. [state |-> c.outcome, token |-> NoToken, expires |-> e] \in Sql!Entry
    BY <2>1 DEF Sql!Entry
  <2>3. [rowGrants[c.token] EXCEPT !.fate = c.outcome, !.until = e] \in Sql!Grant
    BY <2>1 DEF Sql!Grant
  <2>4. \/ /\ rows' = [rows EXCEPT ![c.key] =
                  [state |-> c.outcome, token |-> NoToken, expires |-> e]]
           /\ rowGrants' = [rowGrants EXCEPT ![c.token] =
                  [rowGrants[c.token] EXCEPT !.fate = c.outcome, !.until = e]]
        \/ UNCHANGED <<rows, rowGrants>>
    BY <1>6 DEF Sql!Update
  <2>5. calls' = [calls EXCEPT ![w] = Sql!Idle] /\ now' = now
    BY <1>6 DEF Sql!Update
  <2> QED
    BY <1>i, <2>1, <2>2, <2>3, <2>4, <2>5 DEF ClockRead
<1>7. ASSUME NEW k \in Keys, NEW t \in Tokens, Sql!Release(k, t)
      PROVE  Sql!TypeOK' /\ ClockRead'
  <2>1. [rowGrants[t] EXCEPT !.fate = "released"] \in Sql!Grant
    BY DEF Sql!Grant
  <2> QED
    BY <1>7, <1>m, <2>1 DEF Sql!Release, ClockRead
<1>8. CASE Sql!Tick
  <2>1. \A w \in Workers : calls[w] # Sql!Idle => calls[w].n \in Nat
    BY DEF Sql!Calls
  <2> QED
    BY <1>8, <2>1 DEF Sql!Tick, ClockRead
<1> QED
  BY <1>1, <1>2, <1>3, <1>4, <1>5, <1>6, <1>7, <1>8 DEF Sql!Next

LEMMA SqlStep ==
  ASSUME Sql!TypeOK, ClockRead, Sql!Next
  PROVE  Sql!Store!Next \/ UNCHANGED Sql!Store!vars
<1> USE TtlsAssumption, LagAssumption
<1>t. now \in Nat /\ \A k \in Keys : rows[k].expires \in Int
  BY DEF Sql!TypeOK, Sql!Entry
<1>1. ASSUME NEW w \in Workers, Sql!Prune(w)
      PROVE  Sql!Store!Forget
  <2> DEFINE gone == {k \in Keys : Sql!Held(rows, k) /\ rows[k].expires < calls[w].n}
  <2>1. calls[w].n \in Nat /\ calls[w].n <= now
    BY <1>1, SqlCall DEF Sql!Prune
  <2>2. gone \in SUBSET {k \in Keys : Sql!Store!Expired(k)}
    BY <1>t, <2>1 DEF Sql!Held, Sql!Store!Held, Sql!Store!Expired
  <2>3. Sql!Swept(rows, gone) = Sql!Store!Swept(rows, gone)
    BY DEF Sql!Swept, Sql!Store!Swept, Sql!Missing, Sql!Store!Missing
  <2>4. rows = Sql!Store!Swept(rows, {})
    BY DEF Sql!Store!Swept, Sql!TypeOK
  <2> QED
    BY <1>1, <2>2, <2>3, <2>4 DEF Sql!Prune, Sql!Store!Forget
<1>2. ASSUME NEW w \in Workers, NEW t \in Tokens, Sql!Insert(w, t)
      PROVE  Sql!Store!Claim(calls[w].key, t, calls[w].ttl)
  <2> DEFINE k == calls[w].key
             e == calls[w].n + calls[w].ttl
  <2>0. calls[w].op = "insert"
    BY <1>2 DEF Sql!Insert
  <2>1. k \in Keys /\ calls[w].ttl \in Ttls /\ e \in Sql!Store!Expiries(calls[w].ttl)
    <3>1. /\ calls[w].key \in Keys /\ calls[w].ttl \in Ttls /\ calls[w].n \in Nat
          /\ calls[w].n <= now /\ now <= calls[w].n + Lag
      BY <2>0, SqlCall
    <3>2. calls[w].ttl \in Nat
      BY <3>1
    <3>3. calls[w].n + calls[w].ttl \in Sql!Store!Expiries(calls[w].ttl)
      BY <1>t, <3>1, <3>2 DEF Sql!Store!Expiries
    <3> QED
      BY <3>1, <3>3
  <2>2. rows = Sql!Store!Swept(rows, {})
    BY DEF Sql!Store!Swept, Sql!TypeOK
  <2>3. ~ Sql!Store!Held(rows, k)
    BY <1>2 DEF Sql!Insert, Sql!Held, Sql!Store!Held
  <2>4. rows' = [Sql!Store!Swept(rows, {}) EXCEPT ![k] = Sql!Store!PendingEntry(t, e)]
    BY <1>2, <2>2 DEF Sql!Insert, Sql!PendingEntry, Sql!Store!PendingEntry
  <2>5. rowGrants' = [rowGrants EXCEPT ![t] = Sql!Store!OpenGrant(k, now, e)]
    BY <1>2 DEF Sql!Insert, Sql!OpenGrant, Sql!Store!OpenGrant
  <2>6. rowGrants[t].fate = "unused" /\ now' = now
    BY <1>2 DEF Sql!Insert
  <2>7. {} \in SUBSET {x \in Keys : Sql!Store!Expired(x)}
    OBVIOUS
  <2> HIDE DEF k, e
  <2> QED
    BY <2>1, <2>3, <2>4, <2>5, <2>6, <2>7 DEF Sql!Store!Claim, k
<1>3. ASSUME NEW w \in Workers, Sql!Update(w)
      PROVE  \/ Sql!Store!Settle(calls[w].key, calls[w].token, calls[w].outcome, calls[w].ttl)
             \/ UNCHANGED Sql!Store!vars
  <2>1. calls[w].n + calls[w].ttl \in Sql!Store!Expiries(calls[w].ttl)
    BY <1>3, <1>t, SqlCall DEF Sql!Update, Sql!Store!Expiries
  <2> QED
    BY <1>3, <2>1 DEF Sql!Update, Sql!HeldBy, Sql!Store!Settle, Sql!Store!vars
<1>4. ASSUME NEW k \in Keys, NEW t \in Tokens, Sql!Release(k, t)
      PROVE  Sql!Store!Release(k, t)
  BY <1>4 DEF Sql!Store!Release, Sql!Release, Sql!HeldBy, Sql!Missing, Sql!Store!Missing
<1>5. CASE Sql!Tick
  BY <1>5 DEF Sql!Tick, Sql!Store!Next, Sql!Store!Tick
<1>6. ASSUME NEW w \in Workers, NEW k \in Keys, NEW ttl \in Ttls,
             \/ Sql!BeginClaim(w, k, ttl)
             \/ \E t \in Tokens, outcome \in Sql!Settled :
                  Sql!BeginSettle(w, k, t, outcome, ttl)
      PROVE  UNCHANGED Sql!Store!vars
  BY <1>6 DEF Sql!BeginClaim, Sql!BeginSettle, Sql!Store!vars
<1>7. ASSUME NEW w \in Workers, Sql!InsertRefused(w) \/ Sql!Fail(w)
      PROVE  UNCHANGED Sql!Store!vars
  BY <1>7 DEF Sql!InsertRefused, Sql!Fail, Sql!Store!vars
<1>8. Sql!Settled = Sql!Store!Settled
  BY DEF Sql!Settled, Sql!Store!Settled
<1>9. ASSUME NEW w \in Workers, Sql!Prune(w) \/ (\E t \in Tokens : Sql!Insert(w, t)) \/ Sql!Update(w)
      PROVE  Sql!Store!Next \/ UNCHANGED Sql!Store!vars
  <2>1. /\ calls[w].key \in Keys /\ calls[w].ttl \in Ttls
        /\ Sql!Update(w) => calls[w].token \in Tokens /\ calls[w].outcome \in Sql!Settled
    BY <1>9, SqlCall DEF Sql!Prune, Sql!Insert, Sql!Update
  <2> QED
    BY <1>1, <1>2, <1>3, <1>8, <1>9, <2>1 DEF Sql!Store!Next
<1> QED
  BY <1>4, <1>5, <1>6, <1>7, <1>9 DEF Sql!Next, Sql!Store!Next

-----------------------------------------------------------------------------
(* The contract itself moves nothing of a backend but the common clock.      *)
LEMMA ContractClock ==
  ASSUME Next
  PROVE  now' = now \/ (now < MaxTime /\ now' = now + 1)
  BY DEF Next, Claim, Settle, Release, Forget, Tick

LEMMA InvStep == IInv /\ [PartNext]_partVars => IInv'
<1> SUFFICES ASSUME IInv, [PartNext]_partVars PROVE IInv'
  OBVIOUS
<1> USE DEF IInv, BackendsTypeOK
<1>1. CASE part = "python" /\ Python!Next /\ UNCHANGED <<part, memoryVars, sqlVars>>
  <2>1. Python!TypeOK' /\ Bounded(memory_cache)'
    BY <1>1, PythonInv
  <2>2. Memory!TypeOK' /\ Sql!TypeOK' /\ Bounded(cache)'
    BY <1>1, <2>1 DEF Python!TypeOK, Memory!TypeOK, Sql!TypeOK, memoryVars, sqlVars,
                      Bounded, HeldKeys
  <2>3. ClockRead'
    BY <1>1 DEF ClockRead, sqlVars
  <2> QED
    BY <1>1, <2>1, <2>2, <2>3
<1>2. CASE part = "memory" /\ Memory!Next /\ UNCHANGED <<part, pythonVars, sqlVars>>
  <2>1. Memory!TypeOK' /\ Bounded(cache)'
    BY <1>2, MemoryInv
  <2>2. Python!TypeOK' /\ Sql!TypeOK' /\ Bounded(memory_cache)'
    BY <1>2, <2>1 DEF Python!TypeOK, Memory!TypeOK, Sql!TypeOK, pythonVars, sqlVars,
                      Bounded, HeldKeys
  <2>3. ClockRead'
    BY <1>2 DEF ClockRead, sqlVars
  <2> QED
    BY <1>2, <2>1, <2>2, <2>3
<1>3. CASE part = "sql" /\ Sql!Next /\ UNCHANGED <<part, pythonVars, memoryVars>>
  <2>1. Sql!TypeOK' /\ ClockRead'
    BY <1>3, SqlInv
  <2>2. Python!TypeOK' /\ Memory!TypeOK' /\ Bounded(memory_cache)' /\ Bounded(cache)'
    BY <1>3, <2>1 DEF Python!TypeOK, Memory!TypeOK, Sql!TypeOK, pythonVars, memoryVars,
                      Bounded, HeldKeys
  <2> QED
    BY <1>3, <2>1, <2>2
<1>4. CASE now' \in Nat /\ UNCHANGED <<part, backendVars>> /\ (part = "sql" => now' = now)
  <2>1. BackendsTypeOK' /\ Bounded(memory_cache)' /\ Bounded(cache)'
    BY <1>4 DEF backendVars, pythonVars, memoryVars, sqlVars, Python!TypeOK, Memory!TypeOK,
                Sql!TypeOK, Bounded, HeldKeys
  <2>2. ClockRead'
    BY <1>4 DEF backendVars, sqlVars, ClockRead
  <2> QED
    BY <1>4, <2>1, <2>2
<1>5. CASE part = "contract" /\ Next /\ UNCHANGED <<part, backendVars>>
  <2>1. now \in Nat
    BY DEF Python!TypeOK
  <2> QED
    BY <1>4, <1>5, <2>1, ContractClock
<1>6. CASE UNCHANGED partVars
  BY <1>4, <1>6 DEF partVars, vars, Python!TypeOK
<1> QED
  BY <1>1, <1>2, <1>3, <1>5, <1>6 DEF PartNext

(* The strengthening: every call's clock value is at most Lag seconds old,   *)
(* and the tables with a capacity are finite.                                *)
THEOREM Inductive == PartSpec => []IInv
  BY InitInv, InvStep, PTL DEF PartSpec

(* The two process-local backends never hold more than MaxEntries, and the   *)
(* Rust map refuses for want of room only while that many entries are live.  *)
THEOREM CapacityAlwaysHonoured == PartSpec => []CapacityHonoured
<1>1. IInv => WithinCapacity
  <2> SUFFICES ASSUME IInv PROVE WithinCapacity
    OBVIOUS
  <2>1. /\ HeldKeys(memory_cache) = {k \in Keys : Python!Held(memory_cache, k)}
        /\ HeldKeys(cache) = {k \in Keys : Memory!Held(cache, k)}
    BY DEF HeldKeys, Python!Held, Memory!Held
  <2> QED
    BY <2>1, SameCardinality
    DEF IInv, Bounded, WithinCapacity, Python!WithinCapacity, Memory!WithinCapacity,
        Memory!Len
<1>2. IInv => RefusedOnlyIfLive
  <2> SUFFICES ASSUME IInv, Memory!Full(Memory!Retained(now))
               PROVE  Memory!Cardinality({k \in Keys : Memory!Live(cache, k, now)}) >= MaxEntries
    BY DEF RefusedOnlyIfLive, Memory!RefusedOnlyIfLive
  <2> DEFINE gone == {k \in Keys : Memory!Held(cache, k) /\ cache[k].expires <= now}
  <2>1. Memory!Len >= MaxEntries
    BY DEF Memory!Full, Memory!Len, Memory!Retained
  <2>2. Memory!Retained(now) = Memory!Swept(cache, gone)
    BY <2>1 DEF Memory!Retained
  <2>3. {k \in Keys : Memory!Held(Memory!Swept(cache, gone), k)}
          = {k \in Keys : Memory!Live(cache, k, now)}
    <3>1. now \in Int /\ \A k \in Keys : cache[k].expires \in Int
      BY DEF IInv, BackendsTypeOK, Memory!TypeOK, Memory!Entry
    <3> QED
      BY <3>1 DEF Memory!Swept, Memory!Held, Memory!Live, Memory!Missing
  <2> QED
    BY <2>2, <2>3 DEF Memory!Full
<1> QED
  BY <1>1, <1>2, Inductive, PTL DEF CapacityHonoured, IInv

-----------------------------------------------------------------------------
(* While another backend is called, one that is not sees at most the clock   *)
(* move.                                                                     *)
LEMMA ClockStep ==
  ASSUME Python!Next \/ Memory!Next \/ Sql!Next
  PROVE  now' = now \/ (now < MaxTime /\ now' = now + 1)
<1>1. ASSUME Python!Next PROVE now' = now \/ (now < MaxTime /\ now' = now + 1)
  BY <1>1 DEF Python!Next, Python!Claim, Python!ClaimRefused, Python!Commit, Python!Reject,
              Python!Settle, Python!Release, Python!Tick
<1>2. ASSUME Memory!Next PROVE now' = now \/ (now < MaxTime /\ now' = now + 1)
  <2>1. ASSUME NEW n, NEW k, NEW t, NEW ttl, Memory!Claim(k, t, ttl, n)
        PROVE  now' = now
    BY <2>1 DEF Memory!Claim
  <2>2. ASSUME NEW n, NEW k, Memory!ClaimRefused(k, n)
        PROVE  now' = now
    BY <2>2 DEF Memory!ClaimRefused
  <2>3. ASSUME NEW n, NEW k, NEW t, NEW outcome, NEW ttl, Memory!Settle(k, t, outcome, ttl, n)
        PROVE  now' = now
    BY <2>3 DEF Memory!Settle
  <2> QED
    BY <1>2, <2>1, <2>2, <2>3 DEF Memory!Next, Memory!Release, Memory!Tick
<1>3. ASSUME Sql!Next PROVE now' = now \/ (now < MaxTime /\ now' = now + 1)
  BY <1>3 DEF Sql!Next, Sql!BeginClaim, Sql!BeginSettle, Sql!Prune, Sql!Insert,
              Sql!InsertRefused, Sql!Update, Sql!Fail, Sql!Release, Sql!Tick
<1> QED
  BY <1>1, <1>2, <1>3

(* The dictionary of the Python registry implements the contract: every      *)
(* method is a step of it or none, for any capacity.                         *)
THEOREM PythonImplements == PartSpec => PythonStoreSpec
<1>1. PartInit => Python!Store!Init
  BY PythonInit DEF PartInit
<1>2. IInv /\ [PartNext]_partVars => [Python!Store!Next]_Python!Store!vars
  <2> SUFFICES ASSUME IInv, [PartNext]_partVars
               PROVE  Python!Store!Next \/ UNCHANGED Python!Store!vars
    OBVIOUS
  <2>1. CASE Python!Next
    BY <2>1, PythonStep DEF IInv, BackendsTypeOK
  <2>2. CASE now < MaxTime /\ now' = now + 1 /\ UNCHANGED pythonVars
    BY <2>2 DEF Python!Store!Tick, Python!Store!Next, pythonVars
  <2>3. CASE now' = now /\ UNCHANGED pythonVars
    BY <2>3 DEF Python!Store!vars, pythonVars
  <2> QED
    BY <2>1, <2>2, <2>3, ClockStep, ContractClock DEF PartNext, partVars, vars, backendVars
<1> QED
  BY <1>1, <1>2, Inductive, PTL DEF PartSpec, PythonStoreSpec, Python!StoreSpec, Python!Store!Spec

(* The in-memory map of the Rust core implements the contract although       *)
(* expired entries linger in it and its clock may be Lag old.                *)
THEOREM MemoryImplements == PartSpec => MemoryStoreSpec
<1>1. PartInit => Memory!Store!Init
  BY DEF PartInit, Memory!Init, Memory!Store!Init, Memory!Missing, Memory!Store!Missing,
        Memory!NoGrant, Memory!Store!NoGrant
<1>2. IInv /\ [PartNext]_partVars => [Memory!Store!Next]_Memory!Store!vars
  <2> SUFFICES ASSUME IInv, [PartNext]_partVars
               PROVE  Memory!Store!Next \/ UNCHANGED Memory!Store!vars
    OBVIOUS
  <2>1. CASE Memory!Next
    BY <2>1, MemoryStep DEF IInv, BackendsTypeOK
  <2>2. CASE now < MaxTime /\ now' = now + 1 /\ UNCHANGED memoryVars
    BY <2>2 DEF Memory!Store!Tick, Memory!Store!Next, memoryVars
  <2>3. CASE now' = now /\ UNCHANGED memoryVars
    BY <2>3 DEF Memory!Store!vars, memoryVars
  <2> QED
    BY <2>1, <2>2, <2>3, ClockStep, ContractClock DEF PartNext, partVars, vars, backendVars
<1> QED
  BY <1>1, <1>2, Inductive, PTL DEF PartSpec, MemoryStoreSpec, Memory!StoreSpec, Memory!Store!Spec

(* The shared table implements the contract whatever its workers interleave  *)
(* between their statements.                                                 *)
THEOREM SqlImplements == PartSpec => SqlStoreSpec
<1>1. PartInit => Sql!Store!Init
  BY DEF PartInit, Sql!Init, Sql!Store!Init, Sql!Missing, Sql!Store!Missing,
        Sql!NoGrant, Sql!Store!NoGrant
<1>2. IInv /\ [PartNext]_partVars => [Sql!Store!Next]_Sql!Store!vars
  <2> SUFFICES ASSUME IInv, [PartNext]_partVars
               PROVE  Sql!Store!Next \/ UNCHANGED Sql!Store!vars
    OBVIOUS
  <2>1. CASE Sql!Next
    BY <2>1, SqlStep DEF IInv, BackendsTypeOK
  <2>2. CASE now < MaxTime /\ now' = now + 1 /\ UNCHANGED sqlVars
    BY <2>2 DEF Sql!Store!Tick, Sql!Store!Next, sqlVars
  <2>3. CASE now' = now /\ UNCHANGED sqlVars
    BY <2>3 DEF Sql!Store!vars, sqlVars
  <2> QED
    BY <2>1, <2>2, <2>3, ClockStep, ContractClock DEF PartNext, partVars, vars, backendVars
<1> QED
  BY <1>1, <1>2, Inductive, PTL DEF PartSpec, SqlStoreSpec, Sql!StoreSpec, Sql!Store!Spec
=============================================================================
