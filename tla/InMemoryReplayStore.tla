------------------------- MODULE InMemoryReplayStore -------------------------
(* rust/hermes_ffi_core/src/replay/memory.rs behind the Python class         *)
(* NativeReplayRegistry of hermes_ffi_py: one HashMap under one Mutex, so    *)
(* each call is one step. The binding reads the clock before the Mutex is    *)
(* taken: a call works with a clock value n up to Lag seconds old. Unlike    *)
(* the Python dictionary, expired entries stay until the map is full.        *)
EXTENDS ReplayModel

CONSTANTS
  MaxEntries,   \* MAX_ENTRIES
  Lag           \* longest wait between reading the clock and taking the Mutex


VARIABLES now, cache, grants

vars == <<now, cache, grants>>

Init ==
  /\ now = 0
  /\ cache = [k \in Keys |-> Missing]
  /\ grants = [t \in Tokens |-> NoGrant]

Len == Cardinality({k \in Keys : Held(cache, k)})

(* Mutant: only prune_expired's own test ("len > MAX_ENTRIES"), without the  *)
(* forced sweep of a full map.                                               *)
RetainedLater(n) ==
  IF Len > MaxEntries
  THEN Swept(cache, {k \in Keys : Held(cache, k) /\ cache[k].expires <= n})
  ELSE cache

(* map.retain(|_, v| v.expires_at > now), done by claim when the map is full *)
(* (prune_expired, "len > MAX_ENTRIES", and then "len >= MAX_ENTRIES").      *)
Retained(n) ==
  IF Len >= MaxEntries
  THEN Swept(cache, {k \in Keys : Held(cache, k) /\ cache[k].expires <= n})
  ELSE cache

Full(map) == Cardinality({k \in Keys : Held(map, k)}) >= MaxEntries

Live(map, k, n) == Held(map, k) /\ map[k].expires > n

Claim(k, t, ttl, n) ==
  /\ grants[t].fate = "unused"
  /\ ~Full(Retained(n))
  /\ ~Live(Retained(n), k, n)
  /\ cache' = [Retained(n) EXCEPT ![k] = PendingEntry(t, n + ttl)]
  /\ grants' = [grants EXCEPT ![t] = OpenGrant(k, now, n + ttl)]
  /\ UNCHANGED now

(* "Max capacity reached" or AlreadyClaimed, after the forced sweep.         *)
ClaimRefused(k, n) ==
  /\ Full(Retained(n)) \/ Live(Retained(n), k, n)
  /\ cache' = Retained(n)
  /\ UNCHANGED <<now, grants>>

(* Mutant: the token is not compared.                                        *)
HeldByAnyone(k, t) == cache[k].state = "pending" /\ grants[t].key = k

HeldBy(k, t) == cache[k].state = "pending" /\ cache[k].token = t

(* commit and reject: "Treat expired as Missing", then state, then token.    *)
Settle(k, t, outcome, ttl, n) ==
  /\ Live(cache, k, n)
  /\ HeldBy(k, t)
  /\ cache' = [cache EXCEPT ![k] = [state |-> outcome, token |-> NoToken,
                                    expires |-> n + ttl]]
  /\ grants' = [grants EXCEPT ![t].fate = outcome, ![t].until = n + ttl]
  /\ UNCHANGED now

(* release does not look at the expiry: the entry goes away either way.      *)
Release(k, t) ==
  /\ HeldBy(k, t)
  /\ cache' = [cache EXCEPT ![k] = Missing]
  /\ grants' = [grants EXCEPT ![t].fate = "released"]
  /\ UNCHANGED now

Tick == now < MaxTime /\ now' = now + 1 /\ UNCHANGED <<cache, grants>>

(* The clock values a call that takes effect now may have read.              *)
Clocks == {n \in 0..MaxTime : n <= now /\ now <= n + Lag}

Next ==
  \/ \E n \in Clocks, k \in Keys :
       \/ ClaimRefused(k, n)
       \/ \E t \in Tokens, ttl \in Ttls :
            \/ Claim(k, t, ttl, n)
            \/ \E outcome \in Settled : Settle(k, t, outcome, ttl, n)
  \/ \E k \in Keys, t \in Tokens : Release(k, t)
  \/ Tick

Spec == Init /\ [][Next]_vars

-----------------------------------------------------------------------------
TypeOK ==
  /\ now \in Nat
  /\ cache \in [Keys -> Entry]
  /\ grants \in [Tokens -> Grant]

(* The map never outgrows MAX_ENTRIES although expired entries linger in it. *)
WithinCapacity == Len <= MaxEntries

(* A full map of expired entries never blocks a new key: the forced sweep    *)
(* makes room, so a key is refused for want of room only while MAX_ENTRIES   *)
(* entries are live (at the clock the call reads).                           *)
RefusedOnlyIfLive ==
  Full(Retained(now)) => Cardinality({k \in Keys : Live(cache, k, now)}) >= MaxEntries

(* The contract's view of the map is the map itself.                         *)
Store == INSTANCE ReplayStore WITH claims <- cache

(* The map implements the contract of ReplayStore, although expired entries  *)
(* linger in it and every call works with a clock up to Lag seconds old.     *)
StoreSpec == Store!Spec
=============================================================================
