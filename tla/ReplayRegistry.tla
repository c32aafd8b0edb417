---------------------------- MODULE ReplayRegistry ----------------------------
(* ReplayRegistry of hermes_backend/network_core/otp_registry.py with its    *)
(* in-process dictionary (the path taken when the native module is not       *)
(* there). Every method runs under self._lock, so each is one step; the      *)
(* clock is read inside the lock. A call that changes nothing (a commit with *)
(* a token that no longer matches) is a stuttering step.                     *)
EXTENDS ReplayModel

CONSTANT MaxEntries   \* 100_000: the capacity of memory_cache


VARIABLES
  now,            \* time.time()
  memory_cache,   \* key -> entry; "missing" is a key that is not in the dict
  grants          \* history: what became of each token

vars == <<now, memory_cache, grants>>

Init ==
  /\ now = 0
  /\ memory_cache = [k \in Keys |-> Missing]
  /\ grants = [t \in Tokens |-> NoGrant]

(* expired_keys, and the dictionary without them.                            *)
ExpiredKeys == {k \in Keys : Held(memory_cache, k) /\ now >= memory_cache[k].expires}
Pruned == Swept(memory_cache, ExpiredKeys)

Full(cache) == Cardinality({k \in Keys : Held(cache, k)}) >= MaxEntries

(* _claim returning a token.                                                 *)
Claim(k, t, ttl) ==
  /\ grants[t].fate = "unused"
  /\ ~Held(Pruned, k)
  /\ ~Full(Pruned)
  /\ memory_cache' = [Pruned EXCEPT ![k] = PendingEntry(t, now + ttl)]
  /\ grants' = [grants EXCEPT ![t] = OpenGrant(k, now, now + ttl)]
  /\ UNCHANGED now

(* _claim returning None: the sweep has happened all the same.               *)
ClaimRefused(k) ==
  /\ Held(Pruned, k) \/ Full(Pruned)
  /\ memory_cache' = Pruned
  /\ UNCHANGED <<now, grants>>

(* Mutant: the token is not compared.                                        *)
HeldByAnyone(k, t) == memory_cache[k].state = "pending" /\ grants[t].key = k

HeldBy(k, t) == memory_cache[k].state = "pending" /\ memory_cache[k].token = t

(* _commit and _reject: the same code but for the state they write. Neither  *)
(* looks at expires_at, and the token stays in the entry.                    *)
Settle(k, t, outcome, ttl) ==
  /\ HeldBy(k, t)
  /\ memory_cache' = [memory_cache EXCEPT ![k].state = outcome,
                                          ![k].expires = now + ttl]
  /\ grants' = [grants EXCEPT ![t].fate = outcome, ![t].until = now + ttl]
  /\ UNCHANGED now

Commit(k, t, ttl) == Settle(k, t, "consumed", ttl)
Reject(k, t, ttl) == Settle(k, t, "rejected", ttl)

(* _release: the entry is deleted.                                           *)
Release(k, t) ==
  /\ HeldBy(k, t)
  /\ memory_cache' = [memory_cache EXCEPT ![k] = Missing]
  /\ grants' = [grants EXCEPT ![t].fate = "released"]
  /\ UNCHANGED now

Tick == now < MaxTime /\ now' = now + 1 /\ UNCHANGED <<memory_cache, grants>>

Next ==
  \/ \E k \in Keys, t \in Tokens, ttl \in Ttls :
       Claim(k, t, ttl) \/ Commit(k, t, ttl) \/ Reject(k, t, ttl)
  \/ \E k \in Keys, t \in Tokens : Release(k, t)
  \/ \E k \in Keys : ClaimRefused(k)
  \/ Tick

Spec == Init /\ [][Next]_vars

-----------------------------------------------------------------------------
TypeOK ==
  /\ now \in Nat
  /\ memory_cache \in [Keys -> Entry]
  /\ grants \in [Tokens -> Grant]

(* memory_cache never holds more than its capacity, whatever is claimed,     *)
(* released and swept ("Registry at max capacity" refuses instead).          *)
WithinCapacity == Cardinality({k \in Keys : Held(memory_cache, k)}) <= MaxEntries

(* The contract's view of the dictionary: the token of a settled entry is    *)
(* invisible to it (nothing compares it any more).                           *)
Store == INSTANCE ReplayStore WITH
  Lag <- 0,
  claims <- [k \in Keys |->
               IF memory_cache[k].state \in Settled
               THEN [memory_cache[k] EXCEPT !.token = NoToken]
               ELSE memory_cache[k]]

(* The dictionary implements the contract of ReplayStore: every method is a  *)
(* step of it (or none), so all that is proved of the contract holds here.   *)
StoreSpec == Store!Spec
=============================================================================
