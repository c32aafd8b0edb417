----------------------------- MODULE ReplayStore -----------------------------
(* The contract of `trait ReplayStore` (hermes_ffi_core/src/replay/store.rs) *)
(* which every backend of the registry is shown to implement: a key is       *)
(* granted to one caller at a time, only the holder of the token can settle  *)
(* or release it, and what has been settled stays settled until it expires.  *)
(* An operation that returns an error leaves the contract's state alone.     *)
EXTENDS ReplayModel

CONSTANT Lag   \* how old the clock value of an operation may be when it takes effect

ASSUME LagAssumption == Lag \in Nat

VARIABLES
  now,      \* the clock of the server, in seconds
  claims,   \* key -> entry
  grants    \* token -> history of the claim that returned it

vars == <<now, claims, grants>>

Init ==
  /\ now = 0
  /\ claims = [k \in Keys |-> Missing]
  /\ grants = [t \in Tokens |-> NoGrant]

(* Mutant: an entry counts as expired one second early.                      *)
ExpiredEarly(k) == Held(claims, k) /\ claims[k].expires <= now + 1

Expired(k) == Held(claims, k) /\ claims[k].expires <= now

(* Expiry times an operation with this retention may write now.             *)
Expiries(ttl) == (now + ttl - Lag)..(now + ttl)

(* Mutant: only a pending entry stands in the way of a claim.                *)
ClaimUnlessPending(k, t, ttl) ==
  /\ grants[t].fate = "unused"
  /\ claims[k].state # "pending" \/ Expired(k)
  /\ \E e \in Expiries(ttl) :
       /\ claims' = [claims EXCEPT ![k] = PendingEntry(t, e)]
       /\ grants' = [grants EXCEPT ![t] = OpenGrant(k, now, e)]
  /\ UNCHANGED now

(* claim: "Returns a ClaimToken if successful (transitions to Pending)".    *)
(* Expired entries may be dropped on the way.                                *)
Claim(k, t, ttl) ==
  /\ grants[t].fate = "unused"
  /\ ~Held(claims, k) \/ Expired(k)
  /\ \E e \in Expiries(ttl), gone \in SUBSET {x \in Keys : Expired(x)} :
       /\ claims' = [Swept(claims, gone) EXCEPT ![k] = PendingEntry(t, e)]
       /\ grants' = [grants EXCEPT ![t] = OpenGrant(k, now, e)]
  /\ UNCHANGED now

(* Mutant: the entry is written with the name of the operation as its state. *)
SettleMisnamed(k, t, outcome, ttl) ==
  /\ claims[k].state = "pending" /\ claims[k].token = t
  /\ claims' = [claims EXCEPT ![k].state = "commit"]
  /\ UNCHANGED <<now, grants>>

(* commit and reject: the holder settles its pending claim.                  *)
Settle(k, t, outcome, ttl) ==
  /\ claims[k].state = "pending" /\ claims[k].token = t
  /\ \E e \in Expiries(ttl) :
       /\ claims' = [claims EXCEPT ![k] = [state |-> outcome,
                                           token |-> NoToken,
                                           expires |-> e]]
       /\ grants' = [grants EXCEPT ![t].fate = outcome, ![t].until = e]
  /\ UNCHANGED now

(* Mutant: the token is not compared.                                        *)
ReleaseAnyToken(k, t) ==
  /\ claims[k].state = "pending"
  /\ claims' = [claims EXCEPT ![k] = Missing]
  /\ grants' = [grants EXCEPT ![t].fate = "released"]
  /\ UNCHANGED now

(* release: the holder gives the key back, it may be claimed again.          *)
Release(k, t) ==
  /\ claims[k].state = "pending" /\ claims[k].token = t
  /\ claims' = [claims EXCEPT ![k] = Missing]
  /\ grants' = [grants EXCEPT ![t].fate = "released"]
  /\ UNCHANGED now

(* Expired entries are dropped by an operation that grants nothing.          *)
Forget ==
  /\ \E gone \in SUBSET {x \in Keys : Expired(x)} : claims' = Swept(claims, gone)
  /\ UNCHANGED <<now, grants>>

Tick == now < MaxTime /\ now' = now + 1 /\ UNCHANGED <<claims, grants>>

Next ==
  \/ \E k \in Keys, t \in Tokens :
       \/ \E ttl \in Ttls : \/ Claim(k, t, ttl)
                            \/ \E outcome \in Settled : Settle(k, t, outcome, ttl)
       \/ Release(k, t)
  \/ Forget
  \/ Tick

Spec == Init /\ [][Next]_vars

-----------------------------------------------------------------------------
TypeOK ==
  /\ now \in Nat
  /\ claims \in [Keys -> Entry]
  /\ grants \in [Tokens -> Grant]

(* At any moment at most one caller has a standing claim on a key: the       *)
(* windows [at, until) of two grants of the same key, neither of them        *)
(* released, never overlap. Several claims, a sweep and a late commit of     *)
(* different callers are needed to break it (ADR_REPLAY_IDENTITY, "safely    *)
(* handle concurrent decryption logic").                                     *)
ExclusiveWindows ==
  \A s, t \in Tokens :
    /\ s # t
    /\ grants[s].fate \notin {"unused", "released"}
    /\ grants[t].fate \notin {"unused", "released"}
    /\ grants[s].key = grants[t].key
    => \/ grants[s].until <= grants[t].at
       \/ grants[t].until <= grants[s].at

(* A caller whose claim has not expired can still settle it: no operation of *)
(* another caller, no sweep and no reuse of the key takes it away (the ABA   *)
(* hazard of test_aba_concurrency and test_ttl_expiration).                  *)
HolderCanSettle ==
  \A t \in Tokens :
    grants[t].fate = "open" /\ now < grants[t].until =>
      /\ claims[grants[t].key].state = "pending"
      /\ claims[grants[t].key].token = t

(* What has been consumed or rejected stays so, unchanged, until it expires: *)
(* a replay of the key inside the retention is always refused.               *)
SettledStays ==
  [][\A k \in Keys :
       claims[k].state \in Settled /\ now < claims[k].expires
         => claims'[k] = claims[k]]_vars
=============================================================================
