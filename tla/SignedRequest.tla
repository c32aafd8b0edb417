----------------------------- MODULE SignedRequest -----------------------------
(* How a signed, timestamped request is honoured at most so many times:      *)
(* freshness check, signature check, claim in the registry, work, commit.    *)
(* Two callers have this shape. verify_client_signature (api.py) accepts     *)
(* timestamps 300 s either side of the clock and always commits.             *)
(* decrypt_envelope (crypto_core/native_core.py) accepts 300 s back and 60 s *)
(* ahead, and commits, rejects or releases as the decryption turns out.      *)
(* The checks and the registry calls of one request interleave with those of *)
(* its duplicates; the registry is the in-process one (ReplayRegistry).      *)
EXTENDS ReplayModel

CONSTANTS
  Handlers,    \* requests being processed at the same time
  Past,        \* accepted age of a timestamp: 300
  Future,      \* accepted lead of a timestamp: 300 (API) or 60 (envelope)
  Retention,   \* ttl_seconds of the domain: 300
  Stamps,      \* timestamps the senders put on their requests
  Outcomes,    \* what the caller may do with its claim
  MaxWork,     \* bound on the time from the freshness check to the commit
  MaxEntries

ASSUME WindowAssumption == Past \in Nat /\ Future \in Nat /\ MaxWork \in Nat
ASSUME RetentionAssumption == Retention \in Ttls /\ MaxWork < Retention
ASSUME StampsAssumption == Stamps \subseteq Nat
ASSUME OutcomesAssumption == Outcomes \subseteq Settled \cup {"released"}

VARIABLES
  now, memory_cache, grants,   \* the registry
  stamp,      \* request -> its timestamp
  handler,    \* what each handler is doing
  accepted    \* request -> tokens under which it has been honoured

registryVars == <<now, memory_cache, grants>>
vars == <<now, memory_cache, grants, stamp, handler, accepted>>

Registry == INSTANCE ReplayRegistry

Idle == [pc |-> "idle"]

Init ==
  /\ Registry!Init
  /\ stamp \in [Keys -> Stamps]
  /\ handler = [h \in Handlers |-> Idle]
  /\ accepted = [k \in Keys |-> {}]

(* A copy of request k arrives and passes the freshness and signature checks *)
(* (a request that fails one changes nothing).                               *)
Arrive(h, k) ==
  /\ handler[h] = Idle
  /\ now - Past <= stamp[k] /\ stamp[k] <= now + Future
  /\ handler' = [handler EXCEPT ![h] = [pc |-> "verified", key |-> k, since |-> now]]
  /\ UNCHANGED <<registryVars, stamp, accepted>>

ClaimGranted(h, t) ==
  /\ handler[h].pc = "verified"
  /\ Registry!Claim(handler[h].key, t, Retention)
  /\ handler' = [handler EXCEPT ![h] = [pc |-> "working", key |-> @.key,
                                        since |-> @.since, token |-> t]]
  /\ UNCHANGED <<stamp, accepted>>

(* "Replay attack detected" / REPLAY_ATTACK_BLOCKED.                         *)
ClaimDenied(h) ==
  /\ handler[h].pc = "verified"
  /\ Registry!ClaimRefused(handler[h].key)
  /\ handler' = [handler EXCEPT ![h] = Idle]
  /\ UNCHANGED <<stamp, accepted>>

(* The registry ignores a call whose token no longer holds the key, and the  *)
(* caller is not told.                                                       *)
Told(h, call) ==
  IF Registry!HeldBy(handler[h].key, handler[h].token)
  THEN call
  ELSE UNCHANGED registryVars

(* Mutant: a successful request hands its claim back, as a failed one does.  *)
HonourAndRelease(h) ==
  /\ handler[h].pc = "working"
  /\ Told(h, Registry!Release(handler[h].key, handler[h].token))
  /\ accepted' = [accepted EXCEPT ![handler[h].key] = @ \cup {handler[h].token}]
  /\ handler' = [handler EXCEPT ![h] = Idle]
  /\ UNCHANGED stamp

(* The work succeeded: commit, and the request is honoured.                  *)
Honour(h) ==
  /\ handler[h].pc = "working"
  /\ Told(h, Registry!Commit(handler[h].key, handler[h].token, Retention))
  /\ accepted' = [accepted EXCEPT ![handler[h].key] = @ \cup {handler[h].token}]
  /\ handler' = [handler EXCEPT ![h] = Idle]
  /\ UNCHANGED stamp

(* Deterministic failure: the envelope is rejected for good.                 *)
Refuse(h) ==
  /\ handler[h].pc = "working" /\ "rejected" \in Outcomes
  /\ Told(h, Registry!Reject(handler[h].key, handler[h].token, Retention))
  /\ handler' = [handler EXCEPT ![h] = Idle]
  /\ UNCHANGED <<stamp, accepted>>

(* Transient failure of the crypto backend: the claim is handed back.        *)
HandBack(h) ==
  /\ handler[h].pc = "working" /\ "released" \in Outcomes
  /\ Told(h, Registry!Release(handler[h].key, handler[h].token))
  /\ handler' = [handler EXCEPT ![h] = Idle]
  /\ UNCHANGED <<stamp, accepted>>

Tick ==
  /\ \A h \in Handlers : handler[h] # Idle => now < handler[h].since + MaxWork
  /\ Registry!Tick
  /\ UNCHANGED <<stamp, handler, accepted>>

Next ==
  \/ \E h \in Handlers :
       \/ \E k \in Keys : Arrive(h, k)
       \/ \E t \in Tokens : ClaimGranted(h, t)
       \/ ClaimDenied(h)
       \/ Honour(h)
       \/ Refuse(h)
       \/ HandBack(h)
  \/ Tick

Spec == Init /\ [][Next]_vars

-----------------------------------------------------------------------------
TypeOK ==
  /\ Registry!TypeOK
  /\ stamp \in [Keys -> Stamps]
  /\ handler \in [Handlers ->
       {Idle} \cup [pc : {"verified"}, key : Keys, since : Nat]
              \cup [pc : {"working"}, key : Keys, since : Nat, token : Tokens]]
  /\ accepted \in [Keys -> SUBSET Tokens]

(* Two acceptances of one request are a whole retention apart: duplicates    *)
(* that race through the checks at the same time are honoured once.          *)
AcceptancesSpaced ==
  \A k \in Keys : \A s, t \in accepted[k] :
    s # t => \/ grants[s].at + Retention <= grants[t].at
             \/ grants[t].at + Retention <= grants[s].at

(* Once a request has been honoured with a retention that outlives its       *)
(* freshness window (and the work of a copy let in at its very end), no      *)
(* later copy is honoured.                                                   *)
RetainedMeansOnce ==
  \A k \in Keys : \A s, t \in accepted[k] :
    s # t /\ grants[s].at < grants[t].at
      => grants[s].until <= stamp[k] + Past + MaxWork

(* ADR_REPLAY_IDENTITY.md:23: "retaining the hash for 300 seconds is         *)
(* sufficient. After 300 seconds, the timestamp freshness check will         *)
(* naturally reject any replay attempts": no request is honoured twice.      *)
HonouredOnce == \A k \in Keys : Cardinality(accepted[k]) <= 1

(* A request is honoured once for as long as the registry remembers it, and  *)
(* copies honoured later are a retention apart.                              *)
OnceWhileRetained == TypeOK /\ AcceptancesSpaced /\ RetainedMeansOnce
=============================================================================
