----------------------------- MODULE ReplayModel -----------------------------
(* Vocabulary shared by the replay registry and its backends                *)
(* (rust/hermes_ffi_core/src/replay/model.rs, schema.sql, otp_registry.py): *)
(* what an entry of the registry is, when it is live, and the history of    *)
(* the claims that were granted.                                            *)
EXTENDS Integers, FiniteSets

CONSTANTS
  Keys,       \* hashes of signatures, envelopes or relayed blobs, with their domain
  NoKey,      \* the key of a token nobody has been given yet
  Tokens,     \* 16-byte claim tokens; each is generated at most once
  NoToken,    \* NULL / None in the token column
  Ttls,       \* retention periods the callers pass, in seconds
  MaxTime     \* bound on the clock

ASSUME KeysAssumption == NoKey \notin Keys
ASSUME TokensAssumption == NoToken \notin Tokens
ASSUME TtlsAssumption == Ttls \subseteq Nat \ {0}
ASSUME MaxTimeAssumption == MaxTime \in Nat

Settled == {"consumed", "rejected"}

Entry == [state : {"missing", "pending"} \cup Settled,
          token : Tokens \cup {NoToken},
          expires : Int]

Missing == [state |-> "missing", token |-> NoToken, expires |-> 0]

PendingEntry(t, e) == [state |-> "pending", token |-> t, expires |-> e]

(* The history of one token: the key it was granted for, when, until when   *)
(* the entry it created was (last) due to live, and what became of it.      *)
Grant == [fate : {"unused", "open", "released"} \cup Settled,
          key : Keys \cup {NoKey},
          at : Int,
          until : Int]

NoGrant == [fate |-> "unused", key |-> NoKey, at |-> 0, until |-> 0]

OpenGrant(k, at, until) ==
  [fate |-> "open", key |-> k, at |-> at, until |-> until]

Held(claims, k) == claims[k].state # "missing"

(* The entries a full sweep at time n keeps, as a table.                     *)
Swept(claims, gone) == [k \in Keys |-> IF k \in gone THEN Missing ELSE claims[k]]

=============================================================================
