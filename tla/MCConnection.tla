----------------------------- MODULE MCConnection -----------------------------
(* The connection of a page on which two accounts take turns: the manager of *)
(* the first login still awaits its requests while the other logs in.        *)
EXTENDS SyncTransport, TLC

(* At least the keys of the vaults at hand can be numbered.                  *)
ASSUME KeysAssumption == MaxKeys \in Nat \ {0}

(* The keys of a vault are those the server has.                             *)
KeysAreRegistered == TypeOK /\ AdoptedAreRegistered

(* A server that has forgotten its users leaves nothing to say, and blobs are*)
(* no matter of keys.                                                        *)
Bounds == ~forgot /\ pending = {}

Perms == Permutations(Users) \cup Permutations(Managers)
==============================================================================
