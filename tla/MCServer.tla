------------------------------ MODULE MCServer -------------------------------
(* The parts of the server, and of the WASM core, that keep something for    *)
(* later, side by side: a behaviour chooses one of them and only that one    *)
(* runs. One signed request with up to three claims, two handlers racing on  *)
(* its copies, windows of two seconds standing for the 300 s of the code. The*)
(* queue with two receivers, up to two relays between restarts, TTLs of zero *)
(* and one second (zero meets the boundary now = expires_at), a task that may*)
(* wake up one second late, and time for a second life after a restart. The  *)
(* ratchet with both kinds of session; five messages of each party make up to*)
(* five turns or a chain longer than MaxSkip, which fills skipped_keys and is*)
(* refused.                                                                  *)
EXTENDS SignedRequest, TLC

CONSTANTS Blobs, Users, RelayTtls, Slack, RelayTime, MaxCount, Sessions, MaxSkip, MaxSent

ASSUME RelayAssumption ==
  RelayTtls \subseteq Nat /\ {Slack, RelayTime, MaxCount} \subseteq Nat
ASSUME RatchetAssumption == MaxSkip \in Nat

VARIABLES
  part,   \* the part that runs
  queueNow, pending_blobs, blind_counter, timers, ended,
  session, ratchet, network, read, dropped

Queue == INSTANCE BlindRelay WITH
  Ttls <- RelayTtls, MaxTime <- RelayTime, now <- queueNow
Ratchet == INSTANCE DoubleRatchet

queueVars == <<queueNow, pending_blobs, blind_counter, timers, ended>>
ratchetVars == <<session, ratchet, network, read, dropped>>
partVars == <<part, vars, queueVars, ratchetVars>>

(* A part that does not run is left in one of its initial states.            *)
Resting ==
  /\ part # "signed" => stamp = [k \in Keys |-> 0]
  /\ part # "ratchet" => session = "roles"

PartInit ==
  /\ part \in {"signed", "queue", "ratchet"}
  /\ Init /\ Queue!Init /\ Ratchet!Init
  /\ Resting

PartNext ==
  /\ UNCHANGED part
  /\ \/ /\ part = "signed" /\ Next
        /\ UNCHANGED <<queueVars, ratchetVars>>
     \/ /\ part = "queue" /\ Queue!Next
        /\ UNCHANGED <<vars, ratchetVars>>
     \/ /\ part = "ratchet" /\ Ratchet!Next
        /\ UNCHANGED <<vars, queueVars>>

PartSpec == PartInit /\ [][PartNext]_partVars

-----------------------------------------------------------------------------
(* The invariants of a part hold with its type invariant while it runs.      *)

(* No blob is forgotten, overstays or leaves the queue twice.                *)
EmptiesOnce == part = "queue" => Queue!TypeOK /\ Queue!EmptiesOnce

(* The roots stay in step, nothing is read twice, new chains open.           *)
SessionSound == part = "ratchet" => Ratchet!TypeOK /\ Ratchet!SessionSound

Perms == Permutations(Handlers) \cup Permutations(Tokens) \cup Permutations(Users)
==============================================================================
