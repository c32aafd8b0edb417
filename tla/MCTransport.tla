----------------------------- MODULE MCTransport -----------------------------
(* The way of a message, side by side: the endpoints of the server, the      *)
(* outbox of the client, and the ratchet states it keeps. A behaviour chooses*)
(* one of them and only that one runs. Endpoints: two blobs for one receiver,*)
(* two requests in progress over HTTP and WebSocket in any mix, a queue that *)
(* takes two blobs between restarts. Outbox: two accounts, two messages,     *)
(* three logins, two runs of flushOutbox at the same time (one after the     *)
(* third login). Ratchet states: two calls in progress, until a session was  *)
(* put over a live one.                                                      *)
EXTENDS RelayServer, Sequences, TLC

CONSTANTS b1, b2, u1, Accounts, MaxEntries, MaxSent, Numbers, None

(* null is no state and no kind of payload.                                  *)
ASSUME StatesAssumption ==
  /\ MaxSent \in Nat
  /\ None \notin [sent : 0..MaxSent, got : SUBSET Numbers] \cup {"accept", "key"}

(* The user nobody is, and who awaits nothing, is none of those there are; a  *)
(* message is no run of flushOutbox.                                          *)
ASSUME OutboxAssumption ==
  /\ None \notin Accounts \cup Blobs \cup Handlers
  /\ Blobs \cap Handlers = {}

VARIABLES
  part,   \* the part that runs
  sendUser, phase, owner, sendOutbox, history, box, hist, puts, early, send, loop,
  claimed, sendAccepted, cut, known, entries,
  cached, session, statesDisk, idb, shared, unlocked, statesCalls, posted,
  envelope, shown, spoiled

Outbox == INSTANCE ClientOutbox WITH
  Users <- Accounts, Msgs <- Blobs, Loops <- Handlers, user <- sendUser,
  outbox <- sendOutbox, accepted <- sendAccepted
States == INSTANCE ClientRatchet WITH
  Calls <- Handlers, disk <- statesDisk, calls <- statesCalls

sendVars == <<sendUser, phase, owner, sendOutbox, history, box, hist, puts,
    early, send, loop, claimed, sendAccepted, cut, known, entries>>
statesVars == <<cached, session, statesDisk, idb, shared, unlocked,
    statesCalls, posted, envelope, shown, spoiled>>
partVars == <<part, vars, sendVars, statesVars>>

PartInit ==
  /\ part \in {"relay", "send", "states"}
  /\ Init /\ Outbox!Init /\ States!Init

PartNext ==
  /\ UNCHANGED part
  /\ \/ /\ part = "relay" /\ Next
        /\ UNCHANGED <<sendVars, statesVars>>
     \/ /\ part = "send" /\ Outbox!Next
        /\ UNCHANGED <<vars, statesVars>>
     \/ /\ part = "states" /\ States!Next
        /\ UNCHANGED <<vars, sendVars>>

PartSpec == PartInit /\ [][PartNext]_partVars

-----------------------------------------------------------------------------
(* The invariants of a part hold with its type invariant while it runs.      *)

(* The history, the outbox and the relay agree on what is sent.              *)
NothingForgotten == part = "send" => Outbox!TypeOK /\ Outbox!NothingForgotten

(* A ratchet state is on disk before anything made with it is out.           *)
StateBeforeUse == part = "states" => States!TypeOK /\ States!StateBeforeUse

(* After a session was put over a live one nothing is left to say; IndexedDB *)
(* has at most one write to do when the next one is asked for, and after the *)
(* last login one run of flushOutbox is enough.                              *)
Bounds ==
  /\ part = "states" => ~spoiled
  /\ part = "send" => Len(puts) <= 1
  /\ entries = MaxEntries =>
       \A h, g \in Handlers : loop[h].pc # "idle" /\ loop[g].pc # "idle" => h = g

ToDef == b1 :> u1 @@ b2 :> u1

Perms ==
  Permutations(Handlers) \cup Permutations(Blobs) \cup Permutations(Accounts)
==============================================================================
