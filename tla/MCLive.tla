------------------------------- MODULE MCLive --------------------------------
(* What must happen in the end, side by side: the connections of the server, *)
(* the preparation of the WASM module, the outbox, the connection of the     *)
(* client. A behaviour chooses one of them and only that one runs; the fair  *)
(* actions of the others stay disabled. Two connections of one user, a fan-  *)
(* out in flight and room for two connections; two callers of the bridge;    *)
(* one account with two messages and one run of flushOutbox; one account on  *)
(* one page. A message and its receipts in a direct chat are checked here as *)
(* well.                                                                     *)
EXTENDS WsGateway, TLC

CONSTANTS s1, s2, s3, s4, u1, User, Callers, Msgs, Loops, MaxEntries, Managers, Slots, MaxKeys, MaxTexts, None

(* null is no state, no answer and nobody; a text can be numbered.           *)
ASSUME NoneAssumption ==
  /\ None \notin {"fetch", "hash", "load", "selftest", "genuine", "executed"}
  /\ None # User /\ None \notin 1..MaxTexts
ASSUME TextsAssumption == MaxTexts \in Nat \ {0}

VARIABLES
  part,   \* the part that runs
  ready, mode, initPromise, bytes, waiting, loaded, outcome,
  sendUser, sendPhase, owner, outbox, history, box, hist, puts, early, send, loop,
  claimed, sendAccepted, cut, known, entries,
  syncUser, syncOpen, sid, sync, token, disk, mem, server, pending, boot,
  poll, socket, calls, keys, told, forgot,
  crossed,
  eph, talkPhase, last, own, talkStatus, deliveredBy, readBy, viewedBy, text,
  copy, chosen, talkOpen, shown, net, disturbed

Wasm == INSTANCE WasmBridge
Outbox == INSTANCE ClientOutbox WITH
  Users <- {User}, user <- sendUser, phase <- sendPhase,
  accepted <- sendAccepted
Sync == INSTANCE SyncTransport WITH
  Users <- {User}, user <- syncUser, open <- syncOpen
Talk == INSTANCE Conversation WITH
  Others <- {User}, phase <- talkPhase, status <- talkStatus,
  open <- talkOpen

wasmVars == <<ready, mode, initPromise, bytes, waiting, loaded, outcome>>
sendVars == <<sendUser, sendPhase, owner, outbox, history, box, hist, puts,
    early, send, loop, claimed, sendAccepted, cut, known, entries>>
syncVars == <<syncUser, syncOpen, sid, sync, token, disk, mem, server,
    pending, boot, poll, socket, calls, keys, told, forgot, crossed>>
talkVars == <<eph, talkPhase, last, own, talkStatus, deliveredBy, readBy,
    viewedBy, text, copy, chosen, talkOpen, shown, net, disturbed>>
clientVars == <<wasmVars, sendVars, syncVars, talkVars>>
partVars == <<part, vars, clientVars>>

(* A part that does not run is left in one of its initial states.            *)
Resting ==
  /\ part # "talk" => ~eph /\ ~chosen[User]
  /\ part # "sync" => disk[User] = 0

PartInit ==
  /\ part \in {"gateway", "wasm", "send", "sync", "talk"}
  /\ Init /\ Wasm!Init /\ Outbox!Init /\ Sync!Init /\ Talk!Init
  /\ Resting

PartNext ==
  /\ UNCHANGED part
  /\ \/ /\ part = "gateway" /\ Next
        /\ UNCHANGED clientVars
     \/ /\ part = "wasm" /\ Wasm!Next
        /\ UNCHANGED <<vars, sendVars, syncVars, talkVars>>
     \/ /\ part = "send" /\ Outbox!Next
        /\ UNCHANGED <<vars, wasmVars, syncVars, talkVars>>
     \/ /\ part = "sync" /\ Sync!Next
        /\ UNCHANGED <<vars, wasmVars, sendVars, talkVars>>
     \/ /\ part = "talk" /\ Talk!Next
        /\ UNCHANGED <<vars, wasmVars, sendVars, syncVars>>

PartSpec ==
  /\ PartInit /\ [][PartNext]_partVars
  /\ Fairness /\ Wasm!Fairness /\ Outbox!Fairness /\ Sync!Fairness

-----------------------------------------------------------------------------
(* The invariants of a part hold with its type invariant while it runs.      *)

(* Nothing is computed by a module that was not checked.                     *)
OnlyVerified == part = "wasm" => Wasm!TypeOK /\ Wasm!OnlyVerified

(* At rest both ends of a direct chat agree, and read means chosen.          *)
BothSidesAgree == part = "talk" => Talk!TypeOK /\ Talk!BothSidesAgree

(* The ticks of a message never go back.                                     *)
TicksOnlyRise == Talk!TicksOnlyRise

(* Whoever awaits init gets an answer.                                       *)
InitAnswers == Wasm!InitAnswers

(* What waits in the outbox leaves it.                                       *)
OutboxDrains == Outbox!OutboxDrains

(* Blobs that wait are fetched, or the user is told.                         *)
SyncRecovers == Sync!SyncRecovers

(* Two connections of one user; or four, and room for two.                  *)
OwnerDef == s1 :> u1 @@ s2 :> u1
OneUser == OwnerDef @@ s3 :> u1 @@ s4 :> u1
==============================================================================
