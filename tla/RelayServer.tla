----------------------------- MODULE RelayServer -----------------------------
(* The relay as a whole: POST /api/relay and the "relay_request" of the      *)
(* WebSocket (api.py), running concurrently over the replay registry, the    *)
(* real-time link to the receiver and the queue of BlindRelay, with clients  *)
(* that retry and a server that restarts. The registry is seen as the nonce  *)
(* of each blob (its retention, 24 h, is longer than the behaviours modelled *)
(* here); a link stands for all the sockets of a receiver (WsGateway).       *)
EXTENDS RelayModel, FiniteSets, Functions

CONSTANTS
  To,         \* blob -> its receiver
  Handlers,   \* requests the server processes at the same time
  Vias,       \* the ways blobs are submitted: "http", "ws"
  Durable     \* the registry survives a restart (HERMES_REPLAY_BACKEND=sql)

ASSUME ToAssumption == To \in [Blobs -> Users]
ASSUME ViasAssumption == Vias \subseteq {"http", "ws"}
ASSUME DurableAssumption == Durable \in BOOLEAN

VARIABLES
  now, pending_blobs, blind_counter, timers, ended,   \* the queue
  nonce,      \* registry entry of each blob in HERMES-REPLAY-RELAY-V1
  link,       \* receiver -> "none", "alive", or "gone" (dead, not yet noticed)
  handler,    \* what each request handler is doing
  outbox,     \* sender's view of each blob
  accepted,   \* history: blobs that were queued or handed to a socket
  received    \* history: copies of each blob that reached the receiver

queueVars == <<now, pending_blobs, blind_counter, timers, ended>>
serverVars == <<nonce, link, handler>>
vars == <<queueVars, serverVars, outbox, accepted, received>>

Queue == INSTANCE BlindRelay

Idle == [pc |-> "idle"]

Init ==
  /\ Queue!Init
  /\ nonce = [b \in Blobs |-> "missing"]
  /\ link = [u \in Users |-> "none"]
  /\ handler = [h \in Handlers |-> Idle]
  /\ outbox = [b \in Blobs |-> "unsent"]
  /\ accepted = {}
  /\ received = [b \in Blobs |-> 0]

At(h, pc) == handler[h].pc = pc
Goto(h, pc) == handler' = [handler EXCEPT ![h].pc = pc]
Finish(h) == handler' = [handler EXCEPT ![h] = Idle]

(* The two paths differ in when they commit: /api/relay before the blob goes *)
(* anywhere, the WebSocket loop after send_blob.                             *)
AfterClaim(via) == IF via = "http" THEN "commit" ELSE "send"
AfterSend(via, sent) ==
  IF via = "ws" THEN IF sent THEN "commit sent" ELSE "commit"
  ELSE IF sent THEN "answer" ELSE "enqueue"
AfterCommit(via) == IF via = "http" THEN "send" ELSE "enqueue"

-----------------------------------------------------------------------------
(* The sender submits a blob, for the first time or again: it keeps it until *)
(* it is told of a success (flushOutbox). Session, rate limit and sender     *)
(* checks have passed; a request that fails one changes nothing.             *)
Submit(h, b, via) ==
  /\ handler[h] = Idle
  /\ outbox[b] # "acked"
  /\ outbox' = [outbox EXCEPT ![b] = "waiting"]
  /\ handler' = [handler EXCEPT ![h] = [pc |-> "claim", blob |-> b, via |-> via]]
  /\ UNCHANGED <<queueVars, nonce, link, accepted, received>>

(* Mutant: only a consumed nonce is a duplicate, a pending one is granted    *)
(* again.                                                                    *)
ClaimPending(h) ==
  /\ At(h, "claim")
  /\ nonce[handler[h].blob] # "consumed"
  /\ nonce' = [nonce EXCEPT ![handler[h].blob] = "pending"]
  /\ Goto(h, AfterClaim(handler[h].via))
  /\ UNCHANGED <<queueVars, link, outbox, accepted, received>>

(* claim_relay_nonce, with the whole blob as the key.                        *)
Claim(h) ==
  /\ At(h, "claim")
  /\ nonce[handler[h].blob] = "missing"
  /\ nonce' = [nonce EXCEPT ![handler[h].blob] = "pending"]
  /\ Goto(h, AfterClaim(handler[h].via))
  /\ UNCHANGED <<queueVars, link, outbox, accepted, received>>

(* 400 "Replay attack detected" over HTTP; silence over the WebSocket.       *)
Duplicate(h) ==
  /\ At(h, "claim")
  /\ nonce[handler[h].blob] # "missing"
  /\ Finish(h)
  /\ UNCHANGED <<queueVars, nonce, link, outbox, accepted, received>>

(* commit_relay_nonce. Outside production a failing store is only logged and *)
(* the request goes on with its claim pending.                               *)
Commit(h) ==
  /\ handler[h].pc \in {"commit", "commit sent"}
  /\ \E outcome \in {"consumed", "pending"} :
       nonce' = [nonce EXCEPT ![handler[h].blob] =
                   IF outcome = "consumed" THEN outcome ELSE @]
  /\ IF At(h, "commit sent")
     THEN Finish(h)   \* a WebSocket relay delivered in real time is not acknowledged
     ELSE Goto(h, AfterCommit(handler[h].via))
  /\ UNCHANGED <<queueVars, link, outbox, accepted, received>>

(* The registry's store fails in a claim: 500, or the WebSocket is closed.   *)
(* The row may have been inserted all the same.                              *)
ClaimFails(h) ==
  /\ At(h, "claim")
  /\ LET b == handler[h].blob IN
     \/ nonce[b] = "missing" /\ nonce' = [nonce EXCEPT ![b] = "pending"]
     \/ UNCHANGED nonce
  /\ Finish(h)
  /\ UNCHANGED <<queueVars, link, outbox, accepted, received>>

(* Mutant: a failed commit hands the claim back.                             *)
CommitFailureReleases(h) ==
  /\ handler[h].pc \in {"commit", "commit sent"}
  /\ nonce' = [nonce EXCEPT ![handler[h].blob] = "missing"]
  /\ Finish(h)
  /\ UNCHANGED <<queueVars, link, outbox, accepted, received>>

(* It fails in a commit (production): the claim stays pending.               *)
CommitFails(h) ==
  /\ handler[h].pc \in {"commit", "commit sent"}
  /\ Finish(h)
  /\ UNCHANGED <<queueVars, nonce, link, outbox, accepted, received>>

(* send_blob copies the receiver's sockets: with none it returns at once.    *)
SendStart(h) ==
  /\ At(h, "send")
  /\ IF link[To[handler[h].blob]] = "none"
     THEN Goto(h, AfterSend(handler[h].via, FALSE))
     ELSE Goto(h, "sending")
  /\ UNCHANGED <<queueVars, nonce, link, outbox, accepted, received>>

(* The send completes and the blob reaches the receiver...                   *)
SendArrives(h) ==
  /\ At(h, "sending")
  /\ LET b == handler[h].blob IN
     /\ link[To[b]] = "alive"
     /\ received' = [received EXCEPT ![b] = @ + 1]
     /\ accepted' = accepted \cup {b}
  /\ Goto(h, AfterSend(handler[h].via, TRUE))
  /\ UNCHANGED <<queueVars, nonce, link, outbox>>

(* ... or goes into a connection whose peer is gone...                       *)
SendSwallowed(h) ==
  /\ At(h, "sending")
  /\ link[To[handler[h].blob]] # "alive"
  /\ accepted' = accepted \cup {handler[h].blob}
  /\ Goto(h, AfterSend(handler[h].via, TRUE))
  /\ UNCHANGED <<queueVars, nonce, link, outbox, received>>

(* ... or raises: the dead sockets are dropped.                              *)
SendRaises(h) ==
  /\ At(h, "sending")
  /\ LET u == To[handler[h].blob] IN
     /\ link[u] # "alive"
     /\ link' = [link EXCEPT ![u] = "none"]
  /\ Goto(h, AfterSend(handler[h].via, FALSE))
  /\ UNCHANGED <<queueVars, nonce, outbox, accepted, received>>

(* blind_relay.relay_blob.                                                   *)
Enqueue(h) ==
  /\ At(h, "enqueue")
  /\ \E ttl \in Ttls : Queue!Relay(handler[h].blob, To[handler[h].blob], ttl)
  /\ accepted' = accepted \cup {handler[h].blob}
  /\ Goto(h, "answer")
  /\ UNCHANGED <<nonce, link, outbox, received>>

(* 200 or "ack", which may be lost on the way.                               *)
Answer(h, arrives) ==
  /\ At(h, "answer")
  /\ outbox' = IF arrives THEN [outbox EXCEPT ![handler[h].blob] = "acked"] ELSE outbox
  /\ Finish(h)
  /\ UNCHANGED <<queueVars, nonce, link, accepted, received>>

-----------------------------------------------------------------------------
(* POST /api/fetch: the blobs leave the queue, the response may be lost.     *)
Fetch(u, arrives) ==
  /\ LET copies(b) == Cardinality({i \in Queue!Fetched(u) : pending_blobs[i].blob = b})
     IN received' = IF arrives THEN [b \in Blobs |-> received[b] + copies(b)] ELSE received
  /\ Queue!Fetch(u)
  /\ UNCHANGED <<serverVars, outbox, accepted>>

Clear(u) == Queue!Clear(u) /\ UNCHANGED <<serverVars, outbox, accepted, received>>

Expire ==
  /\ \E t \in timers : Queue!Expire(t)
  /\ UNCHANGED <<serverVars, outbox, accepted, received>>

LinkUp(u) ==
  /\ link[u] = "none"
  /\ link' = [link EXCEPT ![u] = "alive"]
  /\ UNCHANGED <<queueVars, nonce, handler, outbox, accepted, received>>

LinkDies(u) ==
  /\ link[u] = "alive"
  /\ link' = [link EXCEPT ![u] = "gone"]
  /\ UNCHANGED <<queueVars, nonce, handler, outbox, accepted, received>>

LinkDown(u) ==
  /\ link[u] # "none"
  /\ link' = [link EXCEPT ![u] = "none"]
  /\ UNCHANGED <<queueVars, nonce, handler, outbox, accepted, received>>

Restart ==
  /\ Queue!Restart
  /\ nonce' = IF Durable THEN nonce ELSE [b \in Blobs |-> "missing"]
  /\ link' = [u \in Users |-> "none"]
  /\ handler' = [h \in Handlers |-> Idle]
  /\ UNCHANGED <<outbox, accepted, received>>

Tick == Queue!Tick /\ UNCHANGED <<serverVars, outbox, accepted, received>>

Next ==
  \/ \E h \in Handlers :
       \/ \E b \in Blobs, via \in Vias : Submit(h, b, via)
       \/ Claim(h) \/ ClaimFails(h) \/ Duplicate(h)
       \/ Commit(h) \/ CommitFails(h)
       \/ SendStart(h) \/ SendArrives(h) \/ SendSwallowed(h) \/ SendRaises(h)
       \/ Enqueue(h)
       \/ \E arrives \in BOOLEAN : Answer(h, arrives)
  \/ \E u \in Users :
       \/ \E arrives \in BOOLEAN : Fetch(u, arrives)
       \/ Clear(u) \/ LinkUp(u) \/ LinkDies(u) \/ LinkDown(u)
  \/ Expire
  \/ Restart
  \/ Tick

Spec == Init /\ [][Next]_vars

-----------------------------------------------------------------------------
TypeOK ==
  /\ Queue!TypeOK
  /\ nonce \in [Blobs -> {"missing", "pending", "consumed"}]
  /\ link \in [Users -> {"none", "alive", "gone"}]
  /\ handler \in [Handlers ->
       {Idle} \cup [pc : {"claim", "commit", "commit sent", "send", "sending",
                          "enqueue", "answer"},
                    blob : Blobs, via : Vias]]
  /\ outbox \in [Blobs -> {"unsent", "waiting", "acked"}]
  /\ accepted \subseteq Blobs
  /\ received \in [Blobs -> Nat]

(* Handlers that still have to pass the blob on.                             *)
Carrying(b) ==
  {h \in Handlers : /\ handler[h] # Idle /\ handler[h].blob = b
                    /\ handler[h].pc \in {"commit", "send", "sending", "enqueue"}}
Queued(b) == {i \in DOMAIN pending_blobs : pending_blobs[i].blob = b}

(* However often and over whichever path a blob is submitted, and wherever   *)
(* the server restarts, there is one copy of it: in a handler, in the queue  *)
(* or with the receiver.                                                     *)
OneCopy ==
  \A b \in Blobs : Cardinality(Carrying(b)) + Cardinality(Queued(b)) + received[b] <= 1

(* A sender drops a blob from its outbox only after the server has queued it *)
(* or handed it to a socket.                                                 *)
AckedIsAccepted == \A b \in Blobs : outbox[b] = "acked" => b \in accepted

(* How far a blob has come, as the channel sees it: a nonce that is taken    *)
(* while nobody carries the blob means it is lost, for no copy is accepted.  *)
Stage(b) ==
  IF received[b] > 0 THEN "delivered"
  ELSE IF Carrying(b) # {} \/ Queued(b) # {} THEN "inside"
  ELSE IF nonce[b] # "missing" THEN "lost"
  ELSE "unsent"

Channel == INSTANCE RelayChannel WITH stage <- [b \in Blobs |-> Stage(b)]

(* The server implements the at-most-once channel: no crash, race between    *)
(* the two paths, failing store or retry brings a blob back that has been    *)
(* delivered or lost.                                                        *)
ChannelSpec == Channel!Spec

(* Retries bring no second copy, and who is told of success was heard.       *)
DeliveryHonest == TypeOK /\ OneCopy /\ AckedIsAccepted
=============================================================================
