--------------------------- MODULE MCTransportProofs ---------------------------
(* What holds of the way of a message for all constants: the relay, the      *)
(* ratchet states and the outbox of the client. The relay with a durable     *)
(* registry delivers a blob at most once, for any blobs, receivers, handlers *)
(* and bounds, and implements the at-most-once channel of RelayChannel (with *)
(* a registry in memory a restart forgets the nonces, and neither holds).    *)
(* The client has a ratchet state on disk before anything made with it is    *)
(* posted or shown, for any calls in progress and any numbers; and it forgets*)
(* no message, for any accounts, messages and overlapping runs of            *)
(* flushOutbox.                                                              *)
EXTENDS MCTransport, FiniteSetTheorems, SequenceTheorems, WellFoundedInduction,
        NaturalsInduction, TLAPS

-----------------------------------------------------------------------------
(* The relay.                                                                 *)

Requests == [pc : {"claim", "commit", "commit sent", "send", "sending",
                   "enqueue", "answer"},
             blob : Blobs, via : Vias]

(* A blob whose nonce is free is nowhere in the server, nor delivered.       *)
FreshIsNowhere ==
  \A b \in Blobs : nonce[b] = "missing" =>
    Carrying(b) = {} /\ Queued(b) = {} /\ received[b] = 0

(* One copy, place by place.                                                 *)
OneCarrier == \A b \in Blobs : \A g, h \in Carrying(b) : g = h
OneEntry == \A b \in Blobs : \A i, j \in Queued(b) : i = j
OnePlace ==
  \A b \in Blobs :
    /\ Carrying(b) # {} => Queued(b) = {} /\ received[b] = 0
    /\ Queued(b) # {} => received[b] = 0
    /\ received[b] <= 1

(* Who answers a request has passed its blob on.                             *)
AnswerIsTrue ==
  \A h \in Handlers : handler[h] # Idle /\ At(h, "answer") => handler[h].blob \in accepted

CopyInv == FreshIsNowhere /\ OneCarrier /\ OneEntry /\ OnePlace

IInv == TypeOK /\ CopyInv /\ AnswerIsTrue /\ AckedIsAccepted

-----------------------------------------------------------------------------
(* The queue's own type invariant.                                           *)
LEMMA QueueRestrict ==
  ASSUME NEW S
  PROVE  /\ DOMAIN Queue!Restrict(pending_blobs, S) = S
         /\ \A i \in S : Queue!Restrict(pending_blobs, S)[i] = pending_blobs[i]
  BY DEF Queue!Restrict

LEMMA QueueDestroy ==
  ASSUME NEW how, Queue!Destroy(how)
  PROVE  /\ DOMAIN pending_blobs' = DOMAIN pending_blobs \ DOMAIN how
         /\ \A i \in DOMAIN pending_blobs' : pending_blobs'[i] = pending_blobs[i]
         /\ ended' = ended \cup {[id |-> i, how |-> how[i]] :
                                  i \in DOMAIN how \cap DOMAIN pending_blobs}
<1>1. Queue!Pending \ (DOMAIN how \cap Queue!Pending) = DOMAIN pending_blobs \ DOMAIN how
  BY DEF Queue!Pending
<1> QED
  BY <1>1, QueueRestrict DEF Queue!Destroy, Queue!Pending

LEMMA QueueDestroyType ==
  ASSUME Queue!TypeOK, NEW how, Queue!Destroy(how),
         \A i \in DOMAIN how : how[i] \in Queue!Reasons
  PROVE  /\ DOMAIN pending_blobs' \subseteq Queue!Ids
         /\ \A i \in DOMAIN pending_blobs' : pending_blobs'[i] \in Queue!Entries
         /\ ended' \subseteq [id : Queue!Ids, how : Queue!Reasons]
<1> USE DEF Queue!TypeOK, Queue!Pending
<1>1. \A i \in DOMAIN how \cap DOMAIN pending_blobs :
        [id |-> i, how |-> how[i]] \in [id : Queue!Ids, how : Queue!Reasons]
  OBVIOUS
<1>2. ended' \subseteq [id : Queue!Ids, how : Queue!Reasons]
  <2> SUFFICES ASSUME NEW x \in ended', x \notin ended
               PROVE  x \in [id : Queue!Ids, how : Queue!Reasons]
    OBVIOUS
  <2>1. PICK i \in DOMAIN how \cap DOMAIN pending_blobs : x = [id |-> i, how |-> how[i]]
    <3>1. ended' = ended \cup {[id |-> i, how |-> how[i]] :
                                i \in DOMAIN how \cap DOMAIN pending_blobs}
      BY QueueDestroy
    <3> QED
      BY <3>1
  <2> QED
    BY <1>1, <2>1
<1> QED
  BY <1>2, QueueDestroy

LEMMA QueueRelay ==
  ASSUME Queue!TypeOK, NEW b \in Blobs, NEW u \in Users, NEW ttl \in Ttls,
         Queue!Relay(b, u, ttl)
  PROVE  /\ Queue!TypeOK'
         /\ DOMAIN pending_blobs' = DOMAIN pending_blobs \cup {Queue!BlobId}
         /\ pending_blobs'[Queue!BlobId].blob = b
         /\ \A i \in DOMAIN pending_blobs : i # Queue!BlobId =>
              pending_blobs'[i] = pending_blobs[i]
<1> USE TtlsAssumption, BoundsAssumption DEF Queue!TypeOK, Queue!Pending
<1> DEFINE e == [blob |-> b, receiver |-> u, expires_at |-> now + ttl]
<1>1. Queue!BlobId \in Queue!Ids
  BY DEF Queue!Relay, Queue!BlobId, Queue!Ids
<1>2. e \in Queue!Entries
  BY DEF Queue!Entries
<1>3. [id |-> Queue!BlobId, due |-> now + ttl] \in [id : Queue!Ids, due : Nat]
  BY <1>1
<1>4. /\ pending_blobs' = [i \in DOMAIN pending_blobs \cup {Queue!BlobId} |->
                             IF i = Queue!BlobId THEN e ELSE pending_blobs[i]]
      /\ timers' = timers \cup {[id |-> Queue!BlobId, due |-> now + ttl]}
      /\ blind_counter' = blind_counter + 1 /\ blind_counter < MaxCount
      /\ now' = now /\ ended' = ended
  BY DEF Queue!Relay
<1>5. e.blob = b
  OBVIOUS
<1> HIDE DEF e
<1>6. blind_counter' \in 0..MaxCount
  BY <1>4
<1>7. timers' \subseteq [id : Queue!Ids, due : Nat]
  BY <1>3, <1>4
<1>8. /\ DOMAIN pending_blobs' \subseteq Queue!Ids
      /\ \A i \in DOMAIN pending_blobs' : pending_blobs'[i] \in Queue!Entries
  BY <1>1, <1>2, <1>4
<1> QED
  BY <1>4, <1>5, <1>6, <1>7, <1>8

(* What the other operations of the queue do to it: nothing is added.        *)
LEMMA QueueShrinks ==
  ASSUME Queue!TypeOK,
         \/ \E u \in Users : Queue!Fetch(u) \/ Queue!Clear(u)
         \/ \E t \in timers : Queue!Expire(t)
         \/ Queue!Restart \/ Queue!Tick
  PROVE  /\ Queue!TypeOK'
         /\ DOMAIN pending_blobs' \subseteq DOMAIN pending_blobs
         /\ \A i \in DOMAIN pending_blobs' : pending_blobs'[i] = pending_blobs[i]
<1> USE BoundsAssumption
<1>1. ASSUME NEW u \in Users, Queue!Fetch(u)
      PROVE  /\ Queue!TypeOK'
             /\ DOMAIN pending_blobs' \subseteq DOMAIN pending_blobs
             /\ \A i \in DOMAIN pending_blobs' : pending_blobs'[i] = pending_blobs[i]
  <2> DEFINE how == [i \in Queue!QueueOf(u) |->
                       IF i \in Queue!Fetched(u) THEN "handed" ELSE "expired"]
  <2>1. Queue!Destroy(how) /\ UNCHANGED <<now, blind_counter, timers>>
    BY <1>1 DEF Queue!Fetch
  <2>2. \A i \in DOMAIN how : how[i] \in Queue!Reasons
    BY DEF Queue!Reasons
  <2> HIDE DEF how
  <2> QED
    BY <2>1, <2>2, QueueDestroy, QueueDestroyType DEF Queue!TypeOK, Queue!Pending
<1>2. ASSUME NEW u \in Users, Queue!Clear(u)
      PROVE  /\ Queue!TypeOK'
             /\ DOMAIN pending_blobs' \subseteq DOMAIN pending_blobs
             /\ \A i \in DOMAIN pending_blobs' : pending_blobs'[i] = pending_blobs[i]
  <2> DEFINE how == [i \in Queue!QueueOf(u) |-> "cleared"]
  <2>1. Queue!Destroy(how) /\ UNCHANGED <<now, blind_counter, timers>>
    BY <1>2 DEF Queue!Clear
  <2>2. \A i \in DOMAIN how : how[i] \in Queue!Reasons
    BY DEF Queue!Reasons
  <2> HIDE DEF how
  <2> QED
    BY <2>1, <2>2, QueueDestroy, QueueDestroyType DEF Queue!TypeOK, Queue!Pending
<1>3. ASSUME NEW t \in timers, Queue!Expire(t)
      PROVE  /\ Queue!TypeOK'
             /\ DOMAIN pending_blobs' \subseteq DOMAIN pending_blobs
             /\ \A i \in DOMAIN pending_blobs' : pending_blobs'[i] = pending_blobs[i]
  <2> DEFINE how == [i \in {t.id} |-> "expired"]
  <2>1. Queue!Destroy(how) /\ UNCHANGED <<now, blind_counter>> /\ timers' = timers \ {t}
    BY <1>3 DEF Queue!Expire
  <2>2. \A i \in DOMAIN how : how[i] \in Queue!Reasons
    BY DEF Queue!Reasons
  <2> HIDE DEF how
  <2> QED
    BY <2>1, <2>2, QueueDestroy, QueueDestroyType DEF Queue!TypeOK, Queue!Pending
<1>4. CASE Queue!Restart
  BY <1>4 DEF Queue!Restart, Queue!TypeOK, Queue!Pending
<1>5. CASE Queue!Tick
  BY <1>5 DEF Queue!Tick, Queue!TypeOK, Queue!Pending
<1> QED
  BY <1>1, <1>2, <1>3, <1>4, <1>5

-----------------------------------------------------------------------------
(* What a handler does to the places of a blob when it goes on or ends.      *)
CarryPcs == {"commit", "send", "sending", "enqueue"}
Pcs == CarryPcs \cup {"claim", "commit sent", "answer"}

LEMMA AtRequest ==
  ASSUME TypeOK, NEW h \in Handlers, handler[h].pc \in Pcs
  PROVE  handler[h] \in Requests /\ handler[h] # Idle /\ handler[h].blob \in Blobs
         /\ handler[h].via \in Vias
<1>1. handler[h] \in {Idle} \cup Requests
  BY DEF TypeOK, Requests
<1>2. handler[h] # Idle
  <2>1. Idle.pc = "idle" /\ "idle" \notin Pcs
    BY DEF Idle, Pcs, CarryPcs
  <2> QED
    BY <2>1
<1> QED
  BY <1>1, <1>2 DEF Requests

LEMMA Becomes ==
  ASSUME TypeOK, NEW h \in Handlers, NEW x \in Requests \cup {Idle},
         handler' = [handler EXCEPT ![h] = x]
  PROVE  /\ handler' \in [Handlers -> {Idle} \cup Requests]
         /\ \A b \in Blobs : Carrying(b)' =
              IF x # Idle /\ x.blob = b /\ x.pc \in CarryPcs
              THEN Carrying(b) \cup {h} ELSE Carrying(b) \ {h}
  BY DEF TypeOK, Carrying, CarryPcs, Requests

LEMMA Moves ==
  ASSUME TypeOK, NEW h \in Handlers, handler[h].pc \in Pcs, NEW pc \in Pcs, Goto(h, pc)
  PROVE  /\ handler' = [handler EXCEPT ![h] = handler'[h]]
         /\ handler'[h] \in Requests /\ handler'[h] # Idle
         /\ handler'[h].pc = pc /\ handler'[h].blob = handler[h].blob
         /\ handler' \in [Handlers -> {Idle} \cup Requests]
         /\ \A b \in Blobs : Carrying(b)' =
              IF handler[h].blob = b /\ pc \in CarryPcs
              THEN Carrying(b) \cup {h} ELSE Carrying(b) \ {h}
<1> DEFINE x == [handler[h] EXCEPT !.pc = pc]
<1>1. handler[h] \in Requests
  BY AtRequest
<1>2. x \in Requests /\ x # Idle /\ x.pc = pc /\ x.blob = handler[h].blob
  BY <1>1 DEF Requests, Idle, Pcs, CarryPcs
<1>3. handler' = [handler EXCEPT ![h] = x]
  BY DEF Goto
<1> HIDE DEF x
<1>4. handler'[h] = x
  BY <1>3 DEF TypeOK
<1> QED
  BY <1>2, <1>3, <1>4, Becomes

LEMMA Finishes ==
  ASSUME TypeOK, NEW h \in Handlers, Finish(h)
  PROVE  /\ handler' \in [Handlers -> {Idle} \cup Requests]
         /\ \A b \in Blobs : Carrying(b)' = Carrying(b) \ {h}
         /\ handler'[h] = Idle
         /\ \A g \in Handlers : g # h => handler'[g] = handler[g]
  BY Becomes DEF Finish, TypeOK

-----------------------------------------------------------------------------
(* Nothing multiplies where no place gains a blob and no nonce is freed.     *)
LEMMA NoGain ==
  ASSUME CopyInv, UNCHANGED received,
         \A b \in Blobs : Carrying(b)' \subseteq Carrying(b),
         \A b \in Blobs : Queued(b)' \subseteq Queued(b),
         \A b \in Blobs : nonce'[b] = "missing" => nonce[b] = "missing"
  PROVE  CopyInv'
<1> USE DEF CopyInv, FreshIsNowhere, OneCarrier, OneEntry, OnePlace
<1>1. FreshIsNowhere'
  <2> SUFFICES ASSUME NEW b \in Blobs, nonce'[b] = "missing"
               PROVE  Carrying(b)' = {} /\ Queued(b)' = {} /\ received'[b] = 0
    OBVIOUS
  <2>1. Carrying(b) = {} /\ Queued(b) = {} /\ received[b] = 0
    OBVIOUS
  <2> QED
    BY <2>1
<1>2. OneCarrier' /\ OneEntry' /\ OnePlace'
  OBVIOUS
<1> QED
  BY <1>1, <1>2

LEMMA QueueSame ==
  ASSUME UNCHANGED queueVars
  PROVE  /\ Queue!TypeOK <=> Queue!TypeOK'
         /\ \A b : Queued(b)' = Queued(b)
  BY DEF queueVars, Queue!TypeOK, Queue!Pending, Queued

LEMMA QueueLess ==
  ASSUME DOMAIN pending_blobs' \subseteq DOMAIN pending_blobs,
         \A i \in DOMAIN pending_blobs' : pending_blobs'[i] = pending_blobs[i]
  PROVE  \A b : Queued(b)' \subseteq Queued(b)
  BY DEF Queued

(* The steps of a request handler.                                           *)
LEMMA HandlerStep ==
  ASSUME IInv, NEW h \in Handlers,
         \/ \E b \in Blobs, via \in Vias : Submit(h, b, via)
         \/ Claim(h) \/ ClaimFails(h) \/ Duplicate(h)
         \/ Commit(h) \/ CommitFails(h)
         \/ SendStart(h) \/ SendArrives(h) \/ SendSwallowed(h) \/ SendRaises(h)
         \/ Enqueue(h)
         \/ \E arrives \in BOOLEAN : Answer(h, arrives)
  PROVE  IInv'
<1> USE ToAssumption, ViasAssumption
<1>t. TypeOK /\ CopyInv /\ AnswerIsTrue /\ AckedIsAccepted
  BY DEF IInv
<1>q. UNCHANGED queueVars => Queue!TypeOK' /\ \A b : Queued(b)' = Queued(b)
  BY <1>t, QueueSame DEF TypeOK
<1>r. \A f : f \in [Handlers -> {Idle} \cup Requests] <=> f \in [Handlers ->
       {Idle} \cup [pc : {"claim", "commit", "commit sent", "send", "sending",
                          "enqueue", "answer"},
                    blob : Blobs, via : Vias]]
  BY DEF Requests
<1>1. ASSUME NEW b \in Blobs, NEW via \in Vias, Submit(h, b, via)
      PROVE  IInv'
  <2> DEFINE x == [pc |-> "claim", blob |-> b, via |-> via]
  <2>1. x \in Requests /\ x # Idle /\ x.pc \notin CarryPcs /\ x.pc = "claim"
    BY DEF Requests, Idle, CarryPcs
  <2>2. handler' = [handler EXCEPT ![h] = x]
    BY <1>1 DEF Submit
  <2>3. /\ outbox' = [outbox EXCEPT ![b] = "waiting"]
        /\ UNCHANGED <<queueVars, nonce, link, accepted, received>>
    BY <1>1 DEF Submit
  <2> HIDE DEF x
  <2>4. handler' \in [Handlers -> {Idle} \cup Requests]
        /\ \A c \in Blobs : Carrying(c)' = Carrying(c) \ {h}
    BY <1>t, <2>1, <2>2, Becomes
  <2>5. CopyInv'
    BY <1>t, <1>q, <2>3, <2>4, NoGain
  <2>6. AnswerIsTrue' /\ AckedIsAccepted'
    BY <1>t, <2>1, <2>2, <2>3 DEF AnswerIsTrue, AckedIsAccepted, TypeOK, At
  <2>7. TypeOK'
    BY <1>t, <1>q, <1>r, <2>3, <2>4 DEF TypeOK
  <2> QED
    BY <2>5, <2>6, <2>7 DEF IInv
<1>2. CASE Claim(h)
  <2> DEFINE b == handler[h].blob
             pc == AfterClaim(handler[h].via)
  <2>1. handler[h].pc \in Pcs /\ pc \in CarryPcs /\ pc \in Pcs /\ pc # "answer"
    BY <1>2 DEF Claim, At, AfterClaim, Pcs, CarryPcs
  <2>2. b \in Blobs
    BY <1>t, <2>1, AtRequest
  <2>3. /\ nonce[b] = "missing" /\ nonce' = [nonce EXCEPT ![b] = "pending"]
        /\ Goto(h, pc) /\ UNCHANGED <<queueVars, link, outbox, accepted, received>>
    BY <1>2 DEF Claim
  <2> HIDE DEF pc
  <2>4. /\ handler' = [handler EXCEPT ![h] = handler'[h]]
        /\ handler'[h].pc = pc
        /\ handler' \in [Handlers -> {Idle} \cup Requests]
        /\ \A c \in Blobs : Carrying(c)' =
              IF c = b THEN Carrying(c) \cup {h} ELSE Carrying(c) \ {h}
    BY <1>t, <2>1, <2>3, Moves
  <2> HIDE DEF b
  <2>5. Carrying(b) = {} /\ Queued(b) = {} /\ received[b] = 0
    BY <1>t, <2>2, <2>3 DEF CopyInv, FreshIsNowhere
  <2>6. CopyInv'
    <3> SUFFICES ASSUME NEW c \in Blobs
                 PROVE  /\ nonce'[c] = "missing" =>
                              Carrying(c)' = {} /\ Queued(c)' = {} /\ received'[c] = 0
                        /\ \A f, g \in Carrying(c)' : f = g
                        /\ \A i, j \in Queued(c)' : i = j
                        /\ Carrying(c)' # {} => Queued(c)' = {} /\ received'[c] = 0
                        /\ Queued(c)' # {} => received'[c] = 0
                        /\ received'[c] <= 1
      BY DEF CopyInv, FreshIsNowhere, OneCarrier, OneEntry, OnePlace
    <3>1. Queued(c)' = Queued(c) /\ received' = received
      BY <1>q, <2>3
    <3>2. CASE c = b
      <4>1. Carrying(c)' = {h}
        BY <2>4, <2>5, <3>2
      <4>2. nonce'[c] # "missing"
        BY <1>t, <2>2, <2>3, <3>2 DEF TypeOK
      <4> QED
        BY <2>5, <3>1, <3>2, <4>1, <4>2
    <3>3. CASE c # b
      <4>1. Carrying(c)' \subseteq Carrying(c) /\ nonce'[c] = nonce[c]
        BY <1>t, <2>3, <2>4, <3>3 DEF TypeOK
      <4> QED
        BY <1>t, <3>1, <4>1 DEF CopyInv, FreshIsNowhere, OneCarrier, OneEntry, OnePlace
    <3> QED
      BY <3>2, <3>3
  <2>7. AnswerIsTrue' /\ AckedIsAccepted'
    BY <1>t, <2>1, <2>3, <2>4 DEF AnswerIsTrue, AckedIsAccepted, TypeOK, At
  <2>8. TypeOK'
    BY <1>t, <1>q, <1>r, <2>2, <2>3, <2>4 DEF TypeOK
  <2> QED
    BY <2>6, <2>7, <2>8 DEF IInv
<1>3. CASE ClaimFails(h) \/ Duplicate(h) \/ CommitFails(h)
  <2>1. /\ Finish(h) /\ UNCHANGED <<queueVars, link, outbox, accepted, received>>
        /\ \/ UNCHANGED nonce
           \/ \E b : nonce' = [nonce EXCEPT ![b] = "pending"]
    BY <1>3 DEF ClaimFails, Duplicate, CommitFails
  <2>2. /\ nonce' \in [Blobs -> {"missing", "pending", "consumed"}]
        /\ \A b \in Blobs : nonce'[b] = "missing" => nonce[b] = "missing"
    BY <1>t, <2>1 DEF TypeOK
  <2>3. CopyInv'
    BY <1>t, <1>q, <2>1, <2>2, NoGain, Finishes
  <2>4. AnswerIsTrue' /\ AckedIsAccepted'
    BY <1>t, <2>1, Finishes DEF AnswerIsTrue, AckedIsAccepted, At
  <2>5. TypeOK'
    BY <1>t, <1>q, <1>r, <2>1, <2>2, Finishes DEF TypeOK
  <2> QED
    BY <2>3, <2>4, <2>5 DEF IInv
<1>4. CASE Commit(h)
  <2> DEFINE b == handler[h].blob
             pc == AfterCommit(handler[h].via)
  <2>1. handler[h].pc \in Pcs /\ pc \in CarryPcs /\ pc \in Pcs /\ pc # "answer"
    BY <1>4 DEF Commit, AfterCommit, Pcs, CarryPcs
  <2>2. UNCHANGED <<queueVars, link, outbox, accepted, received>>
    BY <1>4 DEF Commit
  <2>3. /\ nonce' \in [Blobs -> {"missing", "pending", "consumed"}]
        /\ \A c \in Blobs : nonce'[c] = "missing" => nonce[c] = "missing"
    <3>1. PICK outcome \in {"consumed", "pending"} :
            nonce' = [nonce EXCEPT ![b] = IF outcome = "consumed" THEN outcome ELSE @]
      BY <1>4 DEF Commit
    <3> QED
      BY <1>t, <3>1 DEF TypeOK
  <2>4. CASE Finish(h)
    <3>1. CopyInv'
      BY <1>t, <1>q, <2>2, <2>3, <2>4, NoGain, Finishes
    <3>2. AnswerIsTrue' /\ AckedIsAccepted'
      BY <1>t, <2>2, <2>4, Finishes DEF AnswerIsTrue, AckedIsAccepted, At
    <3>3. TypeOK'
      BY <1>t, <1>q, <1>r, <2>2, <2>3, <2>4, Finishes DEF TypeOK
    <3> QED
      BY <3>1, <3>2, <3>3 DEF IInv
  <2>5. CASE Goto(h, pc) /\ handler[h].pc = "commit"
    <3> HIDE DEF pc
    <3>1. /\ handler' = [handler EXCEPT ![h] = handler'[h]]
          /\ handler'[h].pc = pc
          /\ handler' \in [Handlers -> {Idle} \cup Requests]
          /\ \A c \in Blobs : Carrying(c)' =
                IF c = b THEN Carrying(c) \cup {h} ELSE Carrying(c) \ {h}
      BY <1>t, <2>1, <2>5, Moves
    <3>2. h \in Carrying(b)
      BY <1>t, <2>1, <2>5, AtRequest DEF Carrying
    <3>3. CopyInv'
      BY <1>t, <1>q, <2>2, <2>3, <3>1, <3>2, NoGain
    <3>4. AnswerIsTrue' /\ AckedIsAccepted'
      BY <1>t, <2>1, <2>2, <3>1 DEF AnswerIsTrue, AckedIsAccepted, At, TypeOK
    <3>5. TypeOK'
      BY <1>t, <1>q, <1>r, <2>2, <2>3, <3>1 DEF TypeOK
    <3> QED
      BY <3>3, <3>4, <3>5 DEF IInv
  <2> QED
    BY <1>4, <2>4, <2>5 DEF Commit, At
<1>5. CASE SendStart(h) \/ SendRaises(h)
  <2>1. PICK pc \in {"sending", AfterSend(handler[h].via, FALSE)} : Goto(h, pc)
    BY <1>5 DEF SendStart, SendRaises
  <2>2. /\ handler[h].pc \in CarryPcs /\ handler[h].pc \in Pcs
        /\ pc \in CarryPcs /\ pc \in Pcs /\ pc # "answer"
    BY <1>5 DEF SendStart, SendRaises, AfterSend, At, Pcs, CarryPcs
  <2>3. handler[h].blob \in Blobs /\ h \in Carrying(handler[h].blob)
    BY <1>t, <2>2, AtRequest DEF Carrying, CarryPcs
  <2>4. /\ UNCHANGED <<queueVars, nonce, outbox, accepted, received>>
        /\ link' \in [Users -> {"none", "alive", "gone"}]
    BY <1>5, <1>t DEF SendStart, SendRaises, TypeOK
  <2>5. /\ handler' = [handler EXCEPT ![h] = handler'[h]]
        /\ handler'[h].pc = pc
        /\ handler' \in [Handlers -> {Idle} \cup Requests]
        /\ \A c \in Blobs : Carrying(c)' \subseteq Carrying(c)
    BY <1>t, <2>1, <2>2, <2>3, Moves
  <2>6. CopyInv'
    BY <1>t, <1>q, <2>4, <2>5, NoGain
  <2>7. AnswerIsTrue' /\ AckedIsAccepted'
    BY <1>t, <2>2, <2>4, <2>5 DEF AnswerIsTrue, AckedIsAccepted, At, TypeOK
  <2>8. TypeOK'
    BY <1>t, <1>q, <1>r, <2>4, <2>5 DEF TypeOK
  <2> QED
    BY <2>6, <2>7, <2>8 DEF IInv
<1>6. CASE SendArrives(h) \/ SendSwallowed(h)
  <2> DEFINE b == handler[h].blob
             pc == AfterSend(handler[h].via, TRUE)
  <2>1. /\ handler[h].pc \in CarryPcs /\ handler[h].pc \in Pcs
        /\ pc \in Pcs /\ pc \notin CarryPcs
    BY <1>6 DEF SendArrives, SendSwallowed, AfterSend, At, Pcs, CarryPcs
  <2>2. b \in Blobs /\ h \in Carrying(b)
    BY <1>t, <2>1, AtRequest DEF Carrying, CarryPcs
  <2>3. /\ Goto(h, pc) /\ accepted' = accepted \cup {b}
        /\ UNCHANGED <<queueVars, nonce, link, outbox>>
        /\ received' = received \/ received' = [received EXCEPT ![b] = @ + 1]
    BY <1>6 DEF SendArrives, SendSwallowed
  <2> HIDE DEF pc
  <2>4. /\ handler' = [handler EXCEPT ![h] = handler'[h]]
        /\ handler'[h].blob = b
        /\ handler' \in [Handlers -> {Idle} \cup Requests]
        /\ \A c \in Blobs : Carrying(c)' = Carrying(c) \ {h}
    BY <1>t, <2>1, <2>3, Moves
  <2>5. AnswerIsTrue' /\ AckedIsAccepted'
    BY <1>t, <2>3, <2>4 DEF AnswerIsTrue, AckedIsAccepted, At, TypeOK
  <2> HIDE DEF b
  <2>6. /\ \A g \in Carrying(b) : g = h
        /\ Queued(b) = {} /\ received[b] = 0 /\ nonce[b] # "missing"
    BY <1>t, <2>2 DEF CopyInv, FreshIsNowhere, OneCarrier, OnePlace
  <2>7. /\ received' \in [Blobs -> Nat] /\ received'[b] \in {0, 1}
        /\ \A c \in Blobs : c # b => received'[c] = received[c]
    <3>1. received \in [Blobs -> Nat] /\ received[b] = 0 /\ b \in Blobs
      BY <1>t, <2>2, <2>6 DEF TypeOK
    <3>2. CASE received' = received
      BY <3>1, <3>2
    <3>3. CASE received' = [received EXCEPT ![b] = @ + 1]
      BY <3>1, <3>3
    <3> QED
      BY <2>3, <3>2, <3>3
  <2>8. CopyInv'
    <3> SUFFICES ASSUME NEW c \in Blobs
                 PROVE  /\ nonce'[c] = "missing" =>
                              Carrying(c)' = {} /\ Queued(c)' = {} /\ received'[c] = 0
                        /\ \A f, g \in Carrying(c)' : f = g
                        /\ \A i, j \in Queued(c)' : i = j
                        /\ Carrying(c)' # {} => Queued(c)' = {} /\ received'[c] = 0
                        /\ Queued(c)' # {} => received'[c] = 0
                        /\ received'[c] <= 1
      BY DEF CopyInv, FreshIsNowhere, OneCarrier, OneEntry, OnePlace
    <3>1. Queued(c)' = Queued(c) /\ nonce' = nonce
      BY <1>q, <2>3
    <3>2. CASE c = b
      BY <2>4, <2>6, <2>7, <3>1, <3>2
    <3>3. CASE c # b
      <4>1. Carrying(c)' \subseteq Carrying(c) /\ received'[c] = received[c]
        BY <2>4, <2>7, <3>3
      <4> QED
        BY <1>t, <3>1, <4>1 DEF CopyInv, FreshIsNowhere, OneCarrier, OneEntry, OnePlace
    <3> QED
      BY <3>2, <3>3
  <2>9. TypeOK'
    BY <1>t, <1>q, <1>r, <2>2, <2>3, <2>4, <2>7 DEF TypeOK
  <2> QED
    BY <2>5, <2>8, <2>9 DEF IInv
<1>7. CASE Enqueue(h)
  <2>b. PICK b \in Blobs : b = handler[h].blob
    BY <1>7, <1>t, AtRequest DEF Enqueue, At, Pcs, CarryPcs
  <2>1. /\ handler[h].pc = "enqueue" /\ handler[h].pc \in Pcs
        /\ "answer" \in Pcs /\ "answer" \notin CarryPcs
    BY <1>7 DEF Enqueue, At, Pcs, CarryPcs
  <2>2. b \in Blobs /\ h \in Carrying(b)
    BY <1>t, <2>b, <2>1, AtRequest DEF Carrying
  <2>3. /\ Goto(h, "answer") /\ accepted' = accepted \cup {b}
        /\ UNCHANGED <<nonce, link, outbox, received>>
    BY <1>7, <2>b DEF Enqueue
  <2>4. PICK ttl \in Ttls : Queue!Relay(b, To[b], ttl)
    BY <1>7, <2>b DEF Enqueue
  <2>5. /\ handler' = [handler EXCEPT ![h] = handler'[h]]
        /\ handler'[h].blob = b
        /\ handler' \in [Handlers -> {Idle} \cup Requests]
        /\ \A c \in Blobs : Carrying(c)' = Carrying(c) \ {h}
    BY <1>t, <2>b, <2>1, <2>3, Moves
  <2>6. AnswerIsTrue' /\ AckedIsAccepted'
    BY <1>t, <2>3, <2>5 DEF AnswerIsTrue, AckedIsAccepted, At, TypeOK
  <2>7. /\ Queue!TypeOK'
        /\ DOMAIN pending_blobs' = DOMAIN pending_blobs \cup {Queue!BlobId}
        /\ pending_blobs'[Queue!BlobId].blob = b
        /\ \A i \in DOMAIN pending_blobs : i # Queue!BlobId =>
              pending_blobs'[i] = pending_blobs[i]
    BY <1>t, <2>2, <2>4, QueueRelay DEF TypeOK
  <2>8. /\ Queued(b)' \subseteq Queued(b) \cup {Queue!BlobId}
        /\ \A c \in Blobs : c # b => Queued(c)' \subseteq Queued(c)
    <3>1. ASSUME NEW c \in Blobs, NEW i \in Queued(c)', i # Queue!BlobId
          PROVE  i \in Queued(c)
      BY <2>7, <3>1 DEF Queued
    <3>2. ASSUME NEW c \in Blobs, Queue!BlobId \in Queued(c)'
          PROVE  c = b
      BY <2>7, <3>2 DEF Queued
    <3> QED
      BY <3>1, <3>2
  <2>9. /\ \A g \in Carrying(b) : g = h
        /\ Queued(b) = {} /\ received[b] = 0 /\ nonce[b] # "missing"
    BY <1>t, <2>2 DEF CopyInv, FreshIsNowhere, OneCarrier, OnePlace
  <2>10. CopyInv'
    <3> SUFFICES ASSUME NEW c \in Blobs
                 PROVE  /\ nonce'[c] = "missing" =>
                              Carrying(c)' = {} /\ Queued(c)' = {} /\ received'[c] = 0
                        /\ \A f, g \in Carrying(c)' : f = g
                        /\ \A i, j \in Queued(c)' : i = j
                        /\ Carrying(c)' # {} => Queued(c)' = {} /\ received'[c] = 0
                        /\ Queued(c)' # {} => received'[c] = 0
                        /\ received'[c] <= 1
      BY DEF CopyInv, FreshIsNowhere, OneCarrier, OneEntry, OnePlace
    <3>1. CASE c = b
      <4>1. Carrying(c)' = {}
        BY <2>5, <2>9, <3>1
      <4>2. \A i, j \in Queued(c)' : i = j
        <5>1. Queued(b)' \subseteq {Queue!BlobId}
          BY <2>8, <2>9
        <5> QED
          BY <3>1, <5>1
      <4> QED
        BY <2>3, <2>9, <3>1, <4>1, <4>2
    <3>2. CASE c # b
      <4>1. Carrying(c)' \subseteq Carrying(c) /\ Queued(c)' \subseteq Queued(c)
        BY <2>5, <2>8, <3>2
      <4> QED
        BY <1>t, <2>3, <4>1 DEF CopyInv, FreshIsNowhere, OneCarrier, OneEntry, OnePlace
    <3> QED
      BY <3>1, <3>2
  <2>11. TypeOK'
    BY <1>t, <1>r, <2>2, <2>3, <2>5, <2>7 DEF TypeOK
  <2> QED
    BY <2>6, <2>10, <2>11 DEF IInv
<1>8. ASSUME NEW arrives \in BOOLEAN, Answer(h, arrives)
      PROVE  IInv'
  <2>1. /\ Finish(h) /\ UNCHANGED <<queueVars, nonce, link, accepted, received>>
        /\ \/ outbox' = [outbox EXCEPT ![handler[h].blob] = "acked"]
           \/ outbox' = outbox
    BY <1>8 DEF Answer
  <2>2. handler[h].pc = "answer" /\ handler[h].pc \in Pcs
    BY <1>8 DEF Answer, At, Pcs, CarryPcs
  <2>3. handler[h].blob \in Blobs /\ handler[h].blob \in accepted
    BY <1>t, <2>2, AtRequest DEF AnswerIsTrue, At
  <2>4. CopyInv'
    BY <1>t, <1>q, <2>1, NoGain, Finishes
  <2>5. AnswerIsTrue' /\ AckedIsAccepted'
    BY <1>t, <2>1, <2>3, Finishes DEF AnswerIsTrue, AckedIsAccepted, At, TypeOK
  <2>6. TypeOK'
    BY <1>t, <1>q, <1>r, <2>1, <2>3, Finishes DEF TypeOK
  <2> QED
    BY <2>4, <2>5, <2>6 DEF IInv
<1> QED
  BY <1>1, <1>2, <1>3, <1>4, <1>5, <1>6, <1>7, <1>8

(* A fetch hands out what was queued: at most one copy of each blob.         *)
LEMMA FetchStep ==
  ASSUME IInv, NEW u \in Users, NEW arrives \in BOOLEAN, Fetch(u, arrives)
  PROVE  IInv'
<1>t. TypeOK /\ CopyInv /\ AnswerIsTrue /\ AckedIsAccepted
  BY DEF IInv
<1> DEFINE handed(b) == {i \in Queue!Fetched(u) : pending_blobs[i].blob = b}
<1>1. /\ received' = received \/ received' = [b \in Blobs |-> received[b] + Cardinality(handed(b))]
      /\ Queue!Fetch(u) /\ UNCHANGED <<serverVars, outbox, accepted>>
  BY DEF Fetch
<1>2. /\ Queue!TypeOK' /\ DOMAIN pending_blobs' \subseteq DOMAIN pending_blobs
      /\ \A i \in DOMAIN pending_blobs' : pending_blobs'[i] = pending_blobs[i]
  BY <1>t, <1>1, QueueShrinks DEF TypeOK
<1>3. DOMAIN pending_blobs' = DOMAIN pending_blobs \ Queue!QueueOf(u)
  <2> DEFINE how == [i \in Queue!QueueOf(u) |->
                       IF i \in Queue!Fetched(u) THEN "handed" ELSE "expired"]
  <2>1. Queue!Destroy(how) /\ DOMAIN how = Queue!QueueOf(u)
    BY <1>1 DEF Queue!Fetch
  <2> HIDE DEF how
  <2> QED
    BY <2>1, QueueDestroy
<1>4. \A b \in Blobs : /\ handed(b) \subseteq Queued(b)
                       /\ handed(b) \cap Queued(b)' = {}
                       /\ Queued(b)' \subseteq Queued(b)
  BY <1>2, <1>3, QueueLess DEF Queued, Queue!Fetched, Queue!QueueOf, Queue!Pending
<1>5. \A b \in Blobs : \/ handed(b) = {} /\ Cardinality(handed(b)) = 0
                       \/ handed(b) # {} /\ Cardinality(handed(b)) = 1
  <2> SUFFICES ASSUME NEW b \in Blobs
               PROVE  \/ handed(b) = {} /\ Cardinality(handed(b)) = 0
                      \/ handed(b) # {} /\ Cardinality(handed(b)) = 1
    OBVIOUS
  <2>1. \A i, j \in handed(b) : i = j
    BY <1>t, <1>4 DEF CopyInv, OneEntry
  <2> HIDE DEF handed
  <2>2. handed(b) = {} \/ \E i : handed(b) = {i}
    BY <2>1
  <2> QED
    BY <2>2, FS_EmptySet, FS_Singleton
<1> HIDE DEF handed
<1>6. \A b \in Blobs : Carrying(b)' = Carrying(b)
  BY <1>1 DEF Carrying, serverVars
<1>7. /\ received' \in [Blobs -> Nat]
      /\ \A b \in Blobs : received'[b] \in {received[b], received[b] + Cardinality(handed(b))}
  <2>1. received \in [Blobs -> Nat]
    BY <1>t DEF TypeOK
  <2>2. ASSUME NEW b \in Blobs PROVE Cardinality(handed(b)) \in Nat
    <3>1. Cardinality(handed(b)) = 0 \/ Cardinality(handed(b)) = 1
      BY <1>5
    <3> QED
      BY <3>1
  <2> QED
    BY <1>1, <2>1, <2>2
<1>8. CopyInv'
  <2> SUFFICES ASSUME NEW c \in Blobs
               PROVE  /\ nonce'[c] = "missing" =>
                            Carrying(c)' = {} /\ Queued(c)' = {} /\ received'[c] = 0
                      /\ \A f, g \in Carrying(c)' : f = g
                      /\ \A i, j \in Queued(c)' : i = j
                      /\ Carrying(c)' # {} => Queued(c)' = {} /\ received'[c] = 0
                      /\ Queued(c)' # {} => received'[c] = 0
                      /\ received'[c] <= 1
    BY DEF CopyInv, FreshIsNowhere, OneCarrier, OneEntry, OnePlace
  <2>1. /\ nonce[c] = "missing" => Carrying(c) = {} /\ Queued(c) = {} /\ received[c] = 0
        /\ \A f, g \in Carrying(c) : f = g
        /\ \A i, j \in Queued(c) : i = j
        /\ Carrying(c) # {} => Queued(c) = {} /\ received[c] = 0
        /\ Queued(c) # {} => received[c] = 0
        /\ received[c] <= 1 /\ received[c] \in Nat
    BY <1>t DEF CopyInv, FreshIsNowhere, OneCarrier, OneEntry, OnePlace, TypeOK
  <2>2. nonce' = nonce /\ Carrying(c)' = Carrying(c)
    BY <1>1, <1>6 DEF serverVars
  <2>3. CASE handed(c) = {}
    <3>1. received'[c] = received[c]
      BY <1>5, <1>7, <2>1, <2>3
    <3> QED
      BY <1>4, <2>1, <2>2, <3>1
  <2>4. CASE handed(c) # {}
    <3>1. Queued(c) # {} /\ Queued(c)' = {}
      BY <1>4, <2>1, <2>4
    <3>2. received'[c] \in {0, 1}
      BY <1>5, <1>7, <2>1, <2>4, <3>1
    <3> QED
      BY <2>1, <2>2, <3>1, <3>2
  <2> QED
    BY <2>3, <2>4
<1>9. TypeOK' /\ AnswerIsTrue' /\ AckedIsAccepted'
  BY <1>t, <1>1, <1>2, <1>7 DEF TypeOK, AnswerIsTrue, AckedIsAccepted, At, serverVars
<1> QED
  BY <1>8, <1>9 DEF IInv

(* The steps that are nobody's request, except a fetch.                      *)
LEMMA OtherStep ==
  ASSUME IInv, Durable,
         \/ \E u \in Users : Clear(u) \/ LinkUp(u) \/ LinkDies(u) \/ LinkDown(u)
         \/ Expire \/ Restart \/ Tick
  PROVE  IInv' /\ UNCHANGED received
         /\ \A b \in Blobs : nonce'[b] = nonce[b]
                            /\ Carrying(b)' \subseteq Carrying(b)
                            /\ Queued(b)' \subseteq Queued(b)
<1>t. TypeOK /\ CopyInv /\ AnswerIsTrue /\ AckedIsAccepted
  BY DEF IInv
<1>1. UNCHANGED <<outbox, accepted, received>> /\ nonce' = nonce
  BY DEF Clear, LinkUp, LinkDies, LinkDown, Expire, Restart, Tick, serverVars
<1>2. link' \in [Users -> {"none", "alive", "gone"}]
  BY <1>t DEF Clear, LinkUp, LinkDies, LinkDown, Expire, Restart, Tick, serverVars, TypeOK
<1>3. handler' = handler \/ handler' = [h \in Handlers |-> Idle]
  BY DEF Clear, LinkUp, LinkDies, LinkDown, Expire, Restart, Tick, serverVars
<1>4. \A b \in Blobs : Carrying(b)' \subseteq Carrying(b)
  BY <1>3 DEF Carrying
<1>5. Queue!TypeOK' /\ \A b \in Blobs : Queued(b)' \subseteq Queued(b)
  <2>1. CASE UNCHANGED queueVars
    BY <1>t, <2>1, QueueSame DEF TypeOK
  <2>2. CASE \/ \E u \in Users : Queue!Fetch(u) \/ Queue!Clear(u)
             \/ \E t \in timers : Queue!Expire(t)
             \/ Queue!Restart \/ Queue!Tick
    BY <1>t, <2>2, QueueShrinks, QueueLess DEF TypeOK
  <2> QED
    BY <2>1, <2>2 DEF Clear, LinkUp, LinkDies, LinkDown, Expire, Restart, Tick
<1>6. CopyInv'
  BY <1>t, <1>1, <1>4, <1>5, NoGain
<1>7. TypeOK'
  <2>1. handler \in [Handlers -> {Idle} \cup Requests]
    BY <1>t DEF TypeOK, Requests
  <2>2. handler' \in [Handlers -> {Idle} \cup Requests]
    BY <1>3, <2>1
  <2> QED
    BY <1>t, <1>1, <1>2, <1>5, <2>2 DEF TypeOK, Requests
<1>8. AnswerIsTrue' /\ AckedIsAccepted'
  BY <1>t, <1>1, <1>3 DEF AnswerIsTrue, AckedIsAccepted, At
<1> QED
  BY <1>1, <1>4, <1>5, <1>6, <1>7, <1>8 DEF IInv

LEMMA InitInv == Init => IInv
<1> SUFFICES ASSUME Init PROVE IInv
  OBVIOUS
<1>1. Queue!TypeOK /\ \A b \in Blobs : Queued(b) = {}
  BY BoundsAssumption DEF Init, Queue!Init, Queue!TypeOK, Queue!Pending, Queued
<1>2. \A b \in Blobs : Carrying(b) = {}
  BY DEF Init, Carrying
<1>3. TypeOK
  BY <1>1 DEF Init, TypeOK
<1> QED
  BY <1>1, <1>2, <1>3
  DEF IInv, CopyInv, FreshIsNowhere, OneCarrier, OneEntry, OnePlace, AnswerIsTrue,
      AckedIsAccepted, Init

LEMMA InvStep == Durable /\ IInv /\ [Next]_vars => IInv'
<1> SUFFICES ASSUME Durable, IInv, [Next]_vars PROVE IInv'
  OBVIOUS
<1>1. CASE UNCHANGED vars
  <2>1. /\ Queue!TypeOK' <=> Queue!TypeOK
        /\ \A b : Queued(b)' = Queued(b) /\ Carrying(b)' = Carrying(b)
    BY <1>1, QueueSame DEF vars, Carrying, serverVars
  <2>2. CopyInv'
    BY <1>1, <2>1, NoGain DEF IInv, vars, serverVars
  <2> QED
    BY <1>1, <2>1, <2>2 DEF IInv, TypeOK, AnswerIsTrue, AckedIsAccepted, At, vars, serverVars
<1> QED
  BY <1>1, HandlerStep, FetchStep, OtherStep DEF Next

(* The strengthening of DeliveryHonest: the nonce of a blob that is in the   *)
(* server or delivered is taken, the places of a blob exclude each other,    *)
(* and who answers a request has passed its blob on.                         *)
THEOREM Inductive == Durable => (Spec => []IInv)
<1> SUFFICES ASSUME Durable PROVE Spec => []IInv
  OBVIOUS
<1> QED
  BY InitInv, InvStep, PTL DEF Spec

LEMMA AtMostOne ==
  ASSUME NEW S, \A x, y \in S : x = y
  PROVE  (S = {} /\ Cardinality(S) = 0) \/ (S # {} /\ Cardinality(S) = 1)
<1>1. S = {} \/ \E x : S = {x}
  OBVIOUS
<1> QED
  BY <1>1, FS_EmptySet, FS_Singleton

(* Whatever retries, paths, failing stores and restarts meet, there is one   *)
(* copy of a blob, and the sender who was told of success was heard, if the  *)
(* registry survives a restart (HERMES_REPLAY_BACKEND=sql).                  *)
THEOREM DeliveredOnce == Durable => (Spec => []DeliveryHonest)
<1> SUFFICES ASSUME Durable PROVE Spec => []DeliveryHonest
  OBVIOUS
<1>1. IInv => OneCopy
  <2> SUFFICES ASSUME IInv, NEW b \in Blobs
               PROVE  Cardinality(Carrying(b)) + Cardinality(Queued(b)) + received[b] <= 1
    BY DEF OneCopy
  <2>1. /\ \A f, g \in Carrying(b) : f = g
        /\ \A i, j \in Queued(b) : i = j
        /\ Carrying(b) # {} => Queued(b) = {} /\ received[b] = 0
        /\ Queued(b) # {} => received[b] = 0
        /\ received[b] <= 1 /\ received[b] \in Nat
    BY DEF IInv, CopyInv, OneCarrier, OneEntry, OnePlace, TypeOK
  <2>2. (Carrying(b) = {} /\ Cardinality(Carrying(b)) = 0)
        \/ (Carrying(b) # {} /\ Cardinality(Carrying(b)) = 1)
    BY <2>1, AtMostOne
  <2>3. (Queued(b) = {} /\ Cardinality(Queued(b)) = 0)
        \/ (Queued(b) # {} /\ Cardinality(Queued(b)) = 1)
    BY <2>1, AtMostOne
  <2> QED
    BY <2>1, <2>2, <2>3
<1> QED
  BY <1>1, Inductive, PTL DEF DeliveryHonest, IInv

-----------------------------------------------------------------------------
(* What a step may do to the places of one blob: a nonce that is taken stays *)
(* taken, no copy is taken back from the receiver, and where nothing is left *)
(* inside nothing appears but by a claim of the free nonce.                  *)
NoReturn(b) ==
  /\ nonce[b] # "missing" => nonce'[b] # "missing"
  /\ received'[b] >= received[b]
  /\ Carrying(b) = {} /\ Queued(b) = {} => received'[b] = received[b] /\ Queued(b)' = {}
  /\ Carrying(b) = {} /\ nonce[b] # "missing" => Carrying(b)' = {}

LEMMA HandlerNoReturn ==
  ASSUME IInv, NEW h \in Handlers, NEW b \in Blobs,
         \/ \E c \in Blobs, via \in Vias : Submit(h, c, via)
         \/ Claim(h) \/ ClaimFails(h) \/ Duplicate(h)
         \/ Commit(h) \/ CommitFails(h)
         \/ SendStart(h) \/ SendArrives(h) \/ SendSwallowed(h) \/ SendRaises(h)
         \/ Enqueue(h)
         \/ \E arrives \in BOOLEAN : Answer(h, arrives)
  PROVE  NoReturn(b)
<1> USE ToAssumption, ViasAssumption
<1>t. TypeOK
  BY DEF IInv
<1>n. nonce \in [Blobs -> {"missing", "pending", "consumed"}] /\ received[b] \in Nat
  BY <1>t DEF TypeOK
<1>q. UNCHANGED queueVars => Queued(b)' = Queued(b)
  BY QueueSame
<1>1. ASSUME NEW c \in Blobs, NEW via \in Vias, Submit(h, c, via)
      PROVE  NoReturn(b)
  <2> DEFINE x == [pc |-> "claim", blob |-> c, via |-> via]
  <2>1. x \in Requests /\ x.pc \notin CarryPcs
    BY DEF Requests, CarryPcs
  <2>2. handler' = [handler EXCEPT ![h] = x] /\ UNCHANGED <<queueVars, nonce, received>>
    BY <1>1 DEF Submit
  <2> HIDE DEF x
  <2>3. Carrying(b)' = Carrying(b) \ {h}
    BY <1>t, <2>1, <2>2, Becomes
  <2> QED
    BY <1>n, <1>q, <2>2, <2>3 DEF NoReturn
<1>2. CASE Claim(h)
  <2>1. /\ handler[h].pc \in Pcs /\ AfterClaim(handler[h].via) \in Pcs
        /\ Goto(h, AfterClaim(handler[h].via))
        /\ nonce[handler[h].blob] = "missing"
        /\ nonce' = [nonce EXCEPT ![handler[h].blob] = "pending"]
        /\ UNCHANGED <<queueVars, received>>
    BY <1>2 DEF Claim, At, AfterClaim, Pcs, CarryPcs
  <2>2. b # handler[h].blob => Carrying(b)' = Carrying(b) \ {h}
    BY <1>t, <2>1, Moves
  <2> QED
    BY <1>n, <1>q, <2>1, <2>2 DEF NoReturn
<1>3. CASE \/ ClaimFails(h) \/ Duplicate(h) \/ CommitFails(h)
           \/ \E arrives \in BOOLEAN : Answer(h, arrives)
  <2>1. /\ Finish(h) /\ UNCHANGED <<queueVars, received>>
        /\ nonce' = nonce \/ \E c : nonce' = [nonce EXCEPT ![c] = "pending"]
    BY <1>3 DEF ClaimFails, Duplicate, CommitFails, Answer
  <2> QED
    BY <1>n, <1>q, <1>t, <2>1, Finishes DEF NoReturn
<1>4. CASE Commit(h) \/ SendStart(h) \/ SendRaises(h)
  <2>1. /\ UNCHANGED <<queueVars, received>>
        /\ \/ nonce' = nonce
           \/ \E c \in Blobs : nonce' = [nonce EXCEPT ![c] = "consumed"]
           \/ \E c \in Blobs : nonce' = [nonce EXCEPT ![c] = @]
    <3>1. Commit(h) => handler[h].blob \in Blobs
      BY <1>t, AtRequest DEF Commit, Pcs, CarryPcs
    <3> QED
      BY <1>4, <3>1 DEF Commit, SendStart, SendRaises
  <2>2. Carrying(b)' \subseteq Carrying(b)
    <3>1. CASE Finish(h)
      BY <1>t, <3>1, Finishes
    <3>2. CASE ~ Finish(h)
      <4>1. /\ handler[h].pc \in CarryPcs /\ handler[h].pc \in Pcs
            /\ \E pc \in CarryPcs : Goto(h, pc)
        BY <1>4, <3>2
        DEF Commit, SendStart, SendRaises, At, AfterCommit, AfterSend, Pcs, CarryPcs
      <4>2. PICK pc \in CarryPcs : Goto(h, pc)
        BY <4>1
      <4>3. pc \in Pcs /\ h \in Carrying(handler[h].blob)
        BY <1>t, <4>1, AtRequest DEF Carrying, CarryPcs, Pcs
      <4>4. Carrying(b)' = IF handler[h].blob = b THEN Carrying(b) \cup {h}
                           ELSE Carrying(b) \ {h}
        BY <1>t, <4>1, <4>2, <4>3, Moves
      <4> QED
        BY <4>3, <4>4
    <3> QED
      BY <3>1, <3>2
  <2> QED
    BY <1>n, <1>q, <2>1, <2>2 DEF NoReturn
<1>5. CASE SendArrives(h) \/ SendSwallowed(h)
  <2>1. /\ handler[h].pc \in CarryPcs /\ handler[h].pc \in Pcs
        /\ AfterSend(handler[h].via, TRUE) \in Pcs \ CarryPcs
    BY <1>5 DEF SendArrives, SendSwallowed, AfterSend, At, Pcs, CarryPcs
  <2>2. PICK c \in Blobs : c = handler[h].blob
    BY <1>t, <2>1, AtRequest
  <2>3. h \in Carrying(c)
    BY <1>t, <2>1, <2>2, AtRequest DEF Carrying, CarryPcs
  <2>4. /\ Goto(h, AfterSend(handler[h].via, TRUE)) /\ UNCHANGED <<queueVars, nonce>>
        /\ received' = received \/ received' = [received EXCEPT ![c] = @ + 1]
    BY <1>5, <2>2 DEF SendArrives, SendSwallowed
  <2>5. Carrying(b)' = Carrying(b) \ {h}
    BY <1>t, <2>1, <2>4, Moves
  <2>6. /\ received'[b] >= received[b]
        /\ b # c => received'[b] = received[b]
    <3>1. received \in [Blobs -> Nat]
      BY <1>t DEF TypeOK
    <3>2. CASE received' = received
      BY <1>n, <3>2
    <3>3. CASE received' = [received EXCEPT ![c] = @ + 1]
      BY <1>n, <3>1, <3>3
    <3> QED
      BY <2>4, <3>2, <3>3
  <2> QED
    BY <1>q, <2>3, <2>4, <2>5, <2>6 DEF NoReturn
<1>6. CASE Enqueue(h)
  <2>1. /\ handler[h].pc = "enqueue" /\ handler[h].pc \in Pcs
        /\ "answer" \in Pcs \ CarryPcs
    BY <1>6 DEF Enqueue, At, Pcs, CarryPcs
  <2>2. PICK c \in Blobs : c = handler[h].blob
    BY <1>t, <2>1, AtRequest
  <2>3. h \in Carrying(c)
    BY <1>t, <2>1, <2>2, AtRequest DEF Carrying
  <2>4. Goto(h, "answer") /\ UNCHANGED <<nonce, received>>
    BY <1>6 DEF Enqueue
  <2>5. Carrying(b)' = Carrying(b) \ {h}
    BY <1>t, <2>1, <2>4, Moves
  <2>6. PICK ttl \in Ttls : Queue!Relay(c, To[c], ttl)
    BY <1>6, <2>2 DEF Enqueue
  <2>7. /\ DOMAIN pending_blobs' = DOMAIN pending_blobs \cup {Queue!BlobId}
        /\ pending_blobs'[Queue!BlobId].blob = c
        /\ \A i \in DOMAIN pending_blobs : i # Queue!BlobId =>
              pending_blobs'[i] = pending_blobs[i]
    BY <1>t, <2>6, QueueRelay DEF TypeOK
  <2>8. b # c => Queued(b)' \subseteq Queued(b)
    BY <2>7 DEF Queued
  <2> QED
    BY <1>n, <2>3, <2>4, <2>5, <2>8 DEF NoReturn
<1> QED
  BY <1>1, <1>2, <1>3, <1>4, <1>5, <1>6

LEMMA FetchNoReturn ==
  ASSUME IInv, NEW u \in Users, NEW arrives \in BOOLEAN, Fetch(u, arrives), NEW b \in Blobs
  PROVE  NoReturn(b)
<1> DEFINE handed == {i \in Queue!Fetched(u) : pending_blobs[i].blob = b}
<1>t. TypeOK /\ received \in [Blobs -> Nat]
  BY DEF IInv, TypeOK
<1>1. /\ received'[b] \in {received[b], received[b] + Cardinality(handed)}
      /\ Queue!Fetch(u) /\ UNCHANGED <<nonce, handler>>
  BY <1>t DEF Fetch, serverVars
<1>2. Queued(b)' \subseteq Queued(b)
  BY <1>t, <1>1, QueueShrinks, QueueLess DEF TypeOK
<1>3. handed \subseteq Queued(b)
  BY DEF Queued, Queue!Fetched, Queue!QueueOf, Queue!Pending
<1>4. \A i, j \in handed : i = j
  BY <1>3 DEF IInv, CopyInv, OneEntry
<1> HIDE DEF handed
<1>5. \/ handed = {} /\ Cardinality(handed) = 0
      \/ handed # {} /\ Cardinality(handed) = 1
  BY <1>4, AtMostOne
<1>6. Carrying(b)' = Carrying(b)
  BY <1>1 DEF Carrying
<1> QED
  BY <1>t, <1>1, <1>2, <1>3, <1>5, <1>6 DEF NoReturn

LEMMA ChannelStep ==
  ASSUME Durable, IInv, [Next]_vars
  PROVE  [Channel!Next]_([b \in Blobs |-> Stage(b)])
<1>1. \A b \in Blobs : NoReturn(b)
  <2> SUFFICES ASSUME NEW b \in Blobs PROVE NoReturn(b)
    OBVIOUS
  <2>t. received[b] \in Nat
    BY DEF IInv, TypeOK
  <2>1. CASE UNCHANGED vars
    BY <2>1, <2>t, QueueSame DEF vars, NoReturn, Carrying, serverVars
  <2>2. CASE \/ \E u \in Users : Clear(u) \/ LinkUp(u) \/ LinkDies(u) \/ LinkDown(u)
             \/ Expire \/ Restart \/ Tick
    BY <2>2, <2>t, OtherStep DEF NoReturn
  <2> QED
    BY <2>1, <2>2, HandlerNoReturn, FetchNoReturn DEF Next
<1>2. IInv'
  BY InvStep
<1>3. ASSUME NEW b \in Blobs
      PROVE  Stage(b)' = Stage(b) \/ <<Stage(b), Stage(b)'>> \in Channel!Edges
  <2>1. /\ received[b] \in Nat /\ received'[b] \in Nat
        /\ nonce[b] = "missing" => Carrying(b) = {} /\ Queued(b) = {} /\ received[b] = 0
    BY <1>2 DEF IInv, TypeOK, CopyInv, FreshIsNowhere
  <2>2. NoReturn(b)
    BY <1>1
  <2> QED
    BY <2>1, <2>2 DEF Stage, NoReturn, Channel!Edges
<1>4. ASSUME NEW b \in Blobs
      PROVE  Stage(b)' \in {"unsent", "inside", "delivered", "lost"}
  BY DEF Stage
<1> QED
  BY <1>3, <1>4 DEF Channel!Next

(* The server implements the at-most-once channel of RelayChannel            *)
(* ("FAIL-CLOSED AT-MOST-ONCE"): no crash, race of the two paths, failing    *)
(* store or retry brings back a blob that has been delivered or lost, if the *)
(* registry survives a restart.                                              *)
THEOREM ImplementsChannel == Durable => (Spec => ChannelSpec)
<1> SUFFICES ASSUME Durable PROVE Spec => ChannelSpec
  OBVIOUS
<1>1. Init => Channel!Init
  <2> SUFFICES ASSUME Init, NEW b \in Blobs PROVE Stage(b) = "unsent"
    BY DEF Channel!Init
  <2>1. Queued(b) = {} /\ Carrying(b) = {}
    BY DEF Init, Queue!Init, Queued, Carrying
  <2> QED
    BY <2>1 DEF Init, Stage
<1> QED
  BY <1>1, ChannelStep, Inductive, PTL DEF Spec, ChannelSpec, Channel!Spec

-----------------------------------------------------------------------------
(* The ratchet states of one contact. The requests IndexedDB has not         *)
(* completed are of calls that await them; a call that saves has used the    *)
(* session that is cached.                                                   *)
Saves == [what : {"get", "put"}, by : Handlers, val : States!Sessions \cup {None}]
CallRecords ==
  [pc : {"idle", "loading", "resolving", "creating", "saving"},
   kind : {"message", "key", "none"}, num : Numbers \cup 0..MaxSent]

Awaits(q, cs) ==
  \A i \in 1..Len(q) :
    cs[q[i].by].pc \in (IF q[i].what = "get" THEN {"loading"} ELSE {"creating", "saving"})
OneEach(q) == \A i, j \in 1..Len(q) : q[i].by = q[j].by => i = j
NoneOf(q, c) == \A i \in 1..Len(q) : q[i].by # c

(* A call as far as its number, and whether a session is cached, are          *)
(* concerned.                                                                *)
CallFits(call, on) ==
  /\ call \in CallRecords
  /\ call.pc \in {"creating", "saving"} => on
  /\ call.pc # "idle" /\ call.kind = "none" => call.num \in Numbers
  /\ call.pc = "saving" /\ call.kind # "none" => call.num \in 1..MaxSent

Framed(on, s, d, q, cs) ==
  /\ on \in BOOLEAN /\ s \in States!Sessions \cup {None} /\ d \in States!Sessions \cup {None}
  /\ s # None <=> on
  /\ q \in Seq(Saves) /\ cs \in [Handlers -> CallRecords]
  /\ \A c \in Handlers : CallFits(cs[c], on)
  /\ Awaits(q, cs) /\ OneEach(q)

(* One state knows all that another has used.                                *)
Below(s, t) == s.sent <= t.sent /\ s.got \subseteq t.got

(* A state to be saved knows what the call that saves it has used.           *)
Knows(v, call) ==
  call.pc = "saving" => IF call.kind = "none" THEN call.num \in v.got
                                              ELSE call.num <= v.sent

(* States are saved in the order in which the session went through them.     *)
Saving(e) == e.what = "put" /\ e.val # None
Ordered(s, d, q, cs) ==
  /\ \A i \in 1..Len(q) : Saving(q[i]) =>
       /\ Below(q[i].val, s) /\ Knows(q[i].val, cs[q[i].by])
       /\ d # None => Below(d, q[i].val)
  /\ \A i, j \in 1..Len(q) :
       i < j /\ Saving(q[i]) /\ Saving(q[j]) => Below(q[i].val, q[j].val)
  /\ s # None /\ d # None => Below(d, s)

(* The numbers in use are different, and none of them has been posted.       *)
Sealing(call) == call.pc = "saving" /\ call.kind # "none"
Numbered(s, cs, p) ==
  /\ \A c \in Handlers : Sealing(cs[c]) => cs[c].num <= s.sent /\ p[cs[c].num] = 0
  /\ \A c, g \in Handlers :
       c # g /\ Sealing(cs[c]) /\ Sealing(cs[g]) => cs[c].num # cs[g].num

(* What is out is on disk.                                                   *)
OutIsSaved(d, p, w) ==
  /\ p \in [1..MaxSent -> 0..2] /\ w \subseteq Numbers
  /\ \A n \in 1..MaxSent : p[n] > 0 => p[n] = 1 /\ d # None /\ n <= d.sent
  /\ w \subseteq (IF d = None THEN {} ELSE d.got)

Unspoiled(s, d, q, cs, p, w) ==
  Ordered(s, d, q, cs) /\ Numbered(s, cs, p) /\ OutIsSaved(d, p, w)

Flags ==
  /\ shared \in BOOLEAN /\ unlocked \in BOOLEAN /\ spoiled \in BOOLEAN
  /\ posted \in [1..MaxSent -> 0..2] /\ shown \subseteq Numbers

StatesInv ==
  /\ Flags /\ States!KeysAreSealed
  /\ Framed(cached, session, statesDisk, idb, statesCalls)
  /\ ~spoiled => Unspoiled(session, statesDisk, idb, statesCalls, posted, shown)

-----------------------------------------------------------------------------
(* Sessions that go on.                                                      *)
LEMMA SessionSteps ==
  ASSUME NEW s \in States!Sessions
  PROVE  /\ s.sent \in 0..MaxSent /\ s.got \subseteq Numbers /\ s # None
         /\ Below(s, s)
         /\ s.sent < MaxSent =>
              /\ [s EXCEPT !.sent = @ + 1] \in States!Sessions
              /\ [s EXCEPT !.sent = @ + 1].sent = s.sent + 1 /\ s.sent + 1 \in 1..MaxSent
              /\ Below(s, [s EXCEPT !.sent = @ + 1])
         /\ \A n \in Numbers :
              /\ [s EXCEPT !.got = @ \cup {n}] \in States!Sessions
              /\ n \in [s EXCEPT !.got = @ \cup {n}].got
              /\ Below(s, [s EXCEPT !.got = @ \cup {n}])
  BY StatesAssumption DEF States!Sessions, Below

LEMMA BelowAgain ==
  ASSUME NEW r \in States!Sessions, NEW s \in States!Sessions, NEW t \in States!Sessions,
         Below(r, s), Below(s, t)
  PROVE  Below(r, t)
  BY SessionSteps, StatesAssumption DEF States!Sessions, Below

(* The queue of IndexedDB grows at its end and is served at its head.        *)
LEMMA Entries == \A q \in Seq(Saves) : \A i \in 1..Len(q) : q[i] \in Saves
  BY ElementOfSeq, LenProperties

LEMMA Pushed ==
  ASSUME NEW q \in Seq(Saves), NEW e \in Saves
  PROVE  /\ Append(q, e) \in Seq(Saves) /\ Len(Append(q, e)) = Len(q) + 1
         /\ Len(q) \in Nat /\ \A i \in 1..Len(q) : q[i] \in Saves
         /\ \A i \in 1..Len(Append(q, e)) :
              \/ i \in 1..Len(q) /\ Append(q, e)[i] = q[i]
              \/ i = Len(q) + 1 /\ Append(q, e)[i] = e
<1>1. Len(q) \in Nat /\ \A i \in 1..Len(q) : q[i] \in Saves
  BY ElementOfSeq, LenProperties
<1> QED
  BY <1>1, AppendProperties

LEMMA Popped ==
  ASSUME NEW q \in Seq(Saves), q # <<>>
  PROVE  /\ Tail(q) \in Seq(Saves) /\ Head(q) \in Saves /\ Head(q) = q[1]
         /\ Len(q) \in Nat /\ 1 \in 1..Len(q)
         /\ \A i \in 1..Len(Tail(q)) : i + 1 \in 1..Len(q) /\ Tail(q)[i] = q[i + 1]
         /\ Len(Tail(q)) \in Nat
<1>1. Len(q) \in Nat /\ \A i \in 1..Len(q) : q[i] \in Saves
  BY ElementOfSeq, LenProperties
<1>2. Tail(q) \in Seq(Saves) /\ Len(Tail(q)) = Len(q) - 1 /\ Len(q) # 0
  BY <1>1, HeadTailProperties, EmptySeq
<1>3. \A i \in 1..Len(Tail(q)) : Tail(q)[i] = q[i + 1]
  BY HeadTailProperties
<1>4. Head(q) = q[1]
  BY HeadTailProperties
<1> QED
  BY <1>1, <1>2, <1>3, <1>4

(* The call of a request that is served has no other one.                    *)
LEMMA PopFrame ==
  ASSUME NEW on, NEW s, NEW d, NEW q, NEW cs, Framed(on, s, d, q, cs), q # <<>>
  PROVE  /\ Framed(on, s, d, Tail(q), cs)
         /\ NoneOf(Tail(q), Head(q).by)
         /\ Head(q) \in Saves
<1> USE DEF Framed
<1>0. q \in Seq(Saves)
  OBVIOUS
<1>1. /\ Tail(q) \in Seq(Saves) /\ Head(q) \in Saves /\ Head(q) = q[1]
      /\ Len(q) \in Nat /\ 1 \in 1..Len(q) /\ Len(Tail(q)) \in Nat
      /\ \A i \in 1..Len(Tail(q)) : i + 1 \in 1..Len(q) /\ Tail(q)[i] = q[i + 1]
  BY <1>0, Popped
<1>2. Awaits(Tail(q), cs)
  BY <1>1 DEF Awaits
<1>3. OneEach(Tail(q)) /\ NoneOf(Tail(q), Head(q).by)
  BY <1>1 DEF OneEach, NoneOf
<1> QED
  BY <1>1, <1>2, <1>3

(* A call that has no request in the queue goes on ...                       *)
LEMMA CallFrame ==
  ASSUME NEW on, NEW s, NEW d, NEW q, NEW cs, Framed(on, s, d, q, cs),
         NEW c \in Handlers, NoneOf(q, c), NEW call, CallFits(call, on)
  PROVE  Framed(on, s, d, q, [cs EXCEPT ![c] = call])
<1> USE DEF Framed
<1>1. [cs EXCEPT ![c] = call] \in [Handlers -> CallRecords]
  BY DEF CallFits
<1>2. \A g \in Handlers : CallFits([cs EXCEPT ![c] = call][g], on)
  OBVIOUS
<1>3. \A i \in 1..Len(q) : q[i].by \in Handlers /\ q[i].by # c
  BY Entries DEF NoneOf, Saves
<1>4. Awaits(q, [cs EXCEPT ![c] = call])
  BY <1>3 DEF Awaits
<1> QED
  BY <1>1, <1>2, <1>4

(* ... or asks for something.                                                *)
LEMMA PushFrame ==
  ASSUME NEW on, NEW s, NEW d, NEW q, NEW cs, Framed(on, s, d, q, cs),
         NEW c \in Handlers, NoneOf(q, c), NEW call, CallFits(call, on),
         NEW e \in Saves, e.by = c,
         call.pc \in (IF e.what = "get" THEN {"loading"} ELSE {"creating", "saving"})
  PROVE  Framed(on, s, d, Append(q, e), [cs EXCEPT ![c] = call])
<1> DEFINE cs2 == [cs EXCEPT ![c] = call]
           q2 == Append(q, e)
<1>1. Framed(on, s, d, q, cs2)
  BY CallFrame
<1>2. cs2[c] = call
  BY DEF Framed
<1>3. q \in Seq(Saves)
  BY DEF Framed
<1>4. /\ q2 \in Seq(Saves) /\ Len(q2) = Len(q) + 1 /\ Len(q) \in Nat
      /\ \A i \in 1..Len(q2) : \/ i \in 1..Len(q) /\ q2[i] = q[i]
                               \/ i = Len(q) + 1 /\ q2[i] = e
  BY <1>3, Pushed
<1> HIDE DEF cs2, q2
<1>5. Awaits(q2, cs2)
  <2> SUFFICES ASSUME NEW i \in 1..Len(q2)
               PROVE  cs2[q2[i].by].pc \in (IF q2[i].what = "get" THEN {"loading"} ELSE {"creating", "saving"})
    BY DEF Awaits
  <2>1. CASE i \in 1..Len(q) /\ q2[i] = q[i]
    BY <2>1, <1>1 DEF Framed, Awaits
  <2>2. CASE i = Len(q) + 1 /\ q2[i] = e
    BY <2>2, <1>2
  <2> QED
    BY <2>1, <2>2, <1>4
<1>6. OneEach(q2)
  <2> SUFFICES ASSUME NEW i \in 1..Len(q2), NEW j \in 1..Len(q2), q2[i].by = q2[j].by
               PROVE  i = j
    BY DEF OneEach
  <2>1. CASE i \in 1..Len(q) /\ j \in 1..Len(q)
    BY <2>1, <1>1, <1>4 DEF Framed, OneEach
  <2>2. CASE i \notin 1..Len(q) \/ j \notin 1..Len(q)
    BY <2>2, <1>4 DEF NoneOf
  <2> QED
    BY <2>1, <2>2
<1> QED
  BY <1>1, <1>4, <1>5, <1>6 DEF Framed, cs2, q2

(* Who awaits nothing has no request in the queue.                           *)
LEMMA NothingAsked ==
  ASSUME NEW on, NEW s, NEW d, NEW q, NEW cs, Framed(on, s, d, q, cs),
         NEW c \in Handlers, cs[c].pc \notin {"loading", "creating", "saving"}
  PROVE  NoneOf(q, c)
  BY DEF Framed, Awaits, NoneOf

-----------------------------------------------------------------------------
LEMMA PopKeeps ==
  ASSUME NEW on, NEW s, NEW d, NEW q, NEW cs, NEW p, NEW w,
         Framed(on, s, d, q, cs), q # <<>>, Unspoiled(s, d, q, cs, p, w)
  PROVE  /\ Unspoiled(s, d, Tail(q), cs, p, w)
         /\ Saving(Head(q)) =>
              /\ Unspoiled(s, Head(q).val, Tail(q), cs, p, w)
              /\ Head(q).val \in States!Sessions
              /\ Knows(Head(q).val, cs[Head(q).by])
<1>0. q \in Seq(Saves)
  BY DEF Framed
<1>1. /\ Tail(q) \in Seq(Saves) /\ Head(q) \in Saves /\ Head(q) = q[1]
      /\ Len(q) \in Nat /\ 1 \in 1..Len(q) /\ Len(Tail(q)) \in Nat
      /\ \A i \in 1..Len(Tail(q)) : i + 1 \in 1..Len(q) /\ Tail(q)[i] = q[i + 1]
  BY <1>0, Popped
<1>2. Ordered(s, d, q, cs)
  BY DEF Unspoiled
<1>3. Ordered(s, d, Tail(q), cs)
  <2>1. \A i \in 1..Len(Tail(q)) : Saving(Tail(q)[i]) =>
          /\ Below(Tail(q)[i].val, s) /\ Knows(Tail(q)[i].val, cs[Tail(q)[i].by])
          /\ d # None => Below(d, Tail(q)[i].val)
    BY <1>1, <1>2 DEF Ordered
  <2>2. \A i, j \in 1..Len(Tail(q)) :
          i < j /\ Saving(Tail(q)[i]) /\ Saving(Tail(q)[j]) => Below(Tail(q)[i].val, Tail(q)[j].val)
    <3> SUFFICES ASSUME NEW i \in 1..Len(Tail(q)), NEW j \in 1..Len(Tail(q)),
                        i < j, Saving(Tail(q)[i]), Saving(Tail(q)[j])
                 PROVE  Below(Tail(q)[i].val, Tail(q)[j].val)
      OBVIOUS
    <3>1. i + 1 < j + 1 /\ i + 1 \in 1..Len(q) /\ j + 1 \in 1..Len(q)
      BY <1>1
    <3> QED
      BY <1>1, <1>2, <3>1 DEF Ordered
  <2> QED
    BY <2>1, <2>2, <1>2 DEF Ordered
<1>4. ASSUME Saving(Head(q))
      PROVE  /\ Unspoiled(s, Head(q).val, Tail(q), cs, p, w)
             /\ Head(q).val \in States!Sessions
             /\ Knows(Head(q).val, cs[Head(q).by])
  <2> DEFINE v == Head(q).val
  <2>1. v \in States!Sessions /\ v # None
    BY <1>1, <1>4 DEF Saving, Saves
  <2>2. Below(v, s) /\ Knows(v, cs[Head(q).by]) /\ (d # None => Below(d, v))
    BY <1>1, <1>2, <1>4 DEF Ordered
  <2>3. \A i \in 1..Len(Tail(q)) : Saving(Tail(q)[i]) => Below(v, Tail(q)[i].val)
    <3> SUFFICES ASSUME NEW i \in 1..Len(Tail(q)), Saving(Tail(q)[i])
                 PROVE  Below(v, Tail(q)[i].val)
      OBVIOUS
    <3>1. 1 < i + 1 /\ i + 1 \in 1..Len(q)
      BY <1>1
    <3> QED
      BY <1>1, <1>2, <1>4, <3>1 DEF Ordered
  <2>4. Ordered(s, v, Tail(q), cs)
    <3> HIDE DEF v
    <3> QED
      BY <1>3, <2>2, <2>3 DEF Ordered
  <2>5. OutIsSaved(v, p, w)
    <3>1. OutIsSaved(d, p, w)
      BY DEF Unspoiled
    <3>2. d \in States!Sessions \cup {None}
      BY DEF Framed
    <3>3. CASE d = None
      BY <3>1, <3>3, <2>1 DEF OutIsSaved
    <3>4. CASE d # None
      <4>1. Below(d, v) /\ d \in States!Sessions
        BY <3>4, <3>2, <2>2
      <4>2. d.sent <= v.sent /\ d.got \subseteq v.got /\ d.sent \in Nat /\ v.sent \in Nat
        BY <4>1, <2>1, StatesAssumption DEF Below, States!Sessions
      <4>3. \A n \in 1..MaxSent : p[n] > 0 => p[n] = 1 /\ n <= d.sent
        BY <3>1 DEF OutIsSaved
      <4>4. \A n \in 1..MaxSent : p[n] > 0 => p[n] = 1 /\ v # None /\ n <= v.sent
        BY <4>2, <4>3, <2>1, StatesAssumption
      <4> QED
        BY <3>1, <3>4, <4>2, <4>4, <2>1 DEF OutIsSaved
    <3> QED
      BY <3>3, <3>4
  <2> QED
    BY <2>1, <2>2, <2>4, <2>5 DEF Unspoiled
<1> QED
  BY <1>3, <1>4 DEF Unspoiled

LEMMA CallKeeps ==
  ASSUME NEW on, NEW s, NEW d, NEW q, NEW cs, NEW p, NEW w,
         Framed(on, s, d, q, cs), Unspoiled(s, d, q, cs, p, w),
         NEW c \in Handlers, NoneOf(q, c), NEW call, ~Sealing(call)
  PROVE  Unspoiled(s, d, q, [cs EXCEPT ![c] = call], p, w)
<1> DEFINE cs2 == [cs EXCEPT ![c] = call]
<1>1. cs2[c] = call /\ \A g \in Handlers : g # c => cs2[g] = cs[g]
  BY DEF Framed
<1>2. \A i \in 1..Len(q) : q[i].by \in Handlers /\ q[i].by # c
  BY Entries DEF NoneOf, Saves, Framed
<1> HIDE DEF cs2
<1>3. Ordered(s, d, q, cs2)
  <2>1. \A i \in 1..Len(q) : cs2[q[i].by] = cs[q[i].by]
    BY <1>1, <1>2
  <2> QED
    BY <2>1 DEF Unspoiled, Ordered
<1>4. Numbered(s, cs2, p)
  BY <1>1 DEF Unspoiled, Numbered
<1> QED
  BY <1>3, <1>4 DEF Unspoiled, cs2

(* The session is used: what it is now is asked to be saved last.            *)
LEMMA UseKeeps ==
  ASSUME NEW s \in States!Sessions, NEW d, NEW q, NEW cs, NEW p, NEW w,
         Framed(TRUE, s, d, q, cs), Unspoiled(s, d, q, cs, p, w),
         NEW c \in Handlers, NoneOf(q, c), NEW call, CallFits(call, TRUE),
         NEW t \in States!Sessions, Below(s, t), NEW v \in {t, None},
         call.pc \in {"creating", "saving"}, Knows(t, call),
         Sealing(call) => call.num = s.sent + 1 /\ t.sent = s.sent + 1
  PROVE  Unspoiled(t, d, Append(q, States!Put(c, v)), [cs EXCEPT ![c] = call], p, w)
<1> DEFINE cs2 == [cs EXCEPT ![c] = call]
           e == States!Put(c, v)
           q2 == Append(q, e)
<1>1. cs2[c] = call /\ \A g \in Handlers : g # c => cs2[g] = cs[g]
  BY DEF Framed
<1>2. q \in Seq(Saves) /\ d \in States!Sessions \cup {None}
  BY DEF Framed
<1>3. e \in Saves /\ e.what = "put" /\ e.by = c /\ e.val = v
  BY DEF States!Put, Saves
<1>4. \A i \in 1..Len(q) : q[i] \in Saves /\ q[i].by \in Handlers /\ q[i].by # c
  BY Entries, <1>2 DEF NoneOf, Saves
<1>5. /\ Len(q2) = Len(q) + 1 /\ Len(q) \in Nat
      /\ \A i \in 1..Len(q2) : \/ i \in 1..Len(q) /\ q2[i] = q[i]
                               \/ i = Len(q) + 1 /\ q2[i] = e
  BY <1>2, <1>3, Pushed
<1>6. /\ \A i \in 1..Len(q) : Saving(q[i]) =>
           /\ q[i].val \in States!Sessions
           /\ Below(q[i].val, s) /\ Knows(q[i].val, cs[q[i].by])
           /\ d # None => Below(d, q[i].val)
      /\ \A i, j \in 1..Len(q) :
           i < j /\ Saving(q[i]) /\ Saving(q[j]) => Below(q[i].val, q[j].val)
      /\ d # None => Below(d, s)
  <2>1. s # None
    BY SessionSteps
  <2>2. \A i \in 1..Len(q) : Saving(q[i]) => q[i].val \in States!Sessions
    BY <1>4 DEF Saving, Saves
  <2> QED
    BY <2>1, <2>2 DEF Unspoiled, Ordered
<1>7. Saving(e) => e.val = t
  BY <1>3 DEF Saving
<1>8. d # None => Below(d, t)
  BY <1>2, <1>6, BelowAgain
<1>9. \A i \in 1..Len(q) : Saving(q[i]) => Below(q[i].val, t)
  BY <1>6, BelowAgain
<1> HIDE DEF cs2, q2, e
<1>10. \A i \in 1..Len(q2) : Saving(q2[i]) =>
         /\ Below(q2[i].val, t) /\ Knows(q2[i].val, cs2[q2[i].by])
         /\ d # None => Below(d, q2[i].val)
  <2> SUFFICES ASSUME NEW i \in 1..Len(q2), Saving(q2[i])
               PROVE  /\ Below(q2[i].val, t) /\ Knows(q2[i].val, cs2[q2[i].by])
                      /\ d # None => Below(d, q2[i].val)
    OBVIOUS
  <2>1. CASE i \in 1..Len(q) /\ q2[i] = q[i]
    <3>1. cs2[q[i].by] = cs[q[i].by]
      BY <1>1, <1>4, <2>1
    <3> QED
      BY <2>1, <3>1, <1>6, <1>9
  <2>2. CASE i = Len(q) + 1 /\ q2[i] = e
    BY <2>2, <1>1, <1>3, <1>7, <1>8, SessionSteps
  <2> QED
    BY <2>1, <2>2, <1>5
<1>11. \A i, j \in 1..Len(q2) :
         i < j /\ Saving(q2[i]) /\ Saving(q2[j]) => Below(q2[i].val, q2[j].val)
  <2> SUFFICES ASSUME NEW i \in 1..Len(q2), NEW j \in 1..Len(q2),
                      i < j, Saving(q2[i]), Saving(q2[j])
               PROVE  Below(q2[i].val, q2[j].val)
    OBVIOUS
  <2>1. i \in 1..Len(q) /\ q2[i] = q[i]
    BY <1>5
  <2>2. CASE j \in 1..Len(q) /\ q2[j] = q[j]
    BY <2>1, <2>2, <1>6
  <2>3. CASE j = Len(q) + 1 /\ q2[j] = e
    BY <2>1, <2>3, <1>7, <1>9
  <2> QED
    BY <2>2, <2>3, <1>5
<1>12. Ordered(t, d, q2, cs2)
  BY <1>8, <1>10, <1>11 DEF Ordered
<1>13. OutIsSaved(d, p, w) /\ Numbered(s, cs, p)
  BY DEF Unspoiled
<1>14. s.sent \in Nat /\ t.sent \in Nat /\ s.sent <= t.sent
  BY SessionSteps, StatesAssumption DEF Below, States!Sessions
<1>15. \A g \in Handlers : Sealing(cs[g]) => cs[g].num \in 1..MaxSent
  BY DEF Framed, CallFits, Sealing
<1>16. Numbered(t, cs2, p)
  <2>1. Sealing(call) => call.num <= t.sent /\ p[call.num] = 0
    <3> SUFFICES ASSUME Sealing(call) PROVE call.num <= t.sent /\ p[call.num] = 0
      OBVIOUS
    <3>1. call.num = s.sent + 1 /\ t.sent = s.sent + 1 /\ call.num \in 1..MaxSent
      BY DEF CallFits, Sealing
    <3>2. p[call.num] \in 0..2
      BY <3>1, <1>13 DEF OutIsSaved
    <3>3. ~(p[call.num] > 0)
      <4> SUFFICES ASSUME p[call.num] > 0 PROVE FALSE
        OBVIOUS
      <4>1. d # None /\ call.num <= d.sent
        BY <3>1, <1>13 DEF OutIsSaved
      <4>2. d.sent <= s.sent /\ d.sent \in Nat
        BY <4>1, <1>2, <1>6, StatesAssumption DEF Below, States!Sessions
      <4> QED
        BY <3>1, <4>1, <4>2, <1>14
    <3> QED
      BY <3>1, <3>2, <3>3, <1>14
  <2>2. \A g \in Handlers : Sealing(cs2[g]) => cs2[g].num <= t.sent /\ p[cs2[g].num] = 0
    <3> SUFFICES ASSUME NEW g \in Handlers, Sealing(cs2[g])
                 PROVE  cs2[g].num <= t.sent /\ p[cs2[g].num] = 0
      OBVIOUS
    <3>1. CASE g = c
      BY <3>1, <2>1, <1>1
    <3>2. CASE g # c
      BY <3>2, <1>1, <1>13, <1>14, <1>15, StatesAssumption DEF Numbered
    <3> QED
      BY <3>1, <3>2
  <2>3. \A g \in Handlers : g # c /\ Sealing(cs[g]) /\ Sealing(call) => cs[g].num # call.num
    BY <1>13, <1>14, <1>15, StatesAssumption DEF Numbered
  <2>4. \A g, h \in Handlers :
          g # h /\ Sealing(cs2[g]) /\ Sealing(cs2[h]) => cs2[g].num # cs2[h].num
    BY <2>3, <1>1, <1>13 DEF Numbered
  <2> QED
    BY <2>2, <2>4 DEF Numbered
<1> QED
  BY <1>12, <1>13, <1>16 DEF Unspoiled, cs2, q2, e

LEMMA Uses ==
  ASSUME NEW s \in States!Sessions, NEW d, NEW q, NEW cs, Framed(TRUE, s, d, q, cs),
         NEW c \in Handlers, NoneOf(q, c), NEW call, CallFits(call, TRUE),
         NEW t \in States!Sessions, Below(s, t), NEW v \in {t, None},
         call.pc \in {"creating", "saving"}, Knows(t, call),
         Sealing(call) => call.num = s.sent + 1 /\ t.sent = s.sent + 1
  PROVE  /\ Framed(TRUE, t, d, Append(q, States!Put(c, v)), [cs EXCEPT ![c] = call])
         /\ \A p, w : Unspoiled(s, d, q, cs, p, w) =>
              Unspoiled(t, d, Append(q, States!Put(c, v)), [cs EXCEPT ![c] = call], p, w)
<1> DEFINE e == States!Put(c, v)
<1>1. e \in Saves /\ e.by = c /\ e.what = "put"
  BY DEF States!Put, Saves
<1>2. Framed(TRUE, s, d, Append(q, e), [cs EXCEPT ![c] = call])
  <2> HIDE DEF e
  <2> QED
    BY <1>1, PushFrame
<1>3. Framed(TRUE, t, d, Append(q, e), [cs EXCEPT ![c] = call])
  BY <1>2, SessionSteps DEF Framed
<1> QED
  BY <1>3, UseKeeps

(* A call asks for the state on disk.                                        *)
LEMMA AskKeeps ==
  ASSUME NEW on, NEW s, NEW d, NEW q, NEW cs, Framed(on, s, d, q, cs),
         NEW c \in Handlers, NoneOf(q, c), NEW call, CallFits(call, on), call.pc = "loading"
  PROVE  /\ Framed(on, s, d, Append(q, States!Get(c)), [cs EXCEPT ![c] = call])
         /\ \A p, w : Unspoiled(s, d, q, cs, p, w) =>
              Unspoiled(s, d, Append(q, States!Get(c)), [cs EXCEPT ![c] = call], p, w)
<1> DEFINE e == States!Get(c)
           cs2 == [cs EXCEPT ![c] = call]
           q2 == Append(q, e)
<1>1. e \in Saves /\ e.by = c /\ e.what = "get" /\ ~Saving(e)
  BY DEF States!Get, Saves, Saving
<1>2. q \in Seq(Saves)
  BY DEF Framed
<1>3. /\ Len(q2) = Len(q) + 1 /\ Len(q) \in Nat
      /\ \A i \in 1..Len(q2) : \/ i \in 1..Len(q) /\ q2[i] = q[i]
                               \/ i = Len(q) + 1 /\ q2[i] = e
  <2> HIDE DEF e
  <2> QED
    BY <1>1, <1>2, Pushed
<1>4. Framed(on, s, d, q2, cs2)
  <2> HIDE DEF e
  <2> QED
    BY <1>1, PushFrame
<1>5. ASSUME NEW p, NEW w, Unspoiled(s, d, q, cs, p, w)
      PROVE  Unspoiled(s, d, q2, cs2, p, w)
  <2>1. Unspoiled(s, d, q, cs2, p, w)
    <3>1. ~Sealing(call)
      BY DEF Sealing
    <3> QED
      BY <1>5, <3>1, CallKeeps
  <2>2. \A i \in 1..Len(q2) : Saving(q2[i]) => i \in 1..Len(q) /\ q2[i] = q[i]
    <3> HIDE DEF q2, e
    <3> QED
      BY <1>1, <1>3
  <2> HIDE DEF q2, cs2, e
  <2>3. Ordered(s, d, q2, cs2)
    BY <2>1, <2>2 DEF Unspoiled, Ordered
  <2> QED
    BY <2>1, <2>3 DEF Unspoiled
<1> QED
  BY <1>4, <1>5

(* With no session nothing is being saved: one may be put in its place that  *)
(* knows what is on disk.                                                    *)
LEMMA Restored ==
  ASSUME NEW r, NEW d, NEW q, NEW cs, Framed(FALSE, r, d, q, cs),
         NEW s \in States!Sessions, NEW p, NEW w, OutIsSaved(d, p, w),
         d # None => Below(d, s)
  PROVE  Unspoiled(s, d, q, cs, p, w)
<1>1. \A c \in Handlers : cs[c].pc \notin {"creating", "saving"}
  BY DEF Framed, CallFits
<1>2. \A i \in 1..Len(q) : q[i] \in Saves
  BY Entries DEF Framed
<1>3. \A i \in 1..Len(q) : ~Saving(q[i])
  <2> SUFFICES ASSUME NEW i \in 1..Len(q), q[i].what = "put" PROVE FALSE
    BY DEF Saving
  <2>1. q[i].by \in Handlers
    BY <1>2 DEF Saves
  <2>2. cs[q[i].by].pc \in {"creating", "saving"}
    BY DEF Framed, Awaits
  <2> QED
    BY <1>1, <2>1, <2>2
<1>4. Ordered(s, d, q, cs)
  BY <1>3 DEF Ordered
<1>5. Numbered(s, cs, p)
  BY <1>1 DEF Numbered, Sealing
<1> QED
  BY <1>4, <1>5 DEF Unspoiled

LEMMA Reframed ==
  ASSUME NEW on, NEW r, NEW d, NEW q, NEW cs, Framed(on, r, d, q, cs), NEW s \in States!Sessions
  PROVE  Framed(TRUE, s, d, q, cs)
  BY SessionSteps DEF Framed, CallFits

(* A call that ends, gives way or fails.                                     *)
LEMMA IdleFits ==
  ASSUME NEW on
  PROVE  CallFits(States!Idle, on) /\ ~Sealing(States!Idle)
  BY StatesAssumption DEF CallFits, States!Idle, CallRecords, Sealing

LEMMA OperateKeeps ==
  ASSUME NEW c \in Handlers, NEW s \in States!Sessions, NEW d, NEW q,
         Framed(TRUE, s, d, q, statesCalls), NoneOf(q, c), statesCalls[c].pc # "idle",
         States!Operate(c, s, q)
  PROVE  /\ Framed(TRUE, session', d, idb', statesCalls')
         /\ \A p, w : Unspoiled(s, d, q, statesCalls, p, w) =>
              Unspoiled(session', d, idb', statesCalls', p, w)
<1> DEFINE Goal == /\ Framed(TRUE, session', d, idb', statesCalls')
                   /\ \A p, w : Unspoiled(s, d, q, statesCalls, p, w) =>
                        Unspoiled(session', d, idb', statesCalls', p, w)
<1>1. statesCalls \in [Handlers -> CallRecords] /\ CallFits(statesCalls[c], TRUE)
  BY DEF Framed
<1>2. ASSUME session' = s, States!Ends(c), idb' = q PROVE Goal
  <2>1. statesCalls' = [statesCalls EXCEPT ![c] = States!Idle]
    BY <1>2 DEF States!Ends
  <2> QED
    BY <1>2, <2>1, IdleFits, CallFrame, CallKeeps
<1>3. ASSUME statesCalls[c].kind # "none", s.sent < MaxSent PROVE Goal
  <2> DEFINE t == [s EXCEPT !.sent = @ + 1]
             call == [statesCalls[c] EXCEPT !.pc = "saving", !.num = t.sent]
             v == IF unlocked THEN t ELSE None
  <2>1. /\ session' = t /\ statesCalls' = [statesCalls EXCEPT ![c] = call]
        /\ idb' = Append(q, States!Put(c, v))
    <3>1. /\ session' = t
          /\ statesCalls' = [statesCalls EXCEPT ![c].pc = "saving", ![c].num = t.sent]
          /\ idb' = Append(q, States!Put(c, v))
      BY <1>3 DEF States!Operate, States!Seal, States!Persist
    <3>2. [statesCalls EXCEPT ![c].pc = "saving", ![c].num = t.sent] = [statesCalls EXCEPT ![c] = call]
      <4> DEFINE f == [statesCalls EXCEPT ![c].pc = "saving", ![c].num = t.sent]
                 f2 == [statesCalls EXCEPT ![c] = call]
      <4>1. \A g \in Handlers : f[g] = f2[g]
        <5> HIDE DEF t
        <5> SUFFICES ASSUME NEW g \in Handlers PROVE f[g] = f2[g]
          OBVIOUS
        <5>1. CASE g = c
          BY <5>1, <1>1
        <5>2. CASE g # c
          BY <5>2, <1>1
        <5> QED
          BY <5>1, <5>2
      <4>2. f \in [Handlers -> {f[g] : g \in Handlers}] /\ f2 \in [Handlers -> {f2[g] : g \in Handlers}]
        BY <1>1
      <4> HIDE DEF f, f2
      <4>3. f = f2
        BY <4>1, <4>2
      <4> QED
        BY <4>3 DEF f, f2
    <3> QED
      BY <3>1, <3>2
  <2>2. /\ t \in States!Sessions /\ Below(s, t) /\ t.sent = s.sent + 1
        /\ t.sent \in 1..MaxSent /\ t.sent <= t.sent
    BY <1>3, SessionSteps, StatesAssumption
  <2>3. call \in CallRecords /\ call.pc = "saving" /\ call.kind # "none" /\ call.num = t.sent
    <3>1. t.sent \in Numbers \cup 0..MaxSent
      BY <2>2
    <3> HIDE DEF t
    <3> QED
      BY <1>1, <1>3, <3>1 DEF CallRecords
  <2>4. v \in {t, None}
    OBVIOUS
  <2> HIDE DEF t, call, v
  <2>5. CallFits(call, TRUE) /\ Knows(t, call)
    BY <2>2, <2>3 DEF CallFits, Knows
  <2> QED
    BY <2>1, <2>2, <2>3, <2>4, <2>5, Uses
<1>4. ASSUME statesCalls[c].kind = "none", statesCalls[c].num \notin s.got PROVE Goal
  <2> DEFINE n == statesCalls[c].num
             t == [s EXCEPT !.got = @ \cup {n}]
             call == [statesCalls[c] EXCEPT !.pc = "saving"]
             v == IF unlocked THEN t ELSE None
  <2>1. /\ session' = t /\ statesCalls' = [statesCalls EXCEPT ![c] = call]
        /\ idb' = Append(q, States!Put(c, v))
    <3>1. /\ session' = t
          /\ statesCalls' = [statesCalls EXCEPT ![c].pc = "saving"]
          /\ idb' = Append(q, States!Put(c, v))
      BY <1>4 DEF States!Operate, States!Open, States!Persist, States!At
    <3>2. [statesCalls EXCEPT ![c].pc = "saving"] = [statesCalls EXCEPT ![c] = call]
      BY <1>1
    <3> QED
      BY <3>1, <3>2
  <2>2. n \in Numbers
    BY <1>1, <1>4 DEF CallFits
  <2>3. t \in States!Sessions /\ Below(s, t) /\ n \in t.got
    BY <2>2, SessionSteps
  <2>4. call \in CallRecords /\ call.pc = "saving" /\ call.kind = "none" /\ call.num = n
    BY <1>1, <1>4 DEF CallRecords
  <2>5. v \in {t, None}
    OBVIOUS
  <2> HIDE DEF t, call, v, n
  <2>6. CallFits(call, TRUE) /\ Knows(t, call) /\ ~Sealing(call)
    BY <2>2, <2>3, <2>4 DEF CallFits, Knows, Sealing
  <2> QED
    BY <2>1, <2>3, <2>4, <2>5, <2>6, Uses
<1>5. ASSUME statesCalls[c].kind # "none", ~(s.sent < MaxSent) PROVE Goal
  <2>1. session' = s /\ States!Ends(c) /\ idb' = q
    BY <1>5 DEF States!Operate, States!Seal
  <2> QED
    BY <1>2, <2>1
<1>6. ASSUME statesCalls[c].kind = "none", statesCalls[c].num \in s.got PROVE Goal
  <2>1. session' = s /\ States!Ends(c) /\ idb' = q
    BY <1>6 DEF States!Operate, States!Open
  <2> QED
    BY <1>2, <2>1
<1> HIDE DEF Goal
<1>7. Goal
  BY <1>3, <1>4, <1>5, <1>6, Zenon
<1> QED
  BY <1>7 DEF Goal

-----------------------------------------------------------------------------
LEMMA StatesInit == States!Init => StatesInv
<1> SUFFICES ASSUME States!Init PROVE StatesInv
  OBVIOUS
<1> USE DEF States!Init
<1>1. Flags /\ States!KeysAreSealed
  <2>1. posted \in [1..MaxSent -> 0..2]
    BY StatesAssumption
  <2> QED
    BY <2>1, StatesAssumption DEF Flags, States!KeysAreSealed, States!Carriers
<1>2. Framed(cached, session, statesDisk, idb, statesCalls)
  <2>1. idb \in Seq(Saves) /\ Len(idb) = 0
    <3>1. idb = <<>> /\ <<>> \in Seq(Saves)
      OBVIOUS
    <3> QED
      BY <3>1
  <2>2. \A c \in Handlers : CallFits(statesCalls[c], cached)
    BY IdleFits
  <2>3. statesCalls \in [Handlers -> CallRecords]
    BY IdleFits DEF CallFits
  <2>4. Awaits(idb, statesCalls) /\ OneEach(idb)
    BY <2>1 DEF Awaits, OneEach
  <2>5. cached = FALSE /\ session = None /\ statesDisk = None
    OBVIOUS
  <2> QED
    BY <2>1, <2>2, <2>3, <2>4, <2>5 DEF Framed
<1>3. Unspoiled(session, statesDisk, idb, statesCalls, posted, shown)
  BY <1>1, StatesAssumption DEF Unspoiled, Ordered, Numbered, OutIsSaved, Sealing, States!Idle, Flags
<1> QED
  BY <1>1, <1>2, <1>3 DEF StatesInv

(* What is handed on by a call that has something to hand on.                *)
LEMMA HandedOnTyped ==
  ASSUME StatesInv, NEW c \in Handlers, statesCalls[c].pc = "saving", States!HandedOn(c)
  PROVE  /\ posted' \in [1..MaxSent -> 0..2] /\ shown' \subseteq Numbers
         /\ States!KeysAreSealed'
<1>1. CallFits(statesCalls[c], cached) /\ Flags /\ States!KeysAreSealed
  BY DEF StatesInv, Framed
<1>2. CASE statesCalls[c].kind = "none"
  <2>1. statesCalls[c].num \in Numbers
    BY <1>1, <1>2 DEF CallFits
  <2> QED
    BY <1>1, <1>2, <2>1 DEF States!HandedOn, Flags, States!KeysAreSealed
<1>3. CASE statesCalls[c].kind # "none"
  <2>1. statesCalls[c].num \in 1..MaxSent /\ statesCalls[c].kind \in {"message", "key"}
    BY <1>1, <1>3 DEF CallFits, CallRecords
  <2>2. /\ posted' = [posted EXCEPT ![statesCalls[c].num] = IF @ = 2 THEN 2 ELSE @ + 1]
        /\ envelope' = <<statesCalls[c].kind, "v2">> /\ shown' = shown
    BY <1>3 DEF States!HandedOn
  <2>3. posted' \in [1..MaxSent -> 0..2]
    BY <1>1, <2>1, <2>2 DEF Flags
  <2> QED
    BY <1>1, <2>1, <2>2, <2>3 DEF Flags, States!KeysAreSealed
<1> QED
  BY <1>2, <1>3

LEMMA HandedOnKeeps ==
  ASSUME StatesInv, NEW c \in Handlers, statesCalls[c].pc = "saving", States!HandedOn(c),
         NEW s, NEW v \in States!Sessions, NEW q, Framed(cached, s, v, q, statesCalls),
         NoneOf(q, c), Knows(v, statesCalls[c]),
         Unspoiled(s, v, q, statesCalls, posted, shown)
  PROVE  Unspoiled(s, v, q, [statesCalls EXCEPT ![c] = States!Idle], posted', shown')
<1> DEFINE cs2 == [statesCalls EXCEPT ![c] = States!Idle]
<1>1. CallFits(statesCalls[c], cached) /\ statesCalls \in [Handlers -> CallRecords]
  BY DEF Framed
<1>2. posted' \in [1..MaxSent -> 0..2] /\ shown' \subseteq Numbers
  BY HandedOnTyped
<1>3. Unspoiled(s, v, q, cs2, posted, shown)
  BY IdleFits, CallKeeps
<1>4. v # None /\ v.sent \in 0..MaxSent /\ v.got \subseteq Numbers
  BY SessionSteps
<1>5. OutIsSaved(v, posted, shown) /\ Numbered(s, statesCalls, posted)
  BY DEF Unspoiled
<1>6. CASE statesCalls[c].kind = "none"
  <2>1. statesCalls[c].num \in v.got
    BY <1>6 DEF Knows
  <2>2. shown' = shown \cup {statesCalls[c].num} /\ posted' = posted
    BY <1>6 DEF States!HandedOn
  <2>3. OutIsSaved(v, posted', shown')
    BY <1>2, <1>4, <1>5, <2>1, <2>2 DEF OutIsSaved
  <2> QED
    BY <1>3, <2>2, <2>3 DEF Unspoiled
<1>7. CASE statesCalls[c].kind # "none"
  <2> DEFINE n == statesCalls[c].num
  <2>1. n \in 1..MaxSent /\ n <= v.sent /\ Sealing(statesCalls[c])
    BY <1>1, <1>7 DEF CallFits, Knows, Sealing
  <2>2. posted[n] = 0 /\ posted \in [1..MaxSent -> 0..2]
    BY <1>5, <2>1 DEF Numbered, OutIsSaved
  <2>3. posted' = [posted EXCEPT ![n] = 1] /\ shown' = shown
    BY <1>7, <2>2 DEF States!HandedOn
  <2>4. \A g \in Handlers : Sealing(cs2[g]) => g # c /\ cs2[g] = statesCalls[g]
    BY <1>1, IdleFits
  <2>5. \A g \in Handlers : Sealing(cs2[g]) => cs2[g].num # n /\ cs2[g].num \in 1..MaxSent
    <3>1. \A g \in Handlers : Sealing(statesCalls[g]) => statesCalls[g].num \in 1..MaxSent
      BY DEF Framed, CallFits, Sealing
    <3> QED
      BY <2>1, <2>4, <1>5, <3>1 DEF Numbered
  <2> HIDE DEF n, cs2
  <2>6. OutIsSaved(v, posted', shown')
    BY <1>2, <1>4, <1>5, <2>1, <2>2, <2>3 DEF OutIsSaved
  <2>7. Numbered(s, cs2, posted')
    <3>1. Numbered(s, cs2, posted)
      BY <1>3 DEF Unspoiled
    <3> QED
      BY <2>2, <2>3, <2>5, <3>1 DEF Numbered
  <2> QED
    BY <1>3, <2>6, <2>7 DEF Unspoiled, cs2
<1> QED
  BY <1>6, <1>7

-----------------------------------------------------------------------------
(* The actions.                                                              *)
LEMMA PlainKeeps ==
  ASSUME StatesInv, NEW c \in Handlers, NEW k, States!SendPlain(c, k)
  PROVE  StatesInv'
<1>1. /\ UNCHANGED <<cached, session, statesDisk, idb, shared, unlocked, statesCalls, posted, shown, spoiled>>
      /\ envelope' = <<k, States!Direct(k)>> /\ k \in {"accept", "request"}
  BY DEF States!SendPlain, States!wasm
<1>2. States!KeysAreSealed'
  BY <1>1 DEF States!KeysAreSealed, States!Carriers, States!Direct
<1> QED
  BY <1>1, <1>2 DEF StatesInv, Flags

LEMMA BeginKeeps ==
  ASSUME StatesInv, NEW c \in Handlers, NEW call, statesCalls[c] = States!Idle,
         States!Obtain(c, call), CallFits([call EXCEPT !.pc = "loading"], cached),
         [call EXCEPT !.pc = "loading"].pc = "loading",
         UNCHANGED <<cached, session, statesDisk, shared, unlocked, posted, envelope, shown, spoiled>>
  PROVE  StatesInv'
<1>1. /\ statesCalls' = [statesCalls EXCEPT ![c] = [call EXCEPT !.pc = "loading"]]
      /\ idb' = Append(idb, States!Get(c))
  BY DEF States!Obtain
<1>2. Framed(cached, session, statesDisk, idb, statesCalls)
  BY DEF StatesInv
<1>3. NoneOf(idb, c)
  <2>1. statesCalls[c].pc \notin {"loading", "creating", "saving"}
    BY DEF States!Idle
  <2> QED
    BY <1>2, <2>1, NothingAsked
<1>4. Framed(cached, session, statesDisk, idb', statesCalls')
  BY <1>1, <1>2, <1>3, AskKeeps
<1>5. Unspoiled(session, statesDisk, idb, statesCalls, posted, shown) =>
        Unspoiled(session, statesDisk, idb', statesCalls', posted, shown)
  BY <1>1, <1>2, <1>3, AskKeeps
<1>6. (Flags /\ States!KeysAreSealed)'
  BY DEF StatesInv, Flags, States!KeysAreSealed
<1> QED
  BY <1>4, <1>5, <1>6 DEF StatesInv

LEMMA SendBeginKeeps ==
  ASSUME StatesInv, NEW c \in Handlers, NEW k, States!SendBegin(c, k)
  PROVE  StatesInv'
<1> DEFINE call == [States!Idle EXCEPT !.kind = k]
<1>1. CallFits([call EXCEPT !.pc = "loading"], cached) /\ [call EXCEPT !.pc = "loading"].pc = "loading"
  <2>1. [call EXCEPT !.pc = "loading"] = [pc |-> "loading", kind |-> k, num |-> 0]
    <3>1. call = [pc |-> "idle", kind |-> k, num |-> 0]
      BY DEF States!Idle
    <3> HIDE DEF call
    <3> QED
      BY <3>1
  <2>2. k \in {"message", "key"} /\ 0 \in 0..MaxSent
    BY StatesAssumption DEF States!SendBegin
  <2> QED
    BY <2>1, <2>2 DEF CallFits, CallRecords
<1>2. /\ statesCalls[c] = States!Idle /\ States!Obtain(c, call)
      /\ UNCHANGED <<cached, session, statesDisk, shared, unlocked, posted, envelope, shown, spoiled>>
  BY DEF States!SendBegin, States!wasm, States!out
<1> QED
  BY <1>1, <1>2, BeginKeeps

LEMMA OpenBeginKeeps ==
  ASSUME StatesInv, NEW c \in Handlers, NEW n \in Numbers, States!OpenBegin(c, n)
  PROVE  StatesInv'
<1> DEFINE call == [States!Idle EXCEPT !.num = n]
<1>1. CallFits([call EXCEPT !.pc = "loading"], cached) /\ [call EXCEPT !.pc = "loading"].pc = "loading"
  BY DEF States!Idle, CallFits, CallRecords
<1>2. /\ statesCalls[c] = States!Idle /\ States!Obtain(c, call)
      /\ UNCHANGED <<cached, session, statesDisk, shared, unlocked, posted, envelope, shown, spoiled>>
  BY DEF States!OpenBegin, States!wasm, States!out
<1> QED
  BY <1>1, <1>2, BeginKeeps

(* The cached session is used at once.                                       *)
LEMMA AtOnceKeeps ==
  ASSUME StatesInv, NEW c \in Handlers, statesCalls[c] = States!Idle, cached,
         NEW t \in States!Sessions, Below(session, t), NEW call, CallFits(call, TRUE),
         call.pc = "saving", Knows(t, call),
         Sealing(call) => call.num = session.sent + 1 /\ t.sent = session.sent + 1,
         session' = t, statesCalls' = [statesCalls EXCEPT ![c] = call],
         States!Persist(c, t, idb),
         UNCHANGED <<cached, statesDisk, shared, unlocked, posted, envelope, shown, spoiled>>
  PROVE  StatesInv'
<1> DEFINE v == IF unlocked THEN t ELSE None
<1>1. idb' = Append(idb, States!Put(c, v)) /\ v \in {t, None}
  BY DEF States!Persist
<1> HIDE DEF v
<1>2. Framed(cached, session, statesDisk, idb, statesCalls)
  BY DEF StatesInv
<1>3. session \in States!Sessions /\ Framed(TRUE, session, statesDisk, idb, statesCalls) /\ cached = TRUE
  BY <1>2 DEF Framed
<1>4. NoneOf(idb, c)
  <2>1. statesCalls[c].pc \notin {"loading", "creating", "saving"}
    BY DEF States!Idle
  <2> QED
    BY <1>2, <2>1, NothingAsked
<1>5. /\ Framed(TRUE, t, statesDisk, idb', statesCalls')
      /\ \A p, w : Unspoiled(session, statesDisk, idb, statesCalls, p, w) =>
           Unspoiled(t, statesDisk, idb', statesCalls', p, w)
  BY <1>1, <1>3, <1>4, Uses
<1>6. (Flags /\ States!KeysAreSealed)'
  BY DEF StatesInv, Flags, States!KeysAreSealed
<1> QED
  BY <1>3, <1>5, <1>6 DEF StatesInv

LEMMA SendCachedKeeps ==
  ASSUME StatesInv, NEW c \in Handlers, NEW k, States!SendCached(c, k)
  PROVE  StatesInv'
<1> DEFINE t == [session EXCEPT !.sent = @ + 1]
           call == [pc |-> "saving", kind |-> k, num |-> t.sent]
<1>1. session \in States!Sessions
  BY DEF StatesInv, Framed, States!SendCached
<1>2. /\ statesCalls[c] = States!Idle /\ cached /\ session.sent < MaxSent /\ k \in {"message", "key"}
      /\ session' = t /\ statesCalls' = [statesCalls EXCEPT ![c] = call]
      /\ States!Persist(c, t, idb)
      /\ UNCHANGED <<cached, statesDisk, shared, unlocked, posted, envelope, shown, spoiled>>
  BY DEF States!SendCached, States!out
<1>3. t \in States!Sessions /\ Below(session, t) /\ t.sent = session.sent + 1 /\ t.sent \in 1..MaxSent
  BY <1>1, <1>2, SessionSteps
<1> HIDE DEF t
<1>4. CallFits(call, TRUE) /\ call.pc = "saving" /\ Knows(t, call) /\ call.num = t.sent
  BY <1>2, <1>3, StatesAssumption DEF CallFits, CallRecords, Knows
<1> HIDE DEF call
<1> QED
  BY <1>2, <1>3, <1>4, AtOnceKeeps

LEMMA OpenCachedKeeps ==
  ASSUME StatesInv, NEW c \in Handlers, NEW n \in Numbers, States!OpenCached(c, n)
  PROVE  StatesInv'
<1> DEFINE t == [session EXCEPT !.got = @ \cup {n}]
           call == [pc |-> "saving", kind |-> "none", num |-> n]
<1>1. session \in States!Sessions
  BY DEF StatesInv, Framed, States!OpenCached
<1>2. /\ statesCalls[c] = States!Idle /\ cached
      /\ session' = t /\ statesCalls' = [statesCalls EXCEPT ![c] = call]
      /\ States!Persist(c, t, idb)
      /\ UNCHANGED <<cached, statesDisk, shared, unlocked, posted, envelope, shown, spoiled>>
  BY DEF States!OpenCached, States!out
<1>3. t \in States!Sessions /\ Below(session, t) /\ n \in t.got
  BY <1>1, SessionSteps
<1> HIDE DEF t
<1>4. CallFits(call, TRUE) /\ call.pc = "saving" /\ Knows(t, call) /\ ~Sealing(call)
  BY <1>3 DEF CallFits, CallRecords, Knows, Sealing
<1> HIDE DEF call
<1> QED
  BY <1>2, <1>3, <1>4, AtOnceKeeps

(* The answer of IndexedDB is of a call that awaits it.                      *)
LEMMA Answered ==
  ASSUME StatesInv, NEW c \in Handlers, NEW what \in {"get", "put"}, States!Completes(c, what)
  PROVE  /\ idb # <<>> /\ Head(idb).by = c /\ Head(idb).what = what
         /\ statesCalls[c].pc \in (IF what = "get" THEN {"loading"} ELSE {"creating", "saving"})
         /\ statesCalls[c].pc \in {"creating", "saving"} => cached = TRUE /\ session \in States!Sessions
         /\ Framed(cached, session, statesDisk, idb, statesCalls)
         /\ Framed(cached, session, statesDisk, Tail(idb), statesCalls)
         /\ NoneOf(Tail(idb), c) /\ Head(idb) \in Saves
         /\ ~spoiled => Unspoiled(session, statesDisk, idb, statesCalls, posted, shown)
         /\ ~spoiled => Unspoiled(session, statesDisk, Tail(idb), statesCalls, posted, shown)
<1>1. idb # <<>> /\ Head(idb).by = c /\ Head(idb).what = what
  BY DEF States!Completes
<1>2. Framed(cached, session, statesDisk, idb, statesCalls)
  BY DEF StatesInv
<1>3. /\ Framed(cached, session, statesDisk, Tail(idb), statesCalls)
      /\ NoneOf(Tail(idb), c) /\ Head(idb) \in Saves
  BY <1>1, <1>2, PopFrame
<1>4. Head(idb) = idb[1] /\ 1 \in 1..Len(idb)
  BY <1>1, <1>2, Popped DEF Framed
<1>5. statesCalls[c].pc \in (IF what = "get" THEN {"loading"} ELSE {"creating", "saving"})
  BY <1>1, <1>2, <1>4 DEF Framed, Awaits
<1>6. statesCalls[c].pc \in {"creating", "saving"} => cached = TRUE /\ session \in States!Sessions
  BY <1>2 DEF Framed, CallFits
<1>7. ~spoiled => Unspoiled(session, statesDisk, idb, statesCalls, posted, shown)
  BY DEF StatesInv
<1>8. ~spoiled => Unspoiled(session, statesDisk, Tail(idb), statesCalls, posted, shown)
  BY <1>1, <1>2, <1>7, PopKeeps
<1> QED
  BY <1>1, <1>2, <1>3, <1>5, <1>6, <1>7, <1>8

LEMMA NotFoundKeeps ==
  ASSUME StatesInv, NEW c \in Handlers, States!NotFound(c)
  PROVE  StatesInv'
<1>1. /\ idb' = Tail(idb) /\ statesCalls' = [statesCalls EXCEPT ![c].pc = "resolving"]
      /\ States!Completes(c, "get")
      /\ UNCHANGED <<cached, session, statesDisk, shared, unlocked, posted, envelope, shown, spoiled>>
  BY DEF States!NotFound, States!At, States!wasm, States!out
<1>2. /\ Framed(cached, session, statesDisk, Tail(idb), statesCalls) /\ NoneOf(Tail(idb), c)
      /\ ~spoiled => Unspoiled(session, statesDisk, Tail(idb), statesCalls, posted, shown)
      /\ statesCalls[c].pc = "loading"
  BY <1>1, Answered
<1> DEFINE call == [statesCalls[c] EXCEPT !.pc = "resolving"]
<1>3. statesCalls \in [Handlers -> CallRecords] /\ CallFits(statesCalls[c], cached)
  BY <1>2 DEF Framed
<1>4. CallFits(call, cached) /\ ~Sealing(call)
  <2>1. call \in CallRecords /\ call.pc = "resolving"
    BY <1>3 DEF CallRecords
  <2>2. call.kind = statesCalls[c].kind /\ call.num = statesCalls[c].num
    BY <1>3 DEF CallRecords
  <2> HIDE DEF call
  <2> QED
    BY <1>2, <1>3, <2>1, <2>2 DEF CallFits, CallRecords, Sealing
<1>5. statesCalls' = [statesCalls EXCEPT ![c] = call]
  BY <1>1
<1> HIDE DEF call
<1>9. idb' = Tail(idb)
  BY <1>1
<1>6. Framed(cached, session, statesDisk, idb', statesCalls')
  BY <1>9, <1>2, <1>4, <1>5, CallFrame
<1>7. ~spoiled => Unspoiled(session, statesDisk, idb', statesCalls', posted, shown)
  BY <1>9, <1>2, <1>4, <1>5, CallKeeps
<1>8. (Flags /\ States!KeysAreSealed)'
  BY <1>1 DEF StatesInv, Flags, States!KeysAreSealed
<1> QED
  BY <1>1, <1>6, <1>7, <1>8 DEF StatesInv

LEMMA ImportedKeeps ==
  ASSUME StatesInv, NEW c \in Handlers, States!Imported(c)
  PROVE  StatesInv'
<1>1. /\ States!Completes(c, "get") /\ statesDisk # None
      /\ cached' = TRUE /\ spoiled' = (spoiled \/ cached)
      /\ States!Operate(c, statesDisk, Tail(idb))
      /\ UNCHANGED <<statesDisk, shared, unlocked, posted, envelope, shown>>
  BY DEF States!Imported, States!out
<1>2. /\ Framed(cached, session, statesDisk, Tail(idb), statesCalls) /\ NoneOf(Tail(idb), c)
      /\ ~spoiled => Unspoiled(session, statesDisk, Tail(idb), statesCalls, posted, shown)
      /\ statesCalls[c].pc = "loading"
  BY <1>1, Answered
<1>3. statesDisk \in States!Sessions /\ cached \in BOOLEAN
  BY <1>1, <1>2 DEF Framed
<1>4. Framed(TRUE, statesDisk, statesDisk, Tail(idb), statesCalls)
  BY <1>2, <1>3, Reframed
<1>5. /\ Framed(TRUE, session', statesDisk, idb', statesCalls')
      /\ \A p, w : Unspoiled(statesDisk, statesDisk, Tail(idb), statesCalls, p, w) =>
           Unspoiled(session', statesDisk, idb', statesCalls', p, w)
  <2>1. statesCalls[c].pc # "idle"
    BY <1>2
  <2> QED
    BY <1>1, <1>2, <1>3, <1>4, <2>1, OperateKeeps
<1>6. ASSUME ~spoiled' PROVE Unspoiled(session', statesDisk, idb', statesCalls', posted, shown)
  <2>1. ~spoiled /\ cached = FALSE
    BY <1>1, <1>3, <1>6
  <2>2. Framed(FALSE, session, statesDisk, Tail(idb), statesCalls) /\ OutIsSaved(statesDisk, posted, shown)
    BY <1>2, <2>1 DEF Unspoiled
  <2>3. Unspoiled(statesDisk, statesDisk, Tail(idb), statesCalls, posted, shown)
    BY <1>3, <2>2, Restored, SessionSteps
  <2> QED
    BY <1>5, <2>3
<1>7. (Flags /\ States!KeysAreSealed)'
  BY <1>1, <1>3 DEF StatesInv, Flags, States!KeysAreSealed
<1> QED
  BY <1>1, <1>5, <1>6, <1>7 DEF StatesInv

LEMMA CreatedKeeps ==
  ASSUME StatesInv, NEW c \in Handlers, States!Created(c)
  PROVE  StatesInv'
<1> DEFINE v == IF unlocked THEN States!Fresh ELSE None
           call == [statesCalls[c] EXCEPT !.pc = "creating"]
<1>1. /\ statesCalls[c].pc = "resolving" /\ session' = States!Fresh /\ cached' = TRUE
      /\ spoiled' = (spoiled \/ cached \/ statesDisk # None)
      /\ statesCalls' = [statesCalls EXCEPT ![c].pc = "creating"]
      /\ idb' = Append(idb, States!Put(c, v))
      /\ UNCHANGED <<statesDisk, shared, unlocked, posted, envelope, shown>>
  BY DEF States!Created, States!At, States!Persist, States!out
<1>2. Framed(cached, session, statesDisk, idb, statesCalls)
  BY DEF StatesInv
<1>3. /\ statesCalls \in [Handlers -> CallRecords] /\ CallFits(statesCalls[c], cached)
      /\ cached \in BOOLEAN
  BY <1>2 DEF Framed
<1>4. States!Fresh \in States!Sessions
  BY StatesAssumption DEF States!Fresh, States!Sessions
<1>5. Framed(TRUE, States!Fresh, statesDisk, idb, statesCalls)
  BY <1>2, <1>4, Reframed
<1>6. NoneOf(idb, c)
  <2>1. statesCalls[c].pc \notin {"loading", "creating", "saving"}
    BY <1>1
  <2> QED
    BY <1>2, <2>1, NothingAsked
<1>7. /\ CallFits(call, TRUE) /\ ~Sealing(call) /\ call.pc = "creating"
      /\ Knows(States!Fresh, call)
  BY <1>1, <1>3 DEF CallFits, CallRecords, Sealing, Knows
<1>8. statesCalls' = [statesCalls EXCEPT ![c] = call]
  BY <1>1, <1>3
<1>9. v \in {States!Fresh, None} /\ Below(States!Fresh, States!Fresh)
  BY <1>4, SessionSteps
<1> HIDE DEF v, call
<1>10. /\ Framed(TRUE, States!Fresh, statesDisk, idb', statesCalls')
       /\ \A p, w : Unspoiled(States!Fresh, statesDisk, idb, statesCalls, p, w) =>
            Unspoiled(States!Fresh, statesDisk, idb', statesCalls', p, w)
  <2>1. call.pc \in {"creating", "saving"}
    BY <1>7
  <2> QED
    <3>1. /\ Framed(TRUE, States!Fresh, statesDisk, Append(idb, States!Put(c, v)), [statesCalls EXCEPT ![c] = call])
          /\ \A p, w : Unspoiled(States!Fresh, statesDisk, idb, statesCalls, p, w) =>
               Unspoiled(States!Fresh, statesDisk, Append(idb, States!Put(c, v)), [statesCalls EXCEPT ![c] = call], p, w)
      BY <1>4, <1>5, <1>6, <1>7, <1>9, <2>1, Uses
    <3>2. idb' = Append(idb, States!Put(c, v))
      BY <1>1
    <3> QED
      BY <3>1, <3>2, <1>8
<1>11. ASSUME ~spoiled' PROVE Unspoiled(States!Fresh, statesDisk, idb', statesCalls', posted, shown)
  <2>1. ~spoiled /\ cached = FALSE /\ statesDisk = None
    BY <1>1, <1>3, <1>11
  <2>2. Framed(FALSE, session, statesDisk, idb, statesCalls) /\ OutIsSaved(statesDisk, posted, shown)
    BY <1>2, <2>1 DEF StatesInv, Unspoiled
  <2>3. Unspoiled(States!Fresh, statesDisk, idb, statesCalls, posted, shown)
    BY <1>4, <2>1, <2>2, Restored
  <2> QED
    BY <1>10, <2>3
<1>12. (Flags /\ States!KeysAreSealed)'
  BY <1>1, <1>3 DEF StatesInv, Flags, States!KeysAreSealed
<1> QED
  BY <1>1, <1>10, <1>11, <1>12 DEF StatesInv

LEMMA NoRatchetKeeps ==
  ASSUME StatesInv, NEW c \in Handlers, States!NoRatchet(c)
  PROVE  StatesInv'
<1>1. /\ statesCalls[c].pc = "resolving"
      /\ envelope' = IF statesCalls[c].kind = "none" THEN envelope
                     ELSE <<statesCalls[c].kind, States!Fallback(statesCalls[c].kind)>>
      /\ statesCalls' = [statesCalls EXCEPT ![c] = States!Idle]
      /\ UNCHANGED <<cached, session, statesDisk, idb, shared, unlocked, posted, shown, spoiled>>
  BY DEF States!NoRatchet, States!Ends, States!wasm
<1>2. Framed(cached, session, statesDisk, idb, statesCalls)
  BY DEF StatesInv
<1>3. NoneOf(idb, c)
  <2>1. statesCalls[c].pc \notin {"loading", "creating", "saving"}
    BY <1>1
  <2> QED
    BY <1>2, <2>1, NothingAsked
<1>4. Framed(cached, session, statesDisk, idb, statesCalls')
  BY <1>1, <1>2, <1>3, IdleFits, CallFrame
<1>5. ~spoiled => Unspoiled(session, statesDisk, idb, statesCalls', posted, shown)
  BY <1>1, <1>2, <1>3, IdleFits, CallKeeps DEF StatesInv
<1>6. States!KeysAreSealed'
  <2>1. statesCalls[c].kind \in {"message", "key", "none"}
    BY <1>2 DEF Framed, CallFits, CallRecords
  <2> QED
    BY <1>1, <2>1 DEF StatesInv, States!KeysAreSealed, States!Fallback, States!Carriers
<1> QED
  BY <1>1, <1>4, <1>5, <1>6 DEF StatesInv, Flags

(* What was asked to be saved last by a call is on disk now.                 *)
LEMMA Written ==
  ASSUME StatesInv, NEW c \in Handlers, States!Completes(c, "put"),
         statesDisk' = (IF Head(idb).val = None THEN statesDisk ELSE Head(idb).val)
  PROVE  /\ Framed(cached, session, statesDisk', Tail(idb), statesCalls)
         /\ ~spoiled /\ Head(idb).val # None =>
              /\ statesDisk' \in States!Sessions /\ Knows(statesDisk', statesCalls[c])
              /\ Unspoiled(session, statesDisk', Tail(idb), statesCalls, posted, shown)
<1>1. /\ idb # <<>> /\ Head(idb).by = c /\ Head(idb).what = "put"
      /\ Framed(cached, session, statesDisk, idb, statesCalls)
      /\ Framed(cached, session, statesDisk, Tail(idb), statesCalls) /\ Head(idb) \in Saves
      /\ ~spoiled => Unspoiled(session, statesDisk, idb, statesCalls, posted, shown)
  BY Answered
<1>2. statesDisk' \in States!Sessions \cup {None}
  BY <1>1 DEF Framed, Saves
<1>3. Framed(cached, session, statesDisk', Tail(idb), statesCalls)
  BY <1>1, <1>2 DEF Framed
<1>4. ASSUME ~spoiled, Head(idb).val # None
      PROVE  /\ statesDisk' \in States!Sessions /\ Knows(statesDisk', statesCalls[c])
             /\ Unspoiled(session, statesDisk', Tail(idb), statesCalls, posted, shown)
  <2>1. statesDisk' = Head(idb).val /\ Saving(Head(idb))
    BY <1>1, <1>4 DEF Saving
  <2> QED
    BY <1>1, <1>4, <2>1, PopKeeps
<1> QED
  BY <1>3, <1>4

LEMMA SavedKeeps ==
  ASSUME StatesInv, NEW c \in Handlers, States!Saved(c)
  PROVE  StatesInv'
<1>1. /\ States!Completes(c, "put") /\ statesCalls[c].pc = "saving"
      /\ idb' = Tail(idb) /\ States!HandedOn(c)
      /\ statesDisk' = (IF Head(idb).val = None THEN statesDisk ELSE Head(idb).val)
      /\ spoiled' = (spoiled \/ Head(idb).val = None)
      /\ statesCalls' = [statesCalls EXCEPT ![c] = States!Idle]
      /\ UNCHANGED <<cached, session, shared, unlocked>>
  BY DEF States!Saved, States!Ends, States!wasm
<1>2. NoneOf(Tail(idb), c)
  BY <1>1, Answered
<1>3. /\ Framed(cached, session, statesDisk', Tail(idb), statesCalls)
      /\ ~spoiled /\ Head(idb).val # None =>
           /\ statesDisk' \in States!Sessions /\ Knows(statesDisk', statesCalls[c])
           /\ Unspoiled(session, statesDisk', Tail(idb), statesCalls, posted, shown)
  BY <1>1, Written
<1>4. Framed(cached, session, statesDisk', idb', statesCalls')
  BY <1>1, <1>2, <1>3, IdleFits, CallFrame
<1>5. ~spoiled' => Unspoiled(session, statesDisk', idb', statesCalls', posted', shown')
  BY <1>1, <1>2, <1>3, HandedOnKeeps
<1>6. (Flags /\ States!KeysAreSealed)'
  BY <1>1, HandedOnTyped DEF StatesInv, Flags
<1> QED
  BY <1>1, <1>4, <1>5, <1>6 DEF StatesInv

LEMMA SavedFreshKeeps ==
  ASSUME StatesInv, NEW c \in Handlers, States!SavedFresh(c)
  PROVE  StatesInv'
<1>1. /\ States!Completes(c, "put") /\ statesCalls[c].pc = "creating"
      /\ statesDisk' = (IF Head(idb).val = None THEN statesDisk ELSE Head(idb).val)
      /\ spoiled' = (spoiled \/ Head(idb).val = None)
      /\ States!Operate(c, session, Tail(idb))
      /\ UNCHANGED <<cached, shared, unlocked, posted, envelope, shown>>
  BY DEF States!SavedFresh, States!out
<1>2. NoneOf(Tail(idb), c) /\ cached = TRUE /\ session \in States!Sessions /\ statesCalls[c].pc # "idle"
  BY <1>1, Answered
<1>3. /\ Framed(cached, session, statesDisk', Tail(idb), statesCalls)
      /\ ~spoiled /\ Head(idb).val # None =>
           Unspoiled(session, statesDisk', Tail(idb), statesCalls, posted, shown)
  BY <1>1, Written
<1>4. /\ Framed(TRUE, session', statesDisk', idb', statesCalls')
      /\ \A p, w : Unspoiled(session, statesDisk', Tail(idb), statesCalls, p, w) =>
           Unspoiled(session', statesDisk', idb', statesCalls', p, w)
  <2>1. Framed(TRUE, session, statesDisk', Tail(idb), statesCalls)
    BY <1>2, <1>3
  <2> QED
    BY <1>1, <1>2, <2>1, OperateKeeps
<1>5. (Flags /\ States!KeysAreSealed)'
  BY <1>1 DEF StatesInv, Flags, States!KeysAreSealed
<1> QED
  BY <1>1, <1>2, <1>3, <1>4, <1>5 DEF StatesInv

LEMMA SaveFailsKeeps ==
  ASSUME StatesInv, NEW c \in Handlers, States!SaveFails(c)
  PROVE  StatesInv'
<1>1. /\ States!Completes(c, "put") /\ idb' = Tail(idb) /\ spoiled' = TRUE
      /\ IF statesCalls[c].pc = "saving" /\ statesCalls[c].kind # "none"
         THEN States!HandedOn(c) ELSE UNCHANGED <<posted, envelope, shown>>
      /\ statesCalls' = [statesCalls EXCEPT ![c] = States!Idle]
      /\ UNCHANGED <<cached, session, statesDisk, shared, unlocked>>
  BY DEF States!SaveFails, States!Ends, States!wasm, States!out
<1>2. Framed(cached, session, statesDisk, Tail(idb), statesCalls) /\ NoneOf(Tail(idb), c)
  BY <1>1, Answered
<1>3. Framed(cached, session, statesDisk, idb', statesCalls')
  BY <1>1, <1>2, IdleFits, CallFrame
<1>4. (Flags /\ States!KeysAreSealed)'
  <2>1. CASE statesCalls[c].pc = "saving" /\ statesCalls[c].kind # "none"
    BY <1>1, <2>1, HandedOnTyped DEF StatesInv, Flags
  <2>2. CASE ~(statesCalls[c].pc = "saving" /\ statesCalls[c].kind # "none")
    BY <1>1, <2>2 DEF StatesInv, Flags, States!KeysAreSealed
  <2> QED
    BY <2>1, <2>2
<1> QED
  BY <1>1, <1>3, <1>4 DEF StatesInv

LEMMA ReloadKeeps ==
  ASSUME StatesInv, States!Reload
  PROVE  StatesInv'
<1>1. /\ cached' = FALSE /\ session' = None /\ idb' = <<>>
      /\ statesCalls' = [c \in Handlers |-> States!Idle]
      /\ UNCHANGED <<statesDisk, shared, unlocked, posted, envelope, shown, spoiled>>
  BY DEF States!Reload, States!out
<1>2. idb' \in Seq(Saves) /\ Len(idb') = 0
  BY <1>1
<1>3. Framed(cached', session', statesDisk, idb', statesCalls')
  <2>1. \A c \in Handlers : CallFits(statesCalls'[c], cached')
    BY <1>1, IdleFits
  <2>2. statesCalls' \in [Handlers -> CallRecords]
    BY <1>1, IdleFits DEF CallFits
  <2>3. Awaits(idb', statesCalls') /\ OneEach(idb')
    BY <1>2 DEF Awaits, OneEach
  <2>4. statesDisk \in States!Sessions \cup {None}
    BY DEF StatesInv, Framed
  <2> QED
    BY <1>1, <1>2, <2>1, <2>2, <2>3, <2>4 DEF Framed
<1>4. ~spoiled => Unspoiled(session', statesDisk, idb', statesCalls', posted, shown)
  <2>1. Ordered(session', statesDisk, idb', statesCalls') /\ Numbered(session', statesCalls', posted)
    BY <1>1, <1>2, IdleFits DEF Ordered, Numbered
  <2> QED
    BY <2>1 DEF StatesInv, Unspoiled
<1>5. (Flags /\ States!KeysAreSealed)'
  BY <1>1 DEF StatesInv, Flags, States!KeysAreSealed
<1> QED
  BY <1>1, <1>3, <1>4, <1>5 DEF StatesInv

LEMMA StatesStep == StatesInv /\ [States!Next]_statesVars => StatesInv'
<1> SUFFICES ASSUME StatesInv, [States!Next]_statesVars PROVE StatesInv'
  OBVIOUS
<1>1. CASE States!KeyShared \/ States!VaultToggles
  <2>1. /\ UNCHANGED <<cached, session, statesDisk, idb, statesCalls, posted, envelope, shown, spoiled>>
        /\ shared' \in BOOLEAN /\ unlocked' \in BOOLEAN
    BY <1>1 DEF States!KeyShared, States!VaultToggles, States!wasm, States!out, StatesInv, Flags
  <2> QED
    BY <2>1 DEF StatesInv, Flags, States!KeysAreSealed
<1>2. ASSUME NEW c \in Handlers, NEW k \in States!Kinds,
             States!SendPlain(c, k) \/ States!SendBegin(c, k) \/ States!SendCached(c, k)
      PROVE  StatesInv'
  BY <1>2, PlainKeeps, SendBeginKeeps, SendCachedKeeps
<1>3. ASSUME NEW c \in Handlers, NEW n \in Numbers, States!OpenBegin(c, n) \/ States!OpenCached(c, n)
      PROVE  StatesInv'
  BY <1>3, OpenBeginKeeps, OpenCachedKeeps
<1>4. ASSUME NEW c \in Handlers,
             \/ States!Imported(c) \/ States!NotFound(c) \/ States!Created(c) \/ States!NoRatchet(c)
             \/ States!Saved(c) \/ States!SavedFresh(c) \/ States!SaveFails(c)
      PROVE  StatesInv'
  BY <1>4, ImportedKeeps, NotFoundKeeps, CreatedKeeps, NoRatchetKeeps, SavedKeeps,
     SavedFreshKeeps, SaveFailsKeeps
<1>5. CASE UNCHANGED statesVars
  BY <1>5 DEF statesVars, StatesInv, Flags, States!KeysAreSealed
<1> QED
  BY <1>1, <1>2, <1>3, <1>4, <1>5, ReloadKeeps DEF States!Next

LEMMA StatesHold == StatesInv => States!TypeOK /\ States!StateBeforeUse
<1> SUFFICES ASSUME StatesInv PROVE States!TypeOK /\ States!StateBeforeUse
  OBVIOUS
<1>1. Framed(cached, session, statesDisk, idb, statesCalls) /\ Flags /\ States!KeysAreSealed
  BY DEF StatesInv
<1>2. States!TypeOK
  <2>1. \A i \in 1..Len(idb) : idb[i].by \in Handlers /\ idb[i].val \in States!Sessions \cup {None}
    BY <1>1, Entries DEF Framed, Saves
  <2>2. \A c \in Handlers :
          /\ statesCalls[c].pc \in {"idle", "loading", "resolving", "creating", "saving"}
          /\ statesCalls[c].kind \in States!Kinds \cup {"none"}
    BY <1>1 DEF Framed, CallFits, CallRecords, States!Kinds
  <2> QED
    BY <1>1, <2>1, <2>2 DEF States!TypeOK, Framed, Flags
<1>3. ~spoiled => OutIsSaved(statesDisk, posted, shown)
  BY DEF StatesInv, Unspoiled
<1>4. States!NumbersOnce
  <2>1. posted \in [1..MaxSent -> 0..2]
    BY <1>1 DEF Flags
  <2> QED
    BY <1>3, <2>1 DEF States!NumbersOnce, OutIsSaved
<1>5. States!ShownIsConsumed
  BY <1>3 DEF States!ShownIsConsumed, OutIsSaved
<1> QED
  BY <1>1, <1>2, <1>4, <1>5 DEF States!StateBeforeUse

-----------------------------------------------------------------------------
(* The outbox. What IndexedDB is asked to write, and the runs of flushOutbox. *)
Statuses == {"none", "pending", "sent"}
Writes ==
  [user : Accounts \cup {None}, what : {"box"}, val : Seq(Blobs), by : Blobs \cup Handlers]
    \cup [user : Accounts \cup {None}, what : {"hist"}, val : [Blobs -> Statuses],
          by : Blobs \cup Handlers \cup {None}]
LoopRecords ==
  [todo : Seq(Blobs), pc : {"idle", "posting", "removing", "marking"}, token : BOOLEAN]

OutboxTypes ==
  /\ sendUser \in Accounts \cup {None} /\ phase \in {"hist", "box", "open"}
  /\ owner \in [Blobs -> Accounts \cup {None}]
  /\ sendOutbox \in Seq(Blobs) /\ history \in [Blobs -> Statuses]
  /\ box \in [Accounts -> Seq(Blobs)] /\ hist \in [Accounts -> [Blobs -> Statuses]]
  /\ puts \in Seq(Writes)
  /\ send \in [Blobs -> {"idle", "posting", "queueing", "storing"}]
  /\ loop \in [Handlers -> LoopRecords]
  /\ claimed \subseteq Blobs /\ early \subseteq Accounts /\ cut \subseteq Blobs /\ known \subseteq Accounts
  /\ sendAccepted \in [Blobs -> 0..2]

(* A run is at the first message of its copy; once the relay has taken it    *)
(* there, the message is taken out of the outbox and marked.                  *)
IsAt(l, m) == loop[l].pc # "idle" /\ Head(loop[l].todo) = m
Takes(l, m) == IsAt(l, m) /\ loop[l].pc # "posting"
Taken(m) == \E l \in Handlers : Takes(l, m)

LoopsInv ==
  \A l \in Handlers :
    /\ loop[l].pc # "idle" => loop[l].todo # <<>>
    /\ loop[l].pc \in {"removing", "marking"} => loop[l].token

(* Who awaits which write: each call at most one, in its place.              *)
Single(q) == \A i, j \in 1..Len(q) : q[i].by = q[j].by /\ q[i].by # None => i = j
AwaitedBy(W) ==
  \A e \in W :
    /\ e.by \in Blobs => send[e.by] = (IF e.what = "box" THEN "queueing" ELSE "storing")
    /\ e.by \in Handlers => loop[e.by].pc = (IF e.what = "box" THEN "removing" ELSE "marking")
Pending == Outbox!InBox(puts)
WritesInv ==
  /\ Single(puts) /\ AwaitedBy(Pending)
  /\ \A m \in Blobs : send[m] = "queueing" => \E e \in Pending : e.by = m

(* What is marked as sent, or about to be, has been accepted.                *)
AcceptedInv ==
  \A m \in Blobs :
    \/ sendAccepted[m] > 0
    \/ /\ history[m] # "sent" /\ ~Taken(m)
       /\ \A u \in Accounts : hist[u][m] # "sent"
       /\ \A e \in Pending : e.what = "hist" => e.val[m] # "sent"

(* A message nobody has answered for is in no list, and in no history until  *)
(* it is in the outbox.                                                      *)
InNoList(m) ==
  /\ m \notin Outbox!InBox(sendOutbox)
  /\ \A u \in Accounts : m \notin Outbox!InBox(box[u])
  /\ \A e \in Pending : e.what = "box" => m \notin Outbox!InBox(e.val)
  /\ \A l \in Handlers : m \notin Outbox!InBox(loop[l].todo)
InNoHistory(m) ==
  /\ history[m] = "none"
  /\ \A u \in Accounts : hist[u][m] = "none"
  /\ \A e \in Pending : e.what = "hist" => e.val[m] = "none"
FreshInv ==
  \A m \in Blobs :
    /\ owner[m] = None => send[m] = "idle"
    /\ owner[m] = None \/ send[m] = "posting" => InNoList(m)
    /\ owner[m] = None \/ send[m] \in {"posting", "queueing"} => InNoHistory(m)

(* While the sending of a message is not cut it is under way in the session  *)
(* of its sender only.                                                       *)
SessionInv ==
  \A m \in Blobs \ cut :
    /\ send[m] # "idle" => sendUser = owner[m] /\ phase = "open"
    /\ \A e \in Pending : e.by = m => e.user = owner[m]
    /\ \A l \in Handlers : IsAt(l, m) =>
         /\ loop[l].token => sendUser = owner[m]
         /\ \A e \in Pending : e.by = l => e.user = owner[m]

(* What the writes of a user's outbox and history say of a message: all of   *)
(* them, those from the write of a call on, and which comes first.           *)
Carry(W, u, m) ==
  \A e \in W : e.what = "box" /\ e.user = u => m \in Outbox!InBox(e.val)
Pends(W, u, m) ==
  \E e \in W : e.what = "hist" /\ e.user = u /\ e.val[m] = "pending"
CarryFrom(q, x, u, m) ==
  \A i, j \in 1..Len(q) :
    q[i].by = x /\ i <= j /\ q[j].what = "box" /\ q[j].user = u => m \in Outbox!InBox(q[j].val)
SentFrom(q, x, u, m) ==
  \A i, j \in 1..Len(q) :
    q[i].by = x /\ i <= j /\ q[j].what = "hist" /\ q[j].user = u => q[j].val[m] = "sent"
Before(q, x, y) == \A i, j \in 1..Len(q) : q[i].by = x /\ q[j].by = y => i < j

(* A message that is being put into the outbox is there, or a run of         *)
(* flushOutbox has already found it there.                                   *)
IsQueued(m, u) ==
  send[m] = "queueing" =>
    /\ Taken(m) \/ (m \in Outbox!InBox(sendOutbox) /\ CarryFrom(puts, m, u, m))
    /\ \A l \in Handlers : Takes(l, m) => Before(puts, m, l)

(* A message that some history of its sender shows as pending is in all of   *)
(* his outboxes, or on its way out of them and then "sent" in all histories. *)
PendingOnDisk(m, u) == hist[u][m] = "pending" \/ Pends(Pending, u, m)
Open(u) == sendUser = u /\ phase # "hist"
InBoxes(m, u) ==
  /\ m \in Outbox!InBox(box[u]) /\ Carry(Pending, u, m)
  /\ sendUser = u /\ phase = "open" => m \in Outbox!InBox(sendOutbox)
IsKept(m, u) ==
  /\ PendingOnDisk(m, u) /\ Open(u) => history[m] # "none"
  /\ PendingOnDisk(m, u) \/ (Open(u) /\ history[m] = "pending") => Taken(m) \/ InBoxes(m, u)
  /\ \A l \in Handlers : Takes(l, m) =>
       /\ phase = "open"
       /\ loop[l].pc = "marking" => history[m] = "sent" /\ SentFrom(puts, l, u, m)

KeptInv ==
  \A m \in Blobs \ cut :
    owner[m] \notin early \cup {None} => IsQueued(m, owner[m]) /\ IsKept(m, owner[m])

(* Nobody is logged in, or has written anything, who is not registered.      *)
KnownInv ==
  /\ sendUser \in known \cup {None} /\ (sendUser = None => phase = "open")
  /\ \A m \in Blobs : owner[m] \in known \cup {None}

OutboxInv ==
  /\ OutboxTypes /\ LoopsInv /\ WritesInv /\ AcceptedInv
  /\ FreshInv /\ SessionInv /\ KnownInv /\ KeptInv

-----------------------------------------------------------------------------
(* Lists: one entry more, one less, and all but one of them.                 *)
LEMMA OneMore ==
  ASSUME NEW S, NEW q \in Seq(S), NEW e \in S
  PROVE  /\ Append(q, e) \in Seq(S) /\ Len(q) \in Nat /\ Len(Append(q, e)) = Len(q) + 1
         /\ \A i \in 1..Len(q) : Append(q, e)[i] = q[i]
         /\ Append(q, e)[Len(q) + 1] = e
         /\ Outbox!InBox(Append(q, e)) = Outbox!InBox(q) \cup {e}
<1>1. /\ Append(q, e) \in Seq(S) /\ Len(q) \in Nat /\ Len(Append(q, e)) = Len(q) + 1
      /\ \A i \in 1..Len(q) : Append(q, e)[i] = q[i]
      /\ Append(q, e)[Len(q) + 1] = e
  OBVIOUS
<1>2. Outbox!InBox(Append(q, e)) = Outbox!InBox(q) \cup {e}
  <2>1. \A x : x \in Outbox!InBox(Append(q, e)) <=> \E i \in 1..(Len(q) + 1) : Append(q, e)[i] = x
    BY <1>1 DEF Outbox!InBox
  <2>2. \A x : x \in Outbox!InBox(q) <=> \E i \in 1..Len(q) : q[i] = x
    BY DEF Outbox!InBox
  <2>3. \A x : (\E i \in 1..(Len(q) + 1) : Append(q, e)[i] = x) <=> (\E i \in 1..Len(q) : q[i] = x) \/ x = e
    BY <1>1
  <2> QED
    BY <2>1, <2>2, <2>3
<1> QED
  BY <1>1, <1>2

LEMMA OneLess ==
  ASSUME NEW S, NEW q \in Seq(S), q # <<>>
  PROVE  /\ Tail(q) \in Seq(S) /\ Len(q) \in Nat \ {0} /\ Len(Tail(q)) = Len(q) - 1
         /\ \A i \in 1..(Len(q) - 1) : Tail(q)[i] = q[i + 1]
         /\ Head(q) = q[1] /\ Head(q) \in S
         /\ Outbox!InBox(q) = Outbox!InBox(Tail(q)) \cup {Head(q)}
<1>1. /\ Tail(q) \in Seq(S) /\ Len(q) \in Nat \ {0} /\ Len(Tail(q)) = Len(q) - 1
      /\ \A i \in 1..(Len(q) - 1) : Tail(q)[i] = q[i + 1]
      /\ Head(q) = q[1] /\ Head(q) \in S
  OBVIOUS
<1>2. Outbox!InBox(q) = Outbox!InBox(Tail(q)) \cup {Head(q)}
  <2>1. \A x : x \in Outbox!InBox(q) <=> \E i \in 1..Len(q) : q[i] = x
    BY DEF Outbox!InBox
  <2>2. \A x : x \in Outbox!InBox(Tail(q)) <=> \E i \in 1..(Len(q) - 1) : q[i + 1] = x
    BY <1>1 DEF Outbox!InBox
  <2>3. ASSUME NEW i \in 1..Len(q), i # 1 PROVE \E j \in 1..(Len(q) - 1) : q[j + 1] = q[i]
    <3>1. i - 1 \in 1..(Len(q) - 1) /\ (i - 1) + 1 = i
      BY <1>1, <2>3
    <3> QED
      BY <3>1
  <2>4. \A j \in 1..(Len(q) - 1) : j + 1 \in 1..Len(q)
    BY <1>1
  <2>5. 1 \in 1..Len(q)
    BY <1>1
  <2> QED
    BY <1>1, <2>1, <2>2, <2>3, <2>4, <2>5
<1> QED
  BY <1>1, <1>2

LEMMA InList ==
  ASSUME NEW S, NEW q \in Seq(S)
  PROVE  Outbox!InBox(q) \subseteq S /\ (q = <<>> <=> Outbox!InBox(q) = {})
<1>1. q = <<>> <=> Len(q) = 0
  OBVIOUS
<1>2. Len(q) \in Nat
  OBVIOUS
<1>3. Len(q) # 0 => 1 \in 1..Len(q)
  BY <1>2
<1> QED
  BY <1>1, <1>2, <1>3 DEF Outbox!InBox

LEMMA Empty == Outbox!InBox(<<>>) = {}
BY DEF Outbox!InBox

LEMMA PushWrite ==
  ASSUME NEW q \in Seq(Writes), NEW e \in Writes
  PROVE  /\ Single(q) /\ (e.by # None => \A w \in Outbox!InBox(q) : w.by # e.by) => Single(Append(q, e))
         /\ \A x, u, m : CarryFrom(q, x, u, m) /\ (e.what = "box" /\ e.user = u => m \in Outbox!InBox(e.val))
              => CarryFrom(Append(q, e), x, u, m)
         /\ \A x, u, m : SentFrom(q, x, u, m) /\ (e.what = "hist" /\ e.user = u => e.val[m] = "sent")
              => SentFrom(Append(q, e), x, u, m)
         /\ \A x, y : Before(q, x, y) /\ e.by # x => Before(Append(q, e), x, y)
<1>1. /\ Len(q) \in Nat /\ Len(Append(q, e)) = Len(q) + 1
      /\ \A i \in 1..Len(q) : Append(q, e)[i] = q[i]
      /\ Append(q, e)[Len(q) + 1] = e
  BY OneMore
<1>2. \A i \in 1..Len(q) : q[i] \in Outbox!InBox(q)
  BY DEF Outbox!InBox
<1>3. \A i \in 1..(Len(q) + 1) : i = Len(q) + 1 \/ i \in 1..Len(q)
  BY <1>1
<1> DEFINE p == Append(q, e)
<1>4. /\ Len(p) = Len(q) + 1 /\ p[Len(q) + 1] = e
      /\ \A i \in 1..Len(q) : p[i] = q[i]
  BY <1>1
<1> HIDE DEF p
<1>5. ASSUME Single(q), e.by # None => \A w \in Outbox!InBox(q) : w.by # e.by PROVE Single(p)
  BY <1>1, <1>2, <1>3, <1>4, <1>5 DEF Single
<1>6. ASSUME NEW x, NEW u, NEW m, CarryFrom(q, x, u, m), e.what = "box" /\ e.user = u => m \in Outbox!InBox(e.val)
      PROVE  CarryFrom(p, x, u, m)
  <2> SUFFICES ASSUME NEW i \in 1..(Len(q) + 1), NEW j \in 1..(Len(q) + 1),
                      p[i].by = x, i <= j, p[j].what = "box", p[j].user = u
               PROVE  m \in Outbox!InBox(p[j].val)
    BY <1>4 DEF CarryFrom
  <2>1. CASE j = Len(q) + 1
    BY <1>4, <1>6, <2>1
  <2>2. CASE j \in 1..Len(q)
    <3>1. i \in 1..Len(q)
      BY <1>1, <2>2
    <3> QED
      BY <1>4, <1>6, <2>2, <3>1 DEF CarryFrom
  <2> QED
    BY <1>3, <2>1, <2>2
<1>7. ASSUME NEW x, NEW u, NEW m, SentFrom(q, x, u, m), e.what = "hist" /\ e.user = u => e.val[m] = "sent"
      PROVE  SentFrom(p, x, u, m)
  <2> SUFFICES ASSUME NEW i \in 1..(Len(q) + 1), NEW j \in 1..(Len(q) + 1),
                      p[i].by = x, i <= j, p[j].what = "hist", p[j].user = u
               PROVE  p[j].val[m] = "sent"
    BY <1>4 DEF SentFrom
  <2>1. CASE j = Len(q) + 1
    BY <1>4, <1>7, <2>1
  <2>2. CASE j \in 1..Len(q)
    <3>1. i \in 1..Len(q)
      BY <1>1, <2>2
    <3> QED
      BY <1>4, <1>7, <2>2, <3>1 DEF SentFrom
  <2> QED
    BY <1>3, <2>1, <2>2
<1>8. ASSUME NEW x, NEW y, Before(q, x, y), e.by # x PROVE Before(p, x, y)
  BY <1>1, <1>3, <1>4, <1>8 DEF Before
<1>9. p = Append(q, e)
  BY DEF p
<1> QED
  BY <1>5, <1>6, <1>7, <1>8, <1>9

LEMMA PopWrite ==
  ASSUME NEW q \in Seq(Writes), q # <<>>
  PROVE  /\ Single(q) => Single(Tail(q)) /\ (Head(q).by # None => \A w \in Outbox!InBox(Tail(q)) : w.by # Head(q).by)
         /\ \A x, u, m : CarryFrom(q, x, u, m) => CarryFrom(Tail(q), x, u, m)
         /\ \A u, m : CarryFrom(q, Head(q).by, u, m) => Carry(Outbox!InBox(q), u, m)
         /\ \A x, u, m : SentFrom(q, x, u, m) => SentFrom(Tail(q), x, u, m)
         /\ \A u, m : SentFrom(q, Head(q).by, u, m) => ~Pends(Outbox!InBox(q), u, m)
         /\ \A x, y : Before(q, x, y) => Before(Tail(q), x, y)
         /\ \A x : Before(q, x, Head(q).by) => \A w \in Outbox!InBox(q) : w.by # x
<1> DEFINE p == Tail(q)
<1>1. /\ Len(q) \in Nat \ {0} /\ Len(p) = Len(q) - 1
      /\ \A i \in 1..(Len(q) - 1) : p[i] = q[i + 1]
      /\ Head(q) = q[1]
  BY OneLess
<1>2. \A w \in Outbox!InBox(q) : \E i \in 1..Len(q) : q[i] = w
  BY DEF Outbox!InBox
<1>3. \A w \in Outbox!InBox(p) : \E i \in 1..Len(p) : p[i] = w
  BY DEF Outbox!InBox
<1>4. p = Tail(q)
  OBVIOUS
<1> HIDE DEF p
<1>5. \A i \in 1..(Len(q) - 1) : i + 1 \in 1..Len(q) /\ i + 1 # 1
  BY <1>1
<1>6. 1 \in 1..Len(q) /\ \A i \in 1..Len(q) : 1 <= i
  BY <1>1
<1>7. ASSUME Single(q) PROVE Single(p) /\ (Head(q).by # None => \A w \in Outbox!InBox(p) : w.by # Head(q).by)
  <2>1. Single(p)
    BY <1>1, <1>5, <1>7 DEF Single
  <2>2. ASSUME Head(q).by # None, NEW w \in Outbox!InBox(p), w.by = Head(q).by PROVE FALSE
    <3>1. PICK i \in 1..(Len(q) - 1) : q[i + 1] = w
      BY <1>1, <1>3
    <3> QED
      BY <1>1, <1>5, <1>6, <1>7, <2>2, <3>1 DEF Single
  <2> QED
    BY <2>1, <2>2
<1>8. ASSUME NEW x, NEW u, NEW m, CarryFrom(q, x, u, m) PROVE CarryFrom(p, x, u, m)
  <2> SUFFICES ASSUME NEW i \in 1..(Len(q) - 1), NEW j \in 1..(Len(q) - 1),
                      p[i].by = x, i <= j, p[j].what = "box", p[j].user = u
               PROVE  m \in Outbox!InBox(p[j].val)
    BY <1>1 DEF CarryFrom
  <2>1. p[i] = q[i + 1] /\ p[j] = q[j + 1] /\ i + 1 <= j + 1 /\ i + 1 \in 1..Len(q) /\ j + 1 \in 1..Len(q)
    BY <1>1
  <2> QED
    BY <1>8, <2>1 DEF CarryFrom
<1>9. ASSUME NEW x, NEW u, NEW m, SentFrom(q, x, u, m) PROVE SentFrom(p, x, u, m)
  <2> SUFFICES ASSUME NEW i \in 1..(Len(q) - 1), NEW j \in 1..(Len(q) - 1),
                      p[i].by = x, i <= j, p[j].what = "hist", p[j].user = u
               PROVE  p[j].val[m] = "sent"
    BY <1>1 DEF SentFrom
  <2>1. p[i] = q[i + 1] /\ p[j] = q[j + 1] /\ i + 1 <= j + 1 /\ i + 1 \in 1..Len(q) /\ j + 1 \in 1..Len(q)
    BY <1>1
  <2> QED
    BY <1>9, <2>1 DEF SentFrom
<1>10. ASSUME NEW x, NEW y, Before(q, x, y) PROVE Before(p, x, y)
  <2> SUFFICES ASSUME NEW i \in 1..(Len(q) - 1), NEW j \in 1..(Len(q) - 1), p[i].by = x, p[j].by = y
               PROVE  i < j
    BY <1>1 DEF Before
  <2>1. p[i] = q[i + 1] /\ p[j] = q[j + 1] /\ i + 1 \in 1..Len(q) /\ j + 1 \in 1..Len(q)
    BY <1>1
  <2>2. i + 1 < j + 1
    BY <1>10, <2>1 DEF Before
  <2> QED
    BY <2>2
<1>11. \A u, m : CarryFrom(q, Head(q).by, u, m) => Carry(Outbox!InBox(q), u, m)
  BY <1>1, <1>2, <1>6 DEF CarryFrom, Carry
<1>12. \A u, m : SentFrom(q, Head(q).by, u, m) => ~Pends(Outbox!InBox(q), u, m)
  BY <1>1, <1>2, <1>6 DEF SentFrom, Pends
<1>13. \A x : Before(q, x, Head(q).by) => \A w \in Outbox!InBox(q) : w.by # x
  BY <1>1, <1>2, <1>6 DEF Before
<1> QED
  BY <1>4, <1>7, <1>8, <1>9, <1>10, <1>11, <1>12, <1>13

LEMMA NoWriteYet ==
  ASSUME NEW q \in Seq(Writes), NEW x, \A w \in Outbox!InBox(q) : w.by # x
  PROVE  /\ \A u, m : CarryFrom(q, x, u, m) /\ SentFrom(q, x, u, m)
         /\ \A y : Before(q, x, y) /\ Before(q, y, x)
<1>1. \A i \in 1..Len(q) : q[i].by # x
  BY DEF Outbox!InBox
<1> QED
  BY <1>1 DEF CarryFrom, SentFrom, Before

LEMMA NoWrites ==
  /\ <<>> \in Seq(Writes) /\ Single(<<>>)
  /\ \A x, u, m : CarryFrom(<<>>, x, u, m) /\ SentFrom(<<>>, x, u, m) /\ Before(<<>>, x, u)
  /\ \A u, m : Carry(Outbox!InBox(<<>>), u, m) /\ ~Pends(Outbox!InBox(<<>>), u, m)
BY Empty DEF Single, CarryFrom, SentFrom, Before, Carry, Pends

-----------------------------------------------------------------------------
(* Counting up to N reaches every number up to N: an induction over a set,   *)
(* by its smallest exception.                                                *)
LEMMA Counting ==
  ASSUME NEW N \in Nat, NEW T, 0 \in T, \A n \in 0..N : n \in T /\ n < N => n + 1 \in T
  PROVE  \A n \in 0..N : n \in T
<1> DEFINE X == {n \in 0..N : n \notin T}
<1> DEFINE R == OpToRel(<, Nat)
<1> SUFFICES ASSUME X # {} PROVE FALSE
  OBVIOUS
<1>1. PICK x \in X : \A y \in X : ~(<<y, x>> \in R)
  <2>1. IsWellFoundedOn(R, Nat) BY NatLessThanWellFounded
  <2>2. X \subseteq Nat OBVIOUS
  <2> HIDE DEF X, R
  <2> QED BY <2>1, <2>2, WFMin
<1>2. x # 0 /\ x - 1 \in 0..N OBVIOUS
<1>3. <<x - 1, x>> \in R BY <1>2 DEF OpToRel
<1>4. x - 1 \in T BY <1>1, <1>2, <1>3
<1> QED BY <1>2, <1>4

(* The loop that leaves a message out of the outbox runs to its end.         *)
UnlessLoop(s, m, f, k) ==
  f = [n \in 0..k |-> IF n = 0 THEN <<>> ELSE Outbox!Unless(f[n - 1], m, s[n])]

LEMMA UnlessLoopRuns ==
  ASSUME NEW S, NEW s \in Seq(S), NEW m
  PROVE  \E f : UnlessLoop(s, m, f, Len(s))
<1> DEFINE T == {k \in 0..Len(s) : \E f : UnlessLoop(s, m, f, k)}
<1>0. Len(s) \in Nat OBVIOUS
<1>1. 0 \in T
  <2> DEFINE z == [n \in 0..0 |-> <<>>]
  <2>1. UnlessLoop(s, m, z, 0) BY DEF UnlessLoop
  <2> HIDE DEF z
  <2> QED BY <2>1, <1>0
<1>2. ASSUME NEW k \in 0..Len(s), k \in T, k < Len(s) PROVE k + 1 \in T
  <2>1. PICK f : UnlessLoop(s, m, f, k) BY <1>2
  <2> DEFINE g == [n \in 0..(k + 1) |-> IF n = k + 1 THEN Outbox!Unless(f[k], m, s[k + 1]) ELSE f[n]]
  <2>2. \A n \in 0..(k + 1) : g[n] = IF n = 0 THEN <<>> ELSE Outbox!Unless(g[n - 1], m, s[n])
    <3> TAKE n \in 0..(k + 1)
    <3>1. CASE n = k + 1 BY <3>1, <1>0
    <3>2. CASE n \in 0..k
      <4>1. f[n] = IF n = 0 THEN <<>> ELSE Outbox!Unless(f[n - 1], m, s[n])
        BY <2>1, <3>2 DEF UnlessLoop
      <4> QED BY <4>1, <3>2
    <3> QED BY <3>1, <3>2
  <2>3. UnlessLoop(s, m, g, k + 1) BY <2>2 DEF UnlessLoop
  <2>4. k + 1 \in 0..Len(s) BY <1>0, <1>2
  <2> HIDE DEF g
  <2> QED BY <2>3, <2>4
<1>3. \A k \in 0..Len(s) : k \in T
  <2> HIDE DEF T
  <2> QED BY <1>0, <1>1, <1>2, Counting
<1> QED BY <1>0, <1>3

(* All else stays, and nothing comes in.                                     *)
LEMMA WithoutOne ==
  ASSUME NEW S, NEW s \in Seq(S), NEW m
  PROVE  /\ Outbox!Without(s, m) \in Seq(S)
         /\ Outbox!InBox(Outbox!Without(s, m)) \subseteq Outbox!InBox(s)
         /\ \A x \in Outbox!InBox(s) : x # m => x \in Outbox!InBox(Outbox!Without(s, m))
<1> DEFINE M == CHOOSE f : f = [n \in 0..Len(s) |->
                  IF n = 0 THEN <<>> ELSE Outbox!Unless(f[n - 1], m, s[n])]
<1>0. Len(s) \in Nat
  OBVIOUS
<1>1. M = [n \in 0..Len(s) |-> IF n = 0 THEN <<>> ELSE Outbox!Unless(M[n - 1], m, s[n])]
  <2>1. \E f : f = [n \in 0..Len(s) |-> IF n = 0 THEN <<>> ELSE Outbox!Unless(f[n - 1], m, s[n])]
    <3>1. \E f : UnlessLoop(s, m, f, Len(s))
      BY UnlessLoopRuns
    <3> QED BY <3>1, Zenon DEF UnlessLoop
  <2> QED BY <2>1, Zenon
<1>2. Outbox!Without(s, m) = M[Len(s)]
  BY DEF Outbox!Without
<1> HIDE DEF M
<1> DEFINE Good(k, t) ==
      /\ t \in Seq(S)
      /\ \A x \in Outbox!InBox(t) : \E n \in 1..k : s[n] = x
      /\ \A n \in 1..k : s[n] # m => s[n] \in Outbox!InBox(t)
<1> DEFINE T == {k \in 0..Len(s) : Good(k, M[k])}
<1>3. 0 \in T
  <2>1. M[0] = <<>> BY <1>0, <1>1
  <2>2. Good(0, M[0]) BY <2>1, Empty
  <2>3. 0 \in 0..Len(s) BY <1>0
  <2> QED BY <2>2, <2>3
<1>4. ASSUME NEW k \in 0..Len(s), k \in T, k < Len(s) PROVE k + 1 \in T
  <2>1. k + 1 \in 1..Len(s) /\ s[k + 1] \in S /\ k \in Nat BY <1>0, <1>4
  <2>2. M[k + 1] = Outbox!Unless(M[k], m, s[k + 1]) BY <1>1, <2>1
  <2> DEFINE t == M[k]
             g == Append(t, s[k + 1])
  <2>3. Good(k, t) BY <1>4
  <2>4. \A n \in 1..(k + 1) : n = k + 1 \/ n \in 1..k BY <2>1
  <2>5. \A n \in 1..k : n \in 1..(k + 1) BY <2>1
  <2>6. k + 1 \in 1..(k + 1) BY <2>1
  <2>7. CASE s[k + 1] = m
    <3>1. M[k + 1] = t BY <2>2, <2>7 DEF Outbox!Unless
    <3> HIDE DEF t
    <3>2. Good(k + 1, t) BY <2>3, <2>4, <2>5, <2>7
    <3> QED BY <2>1, <3>1, <3>2
  <2>8. CASE s[k + 1] # m
    <3>1. M[k + 1] = g BY <2>2, <2>8 DEF Outbox!Unless
    <3>2. g \in Seq(S) /\ Outbox!InBox(g) = Outbox!InBox(t) \cup {s[k + 1]}
      BY <2>1, <2>3, OneMore
    <3> HIDE DEF t, g
    <3>3. Good(k + 1, g) BY <2>3, <2>4, <2>5, <2>6, <3>2
    <3> QED BY <2>1, <3>1, <3>3
  <2> QED BY <2>7, <2>8
<1>5. Len(s) \in T
  <2> HIDE DEF T
  <2>1. \A k \in 0..Len(s) : k \in T /\ k < Len(s) => k + 1 \in T BY <1>4
  <2>2. \A k \in 0..Len(s) : k \in T BY <1>0, <1>3, <2>1, Counting
  <2> QED BY <1>0, <2>2
<1>6. Good(Len(s), M[Len(s)]) BY <1>5
<1>7. \A x \in Outbox!InBox(s) : \E n \in 1..Len(s) : s[n] = x
  BY DEF Outbox!InBox
<1>8. \A n \in 1..Len(s) : s[n] \in Outbox!InBox(s)
  BY DEF Outbox!InBox
<1> QED BY <1>2, <1>6, <1>7, <1>8

-----------------------------------------------------------------------------
(* The session changes hands.                                                *)
LEMMA OutboxInit == Outbox!Init => OutboxInv
<1> SUFFICES ASSUME Outbox!Init PROVE OutboxInv
  OBVIOUS
<1>1. /\ sendUser = None /\ phase = "open" /\ owner = [m \in Blobs |-> None]
      /\ sendOutbox = <<>> /\ history = [m \in Blobs |-> "none"]
      /\ box = [u \in Accounts |-> <<>>] /\ hist = [u \in Accounts |-> [m \in Blobs |-> "none"]]
      /\ puts = <<>> /\ early = {} /\ send = [m \in Blobs |-> "idle"]
      /\ loop = [l \in Handlers |-> [todo |-> <<>>, pc |-> "idle", token |-> FALSE]]
      /\ claimed = {} /\ sendAccepted = [m \in Blobs |-> 0] /\ cut = {} /\ known = {}
  BY DEF Outbox!Init, Outbox!NoHistory, Outbox!IdleLoop
<1>2. OutboxTypes
  BY <1>1 DEF OutboxTypes, Statuses, LoopRecords
<1>3. \A l \in Handlers : loop[l].pc = "idle" /\ loop[l].todo = <<>>
  BY <1>1
<1>4. Pending = {} /\ Single(puts)
  BY <1>1, Empty DEF Pending, Single
<1>5. LoopsInv /\ WritesInv
  BY <1>1, <1>3, <1>4 DEF LoopsInv, WritesInv, AwaitedBy
<1>6. AcceptedInv
  BY <1>1, <1>3, <1>4 DEF AcceptedInv, Taken, Takes, IsAt
<1>7. FreshInv
  BY <1>1, <1>3, <1>4, Empty DEF FreshInv, InNoList, InNoHistory
<1>8. SessionInv /\ KnownInv /\ KeptInv
  BY <1>1, <1>3, <1>4 DEF SessionInv, IsAt, KnownInv, KeptInv
<1> QED
  BY <1>2, <1>5, <1>6, <1>7, <1>8 DEF OutboxInv

(* What the invariants say when only the session has changed.                *)
LEMMA SettledMessages ==
  ASSUME OutboxInv
  PROVE  \A m \in Blobs \ Outbox!Unsettled : send[m] = "idle" /\ \A l \in Handlers : ~IsAt(l, m)
BY DEF OutboxInv, LoopsInv, Outbox!Unsettled, IsAt

LEMMA SessionChanges ==
  ASSUME OutboxInv, UNCHANGED <<owner, sendOutbox, history, box, hist, puts, early, send, loop,
                                claimed, sendAccepted, known>>,
         sendUser' \in known \cup {None}, phase' \in {"hist", "box", "open"},
         IF sendUser' = None THEN phase' = "open" ELSE phase' = "hist",
         cut' = cut \cup Outbox!Unsettled
  PROVE  OutboxInv'
<1>1. OutboxTypes'
  BY DEF OutboxInv, OutboxTypes, Outbox!Unsettled
<1>2. LoopsInv' /\ WritesInv' /\ AcceptedInv'
  BY DEF OutboxInv, LoopsInv, WritesInv, AwaitedBy, AcceptedInv, Pending, Taken, Takes, IsAt
<1>3. FreshInv' /\ KnownInv'
  BY DEF OutboxInv, FreshInv, InNoList, InNoHistory, Pending, KnownInv
<1>4. \A m \in Blobs \ cut' : m \in Blobs \ cut /\ send[m] = "idle" /\ \A l \in Handlers : ~IsAt(l, m)
  BY SettledMessages
<1>5. SessionInv'
  BY <1>4 DEF OutboxInv, SessionInv, IsAt, Pending
<1>6. KeptInv'
  BY <1>4, OutboxAssumption DEF OutboxInv, KeptInv, IsQueued, IsKept, Open, PendingOnDisk, InBoxes, Pending,
       Taken, Takes, IsAt
<1> QED
  BY <1>1, <1>2, <1>3, <1>5, <1>6 DEF OutboxInv

LEMMA LogoutKeeps == OutboxInv /\ Outbox!Logout => OutboxInv'
<1> SUFFICES ASSUME OutboxInv, Outbox!Logout PROVE OutboxInv'
  OBVIOUS
<1>1. /\ sendUser' = None /\ phase' = "open" /\ cut' = cut \cup Outbox!Unsettled
      /\ UNCHANGED <<owner, sendOutbox, history, box, hist, puts, early, send, loop, claimed, sendAccepted, known>>
  BY DEF Outbox!Logout, Outbox!disk, Outbox!relay, Outbox!saves
<1> QED
  BY <1>1, SessionChanges

LEMMA LoginKeeps ==
  ASSUME OutboxInv, NEW u \in Accounts, Outbox!Login(u)
  PROVE  OutboxInv'
<1>1. /\ sendUser' = u /\ u \in known /\ phase' = "hist" /\ cut' = cut \cup Outbox!Unsettled
      /\ UNCHANGED <<owner, sendOutbox, history, box, hist, puts, early, send, loop, claimed, sendAccepted, known>>
  BY DEF Outbox!Login, Outbox!disk, Outbox!relay, Outbox!saves
<1>2. u # None
  BY OutboxAssumption
<1> QED
  BY <1>1, <1>2, SessionChanges

LEMMA RegisterKeeps ==
  ASSUME OutboxInv, NEW u \in Accounts, Outbox!Register(u)
  PROVE  OutboxInv'
<1> DEFINE e == [user |-> u, what |-> "hist", val |-> history, by |-> None]
<1>1. /\ sendUser = None /\ u \notin known /\ known' = known \cup {u} /\ sendUser' = u /\ phase' = "hist"
      /\ puts' = Append(puts, e) /\ cut' = cut \cup Outbox!Unsettled
      /\ UNCHANGED <<owner, early, sendOutbox, history, box, hist, send, loop, claimed, sendAccepted>>
  BY DEF Outbox!Register, Outbox!Put, Outbox!disk, Outbox!relay
<1>2. puts \in Seq(Writes) /\ e \in Writes
  BY DEF OutboxInv, OutboxTypes, Writes
<1>3. e.user = u /\ e.what = "hist" /\ e.val = history /\ e.by = None
  OBVIOUS
<1> HIDE DEF e
<1>4. puts' \in Seq(Writes) /\ Pending' = Pending \cup {e}
  BY <1>1, <1>2, OneMore DEF Pending
<1>5. OutboxTypes'
  BY <1>1, <1>4 DEF OutboxInv, OutboxTypes, Outbox!Unsettled
<1>6. LoopsInv' /\ AcceptedInv'
  BY <1>1, <1>3, <1>4 DEF OutboxInv, LoopsInv, AcceptedInv, Taken, Takes, IsAt
<1>7. WritesInv'
  <2>1. Single(puts)'
    BY <1>1, <1>2, <1>3, PushWrite DEF OutboxInv, WritesInv
  <2> QED
    BY <1>1, <1>3, <1>4, <2>1, OutboxAssumption DEF OutboxInv, WritesInv, AwaitedBy
<1>8. FreshInv' /\ KnownInv'
  BY <1>1, <1>3, <1>4, OutboxAssumption DEF OutboxInv, FreshInv, InNoList, InNoHistory, KnownInv
<1>9. \A m \in Blobs \ cut' : m \in Blobs \ cut /\ send[m] = "idle" /\ \A l \in Handlers : ~IsAt(l, m)
  BY <1>1, SettledMessages
<1>10. SessionInv'
  BY <1>1, <1>3, <1>4, <1>9, OutboxAssumption DEF OutboxInv, SessionInv, IsAt
<1>11. KeptInv'
  <2> SUFFICES ASSUME NEW m \in Blobs \ cut', owner[m] \notin early \cup {None}
               PROVE  IsQueued(m, owner[m])' /\ IsKept(m, owner[m])'
    BY <1>1 DEF KeptInv
  <2>1. owner[m] # u /\ sendUser' # owner[m] /\ owner[m] # None
    BY <1>1, <1>9 DEF OutboxInv, KnownInv
  <2>2. IsKept(m, owner[m]) /\ m \in Blobs /\ send[m] = "idle" /\ \A l \in Handlers : ~IsAt(l, m)
    BY <1>9 DEF OutboxInv, KeptInv
  <2>3. PendingOnDisk(m, owner[m])' <=> PendingOnDisk(m, owner[m])
    BY <1>1, <1>3, <1>4, <2>1 DEF PendingOnDisk, Pends
  <2>4. Carry(Pending, owner[m], m) => Carry(Pending', owner[m], m)
    BY <1>3, <1>4 DEF Carry
  <2> QED
    BY <1>1, <2>1, <2>2, <2>3, <2>4 DEF IsQueued, IsKept, Open, InBoxes, Taken, Takes, IsAt
<1> QED
  BY <1>5, <1>6, <1>7, <1>8, <1>10, <1>11 DEF OutboxInv

LEMMA PageReloads == OutboxInv /\ Outbox!Reload => OutboxInv'
<1> SUFFICES ASSUME OutboxInv, Outbox!Reload PROVE OutboxInv'
  OBVIOUS
<1>1. /\ sendUser' = None /\ phase' = "open" /\ cut' = cut \cup Outbox!Unsettled
      /\ sendOutbox' = <<>> /\ history' = [m \in Blobs |-> "none"] /\ puts' = <<>>
      /\ send' = [m \in Blobs |-> "idle"]
      /\ loop' = [l \in Handlers |-> [todo |-> <<>>, pc |-> "idle", token |-> FALSE]]
      /\ UNCHANGED <<owner, known, early, box, hist, claimed, sendAccepted>>
  BY DEF Outbox!Reload, Outbox!NoHistory, Outbox!IdleLoop, Outbox!disk, Outbox!relay
<1>2. OutboxTypes'
  BY <1>1, NoWrites DEF OutboxInv, OutboxTypes, Statuses, LoopRecords, Outbox!Unsettled
<1>3. Pending' = {} /\ \A l \in Handlers : loop'[l].pc = "idle" /\ loop'[l].todo = <<>>
  BY <1>1, Empty DEF Pending
<1>4. LoopsInv' /\ WritesInv' /\ AcceptedInv'
  BY <1>1, <1>3, NoWrites DEF OutboxInv, LoopsInv, WritesInv, AwaitedBy, AcceptedInv, Taken, Takes, IsAt
<1>5. FreshInv' /\ KnownInv'
  BY <1>1, <1>3, Empty DEF OutboxInv, FreshInv, InNoList, InNoHistory, KnownInv
<1>6. SessionInv'
  BY <1>1, <1>3 DEF SessionInv, IsAt
<1>7. \A m \in Blobs \ cut' : m \in Blobs \ cut /\ \A l \in Handlers : ~IsAt(l, m)
  BY <1>1, SettledMessages
<1>8. KeptInv'
  <2> SUFFICES ASSUME NEW m \in Blobs \ cut', owner[m] \notin early \cup {None}
               PROVE  IsQueued(m, owner[m])' /\ IsKept(m, owner[m])'
    BY <1>1 DEF KeptInv
  <2>1. IsKept(m, owner[m]) /\ \A l \in Handlers : ~IsAt(l, m)
    BY <1>7 DEF OutboxInv, KeptInv
  <2>2. ~Pends(Pending', owner[m], m) /\ Carry(Pending', owner[m], m)
    BY <1>3 DEF Pends, Carry
  <2>3. m \in Blobs
    OBVIOUS
  <2> QED
    BY <1>1, <1>3, <2>1, <2>2, <2>3 DEF IsQueued, IsKept, Open, InBoxes, PendingOnDisk, Taken, Takes, IsAt
<1> QED
  BY <1>2, <1>4, <1>5, <1>6, <1>8 DEF OutboxInv

LEMMA LoadHistoryKeeps == OutboxInv /\ Outbox!LoadHistory => OutboxInv'
<1> SUFFICES ASSUME OutboxInv, Outbox!LoadHistory PROVE OutboxInv'
  OBVIOUS
<1>1. /\ sendUser # None /\ phase = "hist" /\ puts = <<>>
      /\ history' = hist[sendUser] /\ phase' = "box"
      /\ UNCHANGED <<sendUser, owner, cut, known, sendOutbox, box, hist, puts, early, send, loop, claimed, sendAccepted>>
  BY DEF Outbox!LoadHistory, Outbox!disk, Outbox!relay, Outbox!saves
<1>2. sendUser \in Accounts /\ \A m \in Blobs : history'[m] = hist[sendUser][m]
  BY <1>1 DEF OutboxInv, OutboxTypes
<1>3. OutboxTypes'
  BY <1>1, <1>2 DEF OutboxInv, OutboxTypes
<1>4. LoopsInv' /\ WritesInv' /\ AcceptedInv'
  BY <1>1, <1>2 DEF OutboxInv, LoopsInv, WritesInv, AwaitedBy, AcceptedInv, Pending, Taken, Takes, IsAt
<1>5. FreshInv' /\ KnownInv'
  BY <1>1, <1>2 DEF OutboxInv, FreshInv, InNoList, InNoHistory, Pending, KnownInv
<1>6. SessionInv'
  BY <1>1 DEF OutboxInv, SessionInv, IsAt, Pending
<1>7. Pending = {}
  BY <1>1, Empty DEF Pending
<1>8. KeptInv'
  <2> SUFFICES ASSUME NEW m \in Blobs \ cut, owner[m] \notin early \cup {None}
               PROVE  IsQueued(m, owner[m])' /\ IsKept(m, owner[m])'
    BY <1>1 DEF KeptInv
  <2>1. IsKept(m, owner[m]) /\ IsQueued(m, owner[m])
    BY DEF OutboxInv, KeptInv
  <2>2. ~Pends(Pending, owner[m], m) /\ Carry(Pending, owner[m], m)
    BY <1>7 DEF Pends, Carry
  <2>3. m \in Blobs
    OBVIOUS
  <2>4. \A l \in Handlers : ~Takes(l, m)
    BY <1>1, <2>1 DEF IsKept
  <2>5. IsQueued(m, owner[m])'
    BY <1>1, <2>1 DEF IsQueued, Taken, Takes, IsAt
  <2>6. ~Taken(m) /\ ~Taken(m)' /\ Pending' = Pending
    BY <1>1, <2>4 DEF Taken, Takes, IsAt, Pending
  <2> QED
    BY <1>1, <1>2, <2>1, <2>2, <2>3, <2>4, <2>5, <2>6 DEF IsKept, Open, InBoxes, PendingOnDisk, Takes, IsAt
<1> QED
  BY <1>3, <1>4, <1>5, <1>6, <1>8 DEF OutboxInv

LEMMA LoadOutboxKeeps == OutboxInv /\ Outbox!LoadOutbox => OutboxInv'
<1> SUFFICES ASSUME OutboxInv, Outbox!LoadOutbox PROVE OutboxInv'
  OBVIOUS
<1>1. /\ sendUser # None /\ phase = "box" /\ puts = <<>>
      /\ sendOutbox' = box[sendUser] /\ phase' = "open"
      /\ UNCHANGED <<sendUser, owner, cut, known, history, box, hist, puts, early, send, loop, claimed, sendAccepted>>
  BY DEF Outbox!LoadOutbox, Outbox!disk, Outbox!relay, Outbox!saves
<1>2. sendUser \in Accounts
  BY <1>1 DEF OutboxInv, OutboxTypes
<1>3. OutboxTypes'
  BY <1>1, <1>2 DEF OutboxInv, OutboxTypes
<1>4. LoopsInv' /\ WritesInv' /\ AcceptedInv'
  BY <1>1, <1>2 DEF OutboxInv, LoopsInv, WritesInv, AwaitedBy, AcceptedInv, Pending, Taken, Takes, IsAt
<1>5. FreshInv' /\ KnownInv'
  BY <1>1, <1>2 DEF OutboxInv, FreshInv, InNoList, InNoHistory, Pending, KnownInv
<1>6. SessionInv'
  BY <1>1 DEF OutboxInv, SessionInv, IsAt, Pending
<1>7. Pending = {}
  BY <1>1, Empty DEF Pending
<1>8. KeptInv'
  <2> SUFFICES ASSUME NEW m \in Blobs \ cut, owner[m] \notin early \cup {None}
               PROVE  IsQueued(m, owner[m])' /\ IsKept(m, owner[m])'
    BY <1>1 DEF KeptInv
  <2>1. IsKept(m, owner[m]) /\ IsQueued(m, owner[m])
    BY DEF OutboxInv, KeptInv
  <2>2. ~Pends(Pending, owner[m], m) /\ Carry(Pending, owner[m], m)
    BY <1>7 DEF Pends, Carry
  <2>3. m \in Blobs /\ send[m] # "queueing"
    BY <1>1 DEF OutboxInv, SessionInv
  <2>4. \A l \in Handlers : ~Takes(l, m)
    BY <1>1, <2>1 DEF IsKept
  <2>5. IsQueued(m, owner[m])'
    BY <1>1, <2>3 DEF IsQueued
  <2>6. ~Taken(m) /\ ~Taken(m)' /\ Pending' = Pending
    BY <1>1, <2>4 DEF Taken, Takes, IsAt, Pending
  <2> QED
    BY <1>1, <1>2, <2>1, <2>2, <2>3, <2>4, <2>5, <2>6 DEF IsKept, Open, InBoxes, PendingOnDisk, Takes, IsAt
<1> QED
  BY <1>3, <1>4, <1>5, <1>6, <1>8 DEF OutboxInv

LEMMA ClaimEndsKeeps == OutboxInv /\ Outbox!ClaimEnds => OutboxInv'
<1> SUFFICES ASSUME OutboxInv, Outbox!ClaimEnds PROVE OutboxInv'
  OBVIOUS
<1>1. /\ claimed' \subseteq claimed
      /\ UNCHANGED <<sendUser, phase, owner, cut, known, sendOutbox, history, box, hist, puts, early, send, loop, sendAccepted>>
  BY DEF Outbox!ClaimEnds, Outbox!disk, Outbox!saves, Outbox!session
<1>2. OutboxTypes'
  BY <1>1 DEF OutboxInv, OutboxTypes
<1>3. LoopsInv' /\ WritesInv' /\ AcceptedInv'
  BY <1>1 DEF OutboxInv, LoopsInv, WritesInv, AwaitedBy, AcceptedInv, Pending, Taken, Takes, IsAt
<1>4. FreshInv' /\ KnownInv'
  BY <1>1 DEF OutboxInv, FreshInv, InNoList, InNoHistory, Pending, KnownInv
<1>5. SessionInv'
  BY <1>1 DEF OutboxInv, SessionInv, IsAt, Pending
<1>6. KeptInv'
  BY <1>1 DEF OutboxInv, KeptInv, IsQueued, IsKept, Open, PendingOnDisk, InBoxes, Pending, Taken, Takes, IsAt
<1> QED
  BY <1>2, <1>3, <1>4, <1>5, <1>6 DEF OutboxInv

-----------------------------------------------------------------------------
(* A message is written, and a run of flushOutbox goes on.                   *)
LEMMA SendKeeps ==
  ASSUME OutboxInv, NEW m \in Blobs, Outbox!Send(m)
  PROVE  OutboxInv'
<1>1. /\ owner[m] = None /\ sendUser # None /\ phase = "open"
      /\ owner' = [owner EXCEPT ![m] = sendUser]
      /\ send' = [send EXCEPT ![m] = "posting"]
      /\ UNCHANGED <<sendUser, phase, cut, known, sendOutbox, history, box, hist, puts, early, loop, claimed, sendAccepted>>
  BY DEF Outbox!Send, Outbox!disk, Outbox!saves, Outbox!relay
<1>2. /\ owner \in [Blobs -> Accounts \cup {None}] /\ sendUser \in Accounts
      /\ send \in [Blobs -> {"idle", "posting", "queueing", "storing"}]
  BY <1>1 DEF OutboxInv, OutboxTypes
<1>3. /\ send[m] = "idle" /\ InNoList(m) /\ InNoHistory(m)
  BY <1>1 DEF OutboxInv, FreshInv
<1>4. /\ send'[m] = "posting" /\ owner'[m] = sendUser
      /\ \A n \in Blobs : n # m => send'[n] = send[n] /\ owner'[n] = owner[n]
  BY <1>1, <1>2
<1>5. OutboxTypes'
  <2>1. owner' \in [Blobs -> Accounts \cup {None}] /\ send' \in [Blobs -> {"idle", "posting", "queueing", "storing"}]
    BY <1>1, <1>2
  <2> QED
    BY <1>1, <2>1 DEF OutboxInv, OutboxTypes
<1>6. Pending' = Pending
  BY <1>1 DEF Pending
<1>7. LoopsInv' /\ AcceptedInv'
  BY <1>1, <1>6 DEF OutboxInv, LoopsInv, AcceptedInv, Taken, Takes, IsAt
<1>8. \A e \in Pending : e.by # m
  BY <1>3 DEF OutboxInv, WritesInv, AwaitedBy
<1>9. WritesInv'
  BY <1>1, <1>4, <1>6, <1>8 DEF OutboxInv, WritesInv, AwaitedBy
<1>10. FreshInv' /\ KnownInv'
  <2>1. InNoList(m)' /\ InNoHistory(m)'
    BY <1>1, <1>3, <1>6 DEF InNoList, InNoHistory
  <2>2. \A n \in Blobs : (InNoList(n) <=> InNoList(n)') /\ (InNoHistory(n) <=> InNoHistory(n)')
    BY <1>1, <1>6 DEF InNoList, InNoHistory
  <2> QED
    BY <1>1, <1>2, <1>4, <2>1, <2>2, OutboxAssumption DEF OutboxInv, FreshInv, KnownInv
<1>11. \A l \in Handlers : ~IsAt(l, m)
  <2>1. \A l \in Handlers : loop[l].todo \in Seq(Blobs) /\ (loop[l].pc # "idle" => loop[l].todo # <<>>)
    BY DEF OutboxInv, OutboxTypes, LoopRecords, LoopsInv
  <2>2. \A l \in Handlers : loop[l].todo # <<>> => Head(loop[l].todo) \in Outbox!InBox(loop[l].todo)
    BY <2>1, OneLess
  <2> QED
    BY <1>3, <2>1, <2>2 DEF IsAt, InNoList
<1>12. SessionInv'
  BY <1>1, <1>4, <1>6, <1>8, <1>11 DEF OutboxInv, SessionInv, IsAt
<1>13. KeptInv'
  <2> SUFFICES ASSUME NEW n \in Blobs \ cut, NEW u, u = owner'[n], u \notin early \cup {None}
               PROVE  IsQueued(n, u)' /\ IsKept(n, u)'
    BY <1>1 DEF KeptInv
  <2>0. u \in Accounts
    BY <1>1, <1>2
  <2>1. CASE n = m
    <3>1. ~PendingOnDisk(m, u)' /\ history'[m] # "pending"
      BY <1>1, <1>3, <1>6, <2>0 DEF InNoHistory, PendingOnDisk, Pends
    <3>2. \A l \in Handlers : ~Takes(l, m)'
      BY <1>1, <1>11 DEF Takes, IsAt
    <3> QED
      BY <1>4, <2>1, <3>1, <3>2 DEF IsQueued, IsKept, Open
  <2>2. CASE n # m
    <3>1. u = owner[n] /\ IsQueued(n, u) /\ IsKept(n, u) /\ send'[n] = send[n]
      BY <1>4, <2>2 DEF OutboxInv, KeptInv
    <3> QED
      BY <1>1, <1>6, <3>1 DEF IsQueued, IsKept, Open, PendingOnDisk, InBoxes, Taken, Takes, IsAt
  <2> QED
    BY <2>1, <2>2
<1> QED
  BY <1>5, <1>7, <1>9, <1>10, <1>12, <1>13 DEF OutboxInv

(* A run that posts its first message has nothing to be written.             *)
LEMMA PostsOnly ==
  ASSUME OutboxInv, NEW l \in Handlers, loop[l].pc \in {"idle", "posting"}
  PROVE  /\ \A e \in Pending : e.by # l
         /\ \A m : ~Takes(l, m)
BY DEF OutboxInv, WritesInv, AwaitedBy, Takes, IsAt

LEMMA LoopRecord ==
  ASSUME NEW t \in Seq(Blobs), NEW p \in {"idle", "posting", "removing", "marking"}, NEW b \in BOOLEAN
  PROVE  [todo |-> t, pc |-> p, token |-> b] \in LoopRecords
BY DEF LoopRecords

LEMMA NextTurn ==
  ASSUME OutboxInv, NEW l \in Handlers, NEW todo \in Seq(Blobs),
         loop' = [loop EXCEPT ![l] = IF todo = <<>> THEN Outbox!IdleLoop ELSE Outbox!Post(todo)]
  PROVE  /\ loop'[l].pc \in {"idle", "posting"} /\ loop'[l].todo = todo
         /\ loop'[l].pc # "idle" => todo # <<>> /\ loop'[l].token = (sendUser = owner[Head(todo)])
         /\ \A g \in Handlers : g # l => loop'[g] = loop[g]
         /\ loop' \in [Handlers -> LoopRecords]
<1>1. loop \in [Handlers -> LoopRecords]
  BY DEF OutboxInv, OutboxTypes
<1>2. /\ loop'[l] = (IF todo = <<>> THEN Outbox!IdleLoop ELSE Outbox!Post(todo))
      /\ \A g \in Handlers : g # l => loop'[g] = loop[g]
  BY <1>1
<1>3. /\ loop'[l].pc \in {"idle", "posting"} /\ loop'[l].todo = todo
      /\ loop'[l].pc # "idle" => todo # <<>> /\ loop'[l].token = (sendUser = owner[Head(todo)])
      /\ loop'[l] \in LoopRecords
  <2>1. CASE todo = <<>>
    <3>1. loop'[l] = [todo |-> todo, pc |-> "idle", token |-> FALSE]
      BY <1>2, <2>1 DEF Outbox!IdleLoop
    <3>2. loop'[l] \in LoopRecords
      BY <3>1, LoopRecord
    <3>3. loop'[l].pc = "idle" /\ loop'[l].todo = todo
      BY <3>1
    <3> QED
      BY <3>2, <3>3
  <2>2. CASE todo # <<>>
    <3>1. loop'[l] = [todo |-> todo, pc |-> "posting", token |-> sendUser = owner[Head(todo)]]
      BY <1>2, <2>2 DEF Outbox!Post
    <3>2. loop'[l] \in LoopRecords
      BY <3>1, LoopRecord
    <3>3. loop'[l].pc = "posting" /\ loop'[l].todo = todo /\ loop'[l].token = (sendUser = owner[Head(todo)])
      BY <3>1
    <3> QED
      BY <2>2, <3>2, <3>3
  <2> QED
    BY <2>1, <2>2
<1> QED
  BY <1>1, <1>2, <1>3

(* When a run goes on that has nothing to be written, and whose message is   *)
(* not taken, nothing else changes.                                          *)
LEMMA LoopGoesOn ==
  ASSUME OutboxInv, NEW l \in Handlers, NEW todo \in Seq(Blobs),
         loop[l].pc \in {"idle", "posting"},
         Outbox!InBox(todo) \subseteq Outbox!InBox(loop[l].todo) \cup Outbox!InBox(sendOutbox),
         loop' = [loop EXCEPT ![l] = IF todo = <<>> THEN Outbox!IdleLoop ELSE Outbox!Post(todo)],
         claimed' \subseteq Blobs, sendAccepted' \in [Blobs -> 0..2],
         \A m \in Blobs : sendAccepted[m] > 0 => sendAccepted'[m] > 0,
         UNCHANGED <<sendUser, phase, owner, cut, known, sendOutbox, history, box, hist, puts, early, send>>
  PROVE  OutboxInv'
<1>2. /\ loop'[l].pc \in {"idle", "posting"} /\ loop'[l].todo = todo
      /\ loop'[l].pc # "idle" => todo # <<>> /\ loop'[l].token = (sendUser = owner[Head(todo)])
      /\ \A g \in Handlers : g # l => loop'[g] = loop[g]
      /\ loop' \in [Handlers -> LoopRecords]
  BY NextTurn
<1>4. OutboxTypes'
  BY <1>2 DEF OutboxInv, OutboxTypes
<1>5. Pending' = Pending
  BY DEF Pending
<1>6. (\A e \in Pending : e.by # l) /\ (\A m : ~Takes(l, m))
  BY PostsOnly
<1>7. LoopsInv' /\ WritesInv'
  BY <1>2, <1>5, <1>6 DEF OutboxInv, LoopsInv, WritesInv, AwaitedBy
<1>8. \A m : \A g \in Handlers : Takes(g, m)' <=> Takes(g, m)
  BY <1>2, <1>6 DEF Takes, IsAt
<1>9. \A m : Taken(m)' <=> Taken(m)
  BY <1>8 DEF Taken
<1>10. AcceptedInv'
  BY <1>5, <1>9 DEF OutboxInv, AcceptedInv
<1>11. FreshInv' /\ KnownInv'
  <2>1. \A m \in Blobs : (InNoList(m) => InNoList(m)') /\ (InNoHistory(m) => InNoHistory(m)')
    BY <1>2, <1>5 DEF InNoList, InNoHistory
  <2> QED
    BY <2>1 DEF OutboxInv, FreshInv, KnownInv
<1>12. SessionInv'
  <2> SUFFICES ASSUME NEW m \in Blobs \ cut
               PROVE  /\ send[m] # "idle" => sendUser = owner[m] /\ phase = "open"
                      /\ \A e \in Pending : e.by = m => e.user = owner[m]
                      /\ \A g \in Handlers : IsAt(g, m)' =>
                           /\ loop'[g].token => sendUser = owner[m]
                           /\ \A e \in Pending : e.by = g => e.user = owner[m]
    BY <1>5 DEF SessionInv
  <2>1. \A g \in Handlers : g # l => (IsAt(g, m)' <=> IsAt(g, m)) /\ loop'[g].token = loop[g].token
    BY <1>2 DEF IsAt
  <2>2. IsAt(l, m)' => (loop'[l].token => sendUser = owner[m])
    BY <1>2 DEF IsAt
  <2> QED
    BY <1>6, <2>1, <2>2 DEF OutboxInv, SessionInv
<1>13. KeptInv'
  <2> SUFFICES ASSUME NEW m \in Blobs \ cut, owner[m] \notin early \cup {None}
               PROVE  IsQueued(m, owner[m])' /\ IsKept(m, owner[m])'
    BY DEF KeptInv
  <2>1. IsQueued(m, owner[m]) /\ IsKept(m, owner[m]) /\ m \in Blobs
    BY DEF OutboxInv, KeptInv
  <2>2. \A g \in Handlers : Takes(g, m)' => loop'[g] = loop[g]
    BY <1>2, <1>6, <1>8
  <2> QED
    BY <1>5, <1>8, <1>9, <2>1, <2>2 DEF IsQueued, IsKept, Open, PendingOnDisk, InBoxes
<1> QED
  BY <1>4, <1>7, <1>10, <1>11, <1>12, <1>13 DEF OutboxInv

(* What an answer that is not good, and a good one, leave of the relay.      *)
LEMMA RelayAnswers ==
  ASSUME OutboxInv, NEW m \in Blobs, Outbox!NotAnswered(m, TRUE) \/ Outbox!NotAnswered(m, FALSE) \/ Outbox!Accepted(m)
  PROVE  /\ claimed' \subseteq Blobs /\ sendAccepted' \in [Blobs -> 0..2]
         /\ \A n \in Blobs : sendAccepted[n] > 0 => sendAccepted'[n] > 0
         /\ Outbox!Accepted(m) => sendAccepted'[m] > 0
<1>1. claimed \subseteq Blobs /\ sendAccepted \in [Blobs -> 0..2]
  BY DEF OutboxInv, OutboxTypes
<1>2. CASE Outbox!Accepted(m)
  <2>1. /\ claimed' = claimed \cup {m}
        /\ sendAccepted' = [sendAccepted EXCEPT ![m] = IF @ = 2 THEN 2 ELSE @ + 1]
    BY <1>2 DEF Outbox!Accepted
  <2>2. sendAccepted[m] \in 0..2
    BY <1>1
  <2>3. (IF sendAccepted[m] = 2 THEN 2 ELSE sendAccepted[m] + 1) \in 1..2
    BY <2>2
  <2>4. sendAccepted'[m] \in 1..2 /\ \A n \in Blobs : n # m => sendAccepted'[n] = sendAccepted[n]
    BY <1>1, <2>1, <2>3
  <2>5. sendAccepted' \in [Blobs -> 0..2]
    BY <1>1, <2>1, <2>3
  <2> QED
    BY <1>1, <2>1, <2>4, <2>5
<1>3. CASE UNCHANGED <<claimed, sendAccepted>> /\ ~Outbox!Accepted(m)
  BY <1>1, <1>3
<1> QED
  BY <1>2, <1>3 DEF Outbox!NotAnswered, Outbox!relay

LEMMA FlushStartKeeps ==
  ASSUME OutboxInv, NEW l \in Handlers, Outbox!FlushStart(l)
  PROVE  OutboxInv'
<1>1. /\ loop[l].pc = "idle" /\ sendOutbox # <<>> /\ loop' = [loop EXCEPT ![l] = Outbox!Post(sendOutbox)]
      /\ UNCHANGED <<sendUser, phase, owner, cut, known, sendOutbox, history, box, hist, puts, early, send, claimed, sendAccepted>>
  BY DEF Outbox!FlushStart, Outbox!disk, Outbox!saves, Outbox!relay, Outbox!session
<1>2. sendOutbox \in Seq(Blobs) /\ claimed \subseteq Blobs /\ sendAccepted \in [Blobs -> 0..2]
  BY DEF OutboxInv, OutboxTypes
<1>3. loop' = [loop EXCEPT ![l] = IF sendOutbox = <<>> THEN Outbox!IdleLoop ELSE Outbox!Post(sendOutbox)]
  BY <1>1
<1> QED
  BY <1>1, <1>2, <1>3, LoopGoesOn

LEMMA KeptKeeps ==
  ASSUME OutboxInv, NEW l \in Handlers, Outbox!Kept(l)
  PROVE  OutboxInv'
<1> DEFINE todo == Tail(loop[l].todo)
<1>1. /\ loop[l].pc = "posting" /\ Outbox!NotAnswered(Head(loop[l].todo), loop[l].token)
      /\ loop' = [loop EXCEPT ![l] = IF todo = <<>> THEN Outbox!IdleLoop ELSE Outbox!Post(todo)]
      /\ UNCHANGED <<sendUser, phase, owner, cut, known, sendOutbox, history, box, hist, puts, early, send>>
  BY DEF Outbox!Kept, Outbox!Onward, Outbox!disk, Outbox!saves, Outbox!session
<1>2. loop[l].todo \in Seq(Blobs) /\ loop[l].todo # <<>> /\ loop[l].token \in BOOLEAN
  BY <1>1 DEF OutboxInv, OutboxTypes, LoopRecords, LoopsInv
<1>3. /\ todo \in Seq(Blobs) /\ Head(loop[l].todo) \in Blobs
      /\ Outbox!InBox(todo) \subseteq Outbox!InBox(loop[l].todo)
  BY <1>2, OneLess
<1>4. /\ claimed' \subseteq Blobs /\ sendAccepted' \in [Blobs -> 0..2]
      /\ \A n \in Blobs : sendAccepted[n] > 0 => sendAccepted'[n] > 0
  <2>1. CASE loop[l].token = TRUE
    BY <1>1, <1>3, <2>1, RelayAnswers
  <2>2. CASE loop[l].token = FALSE
    BY <1>1, <1>3, <2>2, RelayAnswers
  <2> QED
    BY <1>2, <2>1, <2>2
<1> HIDE DEF todo
<1> QED
  BY <1>1, <1>3, <1>4, LoopGoesOn

-----------------------------------------------------------------------------
(* A save appends a write, and a completed write changes what is on disk.    *)
LEMMA SaveFacts ==
  ASSUME OutboxInv, NEW what \in {"box", "hist"}, NEW val, NEW x, NEW rest, Outbox!Save(what, val, x, rest)
  PROVE  /\ puts' = Append(rest, [user |-> sendUser, what |-> what, val |-> val, by |-> x])
         /\ early' \subseteq Accounts /\ early \subseteq early'
         /\ \A u : u \notin early' /\ sendUser = u => phase # "hist" /\ (what = "box" => phase = "open")
<1>1. /\ sendUser \in Accounts \cup {None} /\ phase \in {"hist", "box", "open"} /\ early \subseteq Accounts
      /\ sendUser = None => phase = "open"
  BY DEF OutboxInv, OutboxTypes, KnownInv
<1>2. puts' = Append(rest, [user |-> sendUser, what |-> what, val |-> val, by |-> x])
  BY DEF Outbox!Save, Outbox!Put
<1>3. early' = IF phase = "hist" \/ (phase = "box" /\ what = "box") THEN early \cup {sendUser} ELSE early
  BY DEF Outbox!Save
<1> QED
  BY <1>1, <1>2, <1>3

LEMMA WriteRecord ==
  /\ \A u \in Accounts \cup {None}, v \in Seq(Blobs), x \in Blobs \cup Handlers :
       [user |-> u, what |-> "box", val |-> v, by |-> x] \in Writes
  /\ \A u \in Accounts \cup {None}, v \in [Blobs -> Statuses], x \in Blobs \cup Handlers \cup {None} :
       [user |-> u, what |-> "hist", val |-> v, by |-> x] \in Writes
BY DEF Writes

LEMMA AfterWrite ==
  ASSUME OutboxInv, puts # <<>>, Outbox!Written, NEW w, w = Head(puts), NEW W, W = Outbox!InBox(Tail(puts))
  PROVE  /\ w \in Writes /\ Tail(puts) \in Seq(Writes) /\ Pending = W \cup {w}
         /\ box' \in [Accounts -> Seq(Blobs)] /\ hist' \in [Accounts -> [Blobs -> Statuses]]
         /\ \A u \in Accounts :
              /\ box'[u] = (IF w.what = "box" /\ w.user = u THEN w.val ELSE box[u])
              /\ hist'[u] = (IF w.what = "hist" /\ w.user = u THEN w.val ELSE hist[u])
<1>1. /\ puts \in Seq(Writes) /\ box \in [Accounts -> Seq(Blobs)]
      /\ hist \in [Accounts -> [Blobs -> Statuses]]
  BY DEF OutboxInv, OutboxTypes
<1>2. w \in Writes /\ Tail(puts) \in Seq(Writes) /\ Pending = W \cup {w}
  BY <1>1, OneLess DEF Pending
<1>3. /\ w.what = "box" => w.val \in Seq(Blobs)
      /\ w.what = "hist" => w.val \in [Blobs -> Statuses]
      /\ w.user \in Accounts \cup {None}
  BY <1>2 DEF Writes
<1>4. /\ box' = IF w.what = "box" /\ w.user # None THEN [box EXCEPT ![w.user] = w.val] ELSE box
      /\ hist' = IF w.what = "hist" /\ w.user # None THEN [hist EXCEPT ![w.user] = w.val] ELSE hist
  BY DEF Outbox!Written
<1>5. box' \in [Accounts -> Seq(Blobs)] /\ \A u \in Accounts : box'[u] = (IF w.what = "box" /\ w.user = u THEN w.val ELSE box[u])
  BY <1>1, <1>3, <1>4, OutboxAssumption
<1>6. hist' \in [Accounts -> [Blobs -> Statuses]] /\ \A u \in Accounts : hist'[u] = (IF w.what = "hist" /\ w.user = u THEN w.val ELSE hist[u])
  BY <1>1, <1>3, <1>4, OutboxAssumption
<1> QED
  BY <1>2, <1>5, <1>6

(* The writes that are left, and the disk, say of a message what they said   *)
(* before.                                                                   *)
Shorter(q, u, m) ==
  /\ q \in Seq(Writes)
  /\ \A x : (CarryFrom(puts, x, u, m) => CarryFrom(q, x, u, m)) /\ (SentFrom(puts, x, u, m) => SentFrom(q, x, u, m))
  /\ \A x, y : Before(puts, x, y) => Before(q, x, y)
  /\ hist'[u][m] = "pending" \/ Pends(Outbox!InBox(q), u, m) => PendingOnDisk(m, u)
  /\ m \in Outbox!InBox(box[u]) /\ Carry(Pending, u, m) =>
       m \in Outbox!InBox(box'[u]) /\ Carry(Outbox!InBox(q), u, m)

LEMMA SameWrites ==
  ASSUME OutboxInv, UNCHANGED <<box, hist>>, NEW u, NEW m
  PROVE  Shorter(puts, u, m)
BY DEF OutboxInv, OutboxTypes, Shorter, PendingOnDisk, Pending

LEMMA OneWriteLess ==
  ASSUME OutboxInv, puts # <<>>, Outbox!Written, NEW u \in Accounts, NEW m
  PROVE  Shorter(Tail(puts), u, m)
<1> DEFINE w == Head(puts)
           W == Outbox!InBox(Tail(puts))
<1>1. /\ w \in Writes /\ Tail(puts) \in Seq(Writes) /\ Pending = W \cup {w}
      /\ box'[u] = (IF w.what = "box" /\ w.user = u THEN w.val ELSE box[u])
      /\ hist'[u] = (IF w.what = "hist" /\ w.user = u THEN w.val ELSE hist[u])
  BY AfterWrite
<1>2. /\ \A x : (CarryFrom(puts, x, u, m) => CarryFrom(Tail(puts), x, u, m)) /\ (SentFrom(puts, x, u, m) => SentFrom(Tail(puts), x, u, m))
      /\ \A x, y : Before(puts, x, y) => Before(Tail(puts), x, y)
  BY PopWrite DEF OutboxInv, OutboxTypes
<1> HIDE DEF w, W
<1>3. hist'[u][m] = "pending" \/ Pends(W, u, m) => PendingOnDisk(m, u)
  BY <1>1 DEF PendingOnDisk, Pends
<1>4. m \in Outbox!InBox(box[u]) /\ Carry(Pending, u, m) => m \in Outbox!InBox(box'[u]) /\ Carry(W, u, m)
  BY <1>1 DEF Carry
<1> QED
  BY <1>1, <1>2, <1>3, <1>4 DEF Shorter, W

(* What keeps a message kept: that no write of a call of its own or of a run *)
(* that has taken it is changed, ...                                         *)
LEMMA StillKept ==
  ASSUME NEW m \in Blobs, NEW u \in Accounts, Shorter(puts', u, m), IsKept(m, u),
         UNCHANGED <<sendUser, phase, history, sendOutbox>>,
         \A l \in Handlers : (Takes(l, m)' <=> Takes(l, m)) /\ (Takes(l, m) => loop'[l] = loop[l])
  PROVE  /\ IsKept(m, u)'
         /\ IsQueued(m, u) /\ send'[m] = send[m] => IsQueued(m, u)'
<1>1. Pending' = Outbox!InBox(puts')
  BY DEF Pending
<1>2. Taken(m)' <=> Taken(m)
  BY DEF Taken
<1>3. PendingOnDisk(m, u)' => PendingOnDisk(m, u)
  BY <1>1 DEF Shorter, PendingOnDisk
<1>4. InBoxes(m, u) => InBoxes(m, u)'
  BY <1>1 DEF InBoxes, Shorter
<1>5. IsKept(m, u)'
  BY <1>2, <1>3, <1>4 DEF IsKept, Open, Shorter
<1>6. ASSUME IsQueued(m, u), send'[m] = send[m] PROVE IsQueued(m, u)'
  BY <1>2, <1>6 DEF IsQueued, Shorter
<1> QED
  BY <1>5, <1>6

(* ... and what is written then agrees with what the page has.               *)
LEMMA KeptBySave ==
  ASSUME NEW m \in Blobs, NEW u \in Accounts, NEW q, Shorter(q, u, m), IsKept(m, u),
         NEW e \in Writes, puts' = Append(q, e), e.user = sendUser,
         sendUser = u => phase # "hist",
         e.what = "hist" => e.val[m] = history[m],
         e.what = "box" => /\ m \in Outbox!InBox(sendOutbox) => m \in Outbox!InBox(e.val)
                           /\ sendUser = u => phase = "open",
         UNCHANGED <<sendUser, phase>>, history'[m] = history[m],
         m \in Outbox!InBox(sendOutbox) => m \in Outbox!InBox(sendOutbox'),
         \A l \in Handlers : (Takes(l, m)' <=> Takes(l, m)) /\ (Takes(l, m) => loop'[l].pc = loop[l].pc)
  PROVE  /\ IsKept(m, u)'
         /\ IsQueued(m, u) /\ send'[m] = send[m] /\ e.by # m => IsQueued(m, u)'
<1>1. q \in Seq(Writes) /\ Pending' = Outbox!InBox(q) \cup {e}
  BY OneMore DEF Shorter, Pending
<1>2. Taken(m)' <=> Taken(m)
  BY DEF Taken
<1>3. e.what \in {"box", "hist"}
  BY DEF Writes
<1>4. PendingOnDisk(m, u)' => PendingOnDisk(m, u) \/ (Open(u) /\ history[m] = "pending")
  BY <1>1 DEF Shorter, PendingOnDisk, Pends, Open
<1>5. InBoxes(m, u) => InBoxes(m, u)'
  <2> SUFFICES ASSUME InBoxes(m, u) PROVE InBoxes(m, u)'
    OBVIOUS
  <2>1. m \in Outbox!InBox(box'[u]) /\ Carry(Outbox!InBox(q), u, m)
    BY DEF InBoxes, Shorter
  <2>2. Carry(Pending', u, m)
    BY <1>1, <2>1 DEF InBoxes, Carry
  <2> QED
    BY <2>1, <2>2 DEF InBoxes
<1>6. \A x : SentFrom(puts, x, u, m) /\ (sendUser = u => history[m] = "sent") => SentFrom(puts', x, u, m)
  <2>1. \A x : SentFrom(q, x, u, m) /\ (e.what = "hist" /\ e.user = u => e.val[m] = "sent") => SentFrom(puts', x, u, m)
    BY <1>1, PushWrite
  <2> QED
    BY <2>1 DEF Shorter
<1>7. IsKept(m, u)'
  <2>1. PendingOnDisk(m, u)' /\ Open(u)' => history'[m] # "none"
    BY <1>4 DEF IsKept, Open
  <2>2. PendingOnDisk(m, u)' \/ (Open(u)' /\ history'[m] = "pending") => Taken(m)' \/ InBoxes(m, u)'
    BY <1>2, <1>4, <1>5 DEF IsKept, Open
  <2>3. ASSUME NEW l \in Handlers, Takes(l, m)'
        PROVE  phase' = "open" /\ (loop'[l].pc = "marking" => history'[m] = "sent" /\ SentFrom(puts', l, u, m))
    BY <1>6, <2>3 DEF IsKept
  <2> QED
    BY <2>1, <2>2, <2>3 DEF IsKept
<1>8. ASSUME IsQueued(m, u), send'[m] = send[m], e.by # m PROVE IsQueued(m, u)'
  <2> SUFFICES ASSUME send[m] = "queueing"
               PROVE  /\ Taken(m)' \/ (m \in Outbox!InBox(sendOutbox') /\ CarryFrom(puts', m, u, m))
                      /\ \A l \in Handlers : Takes(l, m)' => Before(puts', m, l)
    BY <1>8 DEF IsQueued
  <2>1. CarryFrom(puts, m, u, m) /\ m \in Outbox!InBox(sendOutbox) => CarryFrom(puts', m, u, m)
    <3>1. CarryFrom(q, m, u, m) /\ (e.what = "box" /\ e.user = u => m \in Outbox!InBox(e.val)) => CarryFrom(puts', m, u, m)
      BY <1>1, PushWrite
    <3> QED
      BY <3>1 DEF Shorter
  <2>2. \A l : Before(puts, m, l) => Before(puts', m, l)
    <3>1. \A l : Before(q, m, l) => Before(puts', m, l)
      BY <1>1, <1>8, PushWrite
    <3> QED
      BY <3>1 DEF Shorter
  <2> QED
    BY <1>2, <1>8, <2>1, <2>2 DEF IsQueued
<1> QED
  BY <1>7, <1>8

-----------------------------------------------------------------------------
(* The answers.                                                              *)
LEMMA NotInTodo ==
  ASSUME OutboxInv, NEW m \in Blobs, send[m] = "posting"
  PROVE  \A l \in Handlers : ~IsAt(l, m)
<1>1. InNoList(m)
  BY DEF OutboxInv, FreshInv
<1>2. \A l \in Handlers : loop[l].todo \in Seq(Blobs) /\ (loop[l].pc # "idle" => loop[l].todo # <<>>)
  BY DEF OutboxInv, OutboxTypes, LoopRecords, LoopsInv
<1>3. \A l \in Handlers : loop[l].todo # <<>> => Head(loop[l].todo) \in Outbox!InBox(loop[l].todo)
  BY <1>2, OneLess
<1> QED
  BY <1>1, <1>2, <1>3 DEF IsAt, InNoList

LEMMA SendDoneKeeps ==
  ASSUME OutboxInv, NEW m \in Blobs, Outbox!SendDone(m)
  PROVE  OutboxInv'
<1> DEFINE e == [user |-> sendUser, what |-> "hist", val |-> history', by |-> m]
<1>1. /\ send[m] = "posting" /\ Outbox!Accepted(m) /\ Outbox!Stored(m, "sent", puts)
      /\ UNCHANGED <<sendUser, phase, owner, cut, known, sendOutbox, box, hist, loop>>
  BY DEF Outbox!SendDone, Outbox!disk, Outbox!session
<1>2. InNoList(m) /\ InNoHistory(m) /\ owner[m] # None
  BY <1>1 DEF OutboxInv, FreshInv
<1>3. /\ history' = [history EXCEPT ![m] = "sent"] /\ Outbox!Save("hist", history', m, puts)
      /\ send' = [send EXCEPT ![m] = "storing"]
  BY <1>1, <1>2 DEF Outbox!Stored, InNoHistory
<1>4. /\ puts' = Append(puts, e) /\ early' \subseteq Accounts /\ early \subseteq early'
      /\ \A u : u \notin early' /\ sendUser = u => phase # "hist"
  BY <1>3, SaveFacts
<1>5. /\ history \in [Blobs -> Statuses] /\ puts \in Seq(Writes) /\ sendUser \in Accounts \cup {None}
      /\ send \in [Blobs -> {"idle", "posting", "queueing", "storing"}]
  BY DEF OutboxInv, OutboxTypes
<1>6. /\ history' \in [Blobs -> Statuses] /\ history'[m] = "sent"
      /\ \A n \in Blobs : n # m => history'[n] = history[n]
  BY <1>3, <1>5 DEF Statuses
<1>7. /\ send' \in [Blobs -> {"idle", "posting", "queueing", "storing"}] /\ send'[m] = "storing"
      /\ \A n \in Blobs : n # m => send'[n] = send[n]
  BY <1>3, <1>5
<1>8. e \in Writes /\ e.user = sendUser /\ e.what = "hist" /\ e.val = history' /\ e.by = m
  BY <1>5, <1>6, WriteRecord
<1> HIDE DEF e
<1>9. puts' \in Seq(Writes) /\ Pending' = Pending \cup {e}
  BY <1>4, <1>5, <1>8, OneMore DEF Pending
<1>10. /\ claimed' \subseteq Blobs /\ sendAccepted' \in [Blobs -> 0..2] /\ sendAccepted'[m] > 0
       /\ \A n \in Blobs : sendAccepted[n] > 0 => sendAccepted'[n] > 0
  BY <1>1, RelayAnswers
<1>11. OutboxTypes'
  BY <1>1, <1>4, <1>6, <1>7, <1>9, <1>10 DEF OutboxInv, OutboxTypes
<1>12. \A w \in Pending : w.by # m
  BY <1>1 DEF OutboxInv, WritesInv, AwaitedBy
<1>13. LoopsInv' /\ WritesInv'
  <2>1. Single(puts')
    BY <1>4, <1>5, <1>8, <1>12, PushWrite DEF OutboxInv, WritesInv, Pending
  <2>2. AwaitedBy(Pending)'
    BY <1>1, <1>7, <1>8, <1>9, <1>12, OutboxAssumption DEF OutboxInv, WritesInv, AwaitedBy
  <2> QED
    BY <1>1, <1>7, <1>9, <2>1, <2>2 DEF OutboxInv, LoopsInv, WritesInv
<1>14. \A l \in Handlers, n \in Blobs : Takes(l, n)' <=> Takes(l, n)
  BY <1>1 DEF Takes, IsAt
<1>15. AcceptedInv'
  BY <1>1, <1>6, <1>8, <1>9, <1>10, <1>14 DEF OutboxInv, AcceptedInv, Taken
<1>16. FreshInv' /\ KnownInv'
  <2>1. \A n \in Blobs : InNoList(n) => InNoList(n)'
    BY <1>1, <1>8, <1>9 DEF InNoList
  <2>2. \A n \in Blobs : n # m /\ InNoHistory(n) => InNoHistory(n)'
    BY <1>1, <1>6, <1>8, <1>9 DEF InNoHistory
  <2> QED
    BY <1>1, <1>2, <1>7, <2>1, <2>2 DEF OutboxInv, FreshInv, KnownInv
<1>17. SessionInv'
  BY <1>1, <1>7, <1>8, <1>9, <1>12, OutboxAssumption DEF OutboxInv, SessionInv, IsAt
<1>18. KeptInv'
  <2> SUFFICES ASSUME NEW n \in Blobs \ cut, NEW u, u = owner[n], u \notin early' \cup {None}
               PROVE  IsQueued(n, u)' /\ IsKept(n, u)'
    BY <1>1 DEF KeptInv
  <2>1. u \in Accounts /\ IsQueued(n, u) /\ IsKept(n, u)
    BY <1>4 DEF OutboxInv, OutboxTypes, KeptInv
  <2>2. CASE n = m
    <3>1. ~PendingOnDisk(m, u)' /\ history'[m] = "sent"
      BY <1>1, <1>2, <1>6, <1>8, <1>9, <2>1 DEF InNoHistory, PendingOnDisk, Pends
    <3>2. \A l \in Handlers : ~Takes(l, m)'
      BY <1>1, <1>14, NotInTodo DEF Takes
    <3> QED
      BY <1>7, <2>2, <3>1, <3>2 DEF IsQueued, IsKept, Open
  <2>3. CASE n # m
    <3>1. Shorter(puts, u, n)
      BY <1>1, SameWrites
    <3>2. send'[n] = send[n] /\ e.by # n /\ e.val[n] = history[n] /\ history'[n] = history[n]
      BY <1>6, <1>7, <1>8, <2>3
    <3> QED
      BY <1>1, <1>4, <1>8, <1>14, <2>1, <3>1, <3>2, KeptBySave
  <2> QED
    BY <2>2, <2>3
<1> QED
  BY <1>11, <1>13, <1>15, <1>16, <1>17, <1>18 DEF OutboxInv

LEMMA SendQueuedKeeps ==
  ASSUME OutboxInv, NEW m \in Blobs, Outbox!SendQueued(m)
  PROVE  OutboxInv'
<1> DEFINE e == [user |-> sendUser, what |-> "box", val |-> sendOutbox', by |-> m]
<1>1. /\ send[m] = "posting" /\ Outbox!NotAnswered(m, TRUE) /\ sendOutbox' = Append(sendOutbox, m)
      /\ Outbox!Save("box", sendOutbox', m, puts) /\ send' = [send EXCEPT ![m] = "queueing"]
      /\ UNCHANGED <<sendUser, phase, owner, cut, known, history, box, hist, loop>>
  BY DEF Outbox!SendQueued, Outbox!disk, Outbox!session
<1>2. InNoList(m) /\ InNoHistory(m) /\ owner[m] # None
  BY <1>1 DEF OutboxInv, FreshInv
<1>4. /\ puts' = Append(puts, e) /\ early' \subseteq Accounts /\ early \subseteq early'
      /\ \A u : u \notin early' /\ sendUser = u => phase # "hist" /\ phase = "open"
  BY <1>1, SaveFacts
<1>5. /\ sendOutbox \in Seq(Blobs) /\ puts \in Seq(Writes) /\ sendUser \in Accounts \cup {None}
      /\ send \in [Blobs -> {"idle", "posting", "queueing", "storing"}]
  BY DEF OutboxInv, OutboxTypes
<1>6. sendOutbox' \in Seq(Blobs) /\ Outbox!InBox(sendOutbox') = Outbox!InBox(sendOutbox) \cup {m}
  BY <1>1, <1>5, OneMore
<1>7. /\ send' \in [Blobs -> {"idle", "posting", "queueing", "storing"}] /\ send'[m] = "queueing"
      /\ \A n \in Blobs : n # m => send'[n] = send[n]
  BY <1>1, <1>5
<1>8. e \in Writes /\ e.user = sendUser /\ e.what = "box" /\ e.val = sendOutbox' /\ e.by = m
  BY <1>5, <1>6, WriteRecord
<1> HIDE DEF e
<1>9. puts' \in Seq(Writes) /\ Pending' = Pending \cup {e}
  BY <1>4, <1>5, <1>8, OneMore DEF Pending
<1>10. /\ claimed' \subseteq Blobs /\ sendAccepted' \in [Blobs -> 0..2]
       /\ \A n \in Blobs : sendAccepted[n] > 0 => sendAccepted'[n] > 0
  BY <1>1, RelayAnswers
<1>11. OutboxTypes'
  BY <1>1, <1>4, <1>6, <1>7, <1>9, <1>10 DEF OutboxInv, OutboxTypes
<1>12. \A w \in Pending : w.by # m
  BY <1>1 DEF OutboxInv, WritesInv, AwaitedBy
<1>13. LoopsInv' /\ WritesInv'
  <2>1. Single(puts')
    BY <1>4, <1>5, <1>8, <1>12, PushWrite DEF OutboxInv, WritesInv, Pending
  <2>2. AwaitedBy(Pending)'
    BY <1>1, <1>7, <1>8, <1>9, <1>12, OutboxAssumption DEF OutboxInv, WritesInv, AwaitedBy
  <2> QED
    BY <1>1, <1>7, <1>8, <1>9, <2>1, <2>2 DEF OutboxInv, LoopsInv, WritesInv
<1>14. \A l \in Handlers, n \in Blobs : Takes(l, n)' <=> Takes(l, n)
  BY <1>1 DEF Takes, IsAt
<1>15. AcceptedInv'
  BY <1>1, <1>8, <1>9, <1>10, <1>14 DEF OutboxInv, AcceptedInv, Taken
<1>16. FreshInv' /\ KnownInv'
  <2>1. \A n \in Blobs : n # m /\ InNoList(n) => InNoList(n)'
    BY <1>1, <1>6, <1>8, <1>9 DEF InNoList
  <2>2. \A n \in Blobs : InNoHistory(n) => InNoHistory(n)'
    BY <1>1, <1>8, <1>9 DEF InNoHistory
  <2> QED
    BY <1>1, <1>2, <1>7, <2>1, <2>2 DEF OutboxInv, FreshInv, KnownInv
<1>17. SessionInv'
  BY <1>1, <1>7, <1>8, <1>9, <1>12, OutboxAssumption DEF OutboxInv, SessionInv, IsAt
<1>18. KeptInv'
  <2> SUFFICES ASSUME NEW n \in Blobs \ cut, NEW u, u = owner[n], u \notin early' \cup {None}
               PROVE  IsQueued(n, u)' /\ IsKept(n, u)'
    BY <1>1 DEF KeptInv
  <2>1. u \in Accounts /\ IsQueued(n, u) /\ IsKept(n, u)
    BY <1>4 DEF OutboxInv, OutboxTypes, KeptInv
  <2>2. CASE n = m
    <3>1. ~PendingOnDisk(m, u)' /\ history'[m] = "none"
      BY <1>1, <1>2, <1>8, <1>9, <2>1 DEF InNoHistory, PendingOnDisk, Pends
    <3>2. \A l \in Handlers : ~Takes(l, m)'
      BY <1>1, <1>14, NotInTodo DEF Takes
    <3>3. CarryFrom(puts', m, u, m)
      <4>1. CarryFrom(puts, m, u, m)
        BY <1>5, <1>12, NoWriteYet DEF Pending
      <4> QED
        BY <1>4, <1>5, <1>6, <1>8, <4>1, PushWrite
    <3> QED
      BY <1>6, <2>2, <3>1, <3>2, <3>3 DEF IsQueued, IsKept, Open
  <2>3. CASE n # m
    <3>1. Shorter(puts, u, n)
      BY <1>1, SameWrites
    <3>2. send'[n] = send[n] /\ e.by # n
      BY <1>7, <1>8, <2>3
    <3>3. n \in Outbox!InBox(sendOutbox) => n \in Outbox!InBox(sendOutbox') /\ n \in Outbox!InBox(e.val)
      BY <1>6, <1>8
    <3> QED
      BY <1>1, <1>4, <1>8, <1>14, <2>1, <3>1, <3>2, <3>3, KeptBySave
  <2> QED
    BY <2>2, <2>3
<1> QED
  BY <1>11, <1>13, <1>15, <1>16, <1>17, <1>18 DEF OutboxInv

LEMMA RemovingKeeps ==
  ASSUME OutboxInv, NEW l \in Handlers, Outbox!Removing(l)
  PROVE  OutboxInv'
<1> DEFINE m == Head(loop[l].todo)
           e == [user |-> sendUser, what |-> "box", val |-> sendOutbox', by |-> l]
<1>1. /\ loop[l].pc = "posting" /\ loop[l].token /\ Outbox!Accepted(m)
      /\ sendOutbox' = Outbox!Without(sendOutbox, m) /\ Outbox!Save("box", sendOutbox', l, puts)
      /\ loop' = [loop EXCEPT ![l].pc = "removing"]
      /\ UNCHANGED <<sendUser, phase, owner, cut, known, history, box, hist, send>>
  BY DEF Outbox!Removing, Outbox!disk, Outbox!session
<1>2. /\ sendOutbox \in Seq(Blobs) /\ puts \in Seq(Writes) /\ sendUser \in Accounts \cup {None}
      /\ loop \in [Handlers -> LoopRecords] /\ loop[l].todo \in Seq(Blobs) /\ loop[l].todo # <<>>
  BY <1>1 DEF OutboxInv, OutboxTypes, LoopRecords, LoopsInv
<1>3. m \in Blobs
  BY <1>2, OneLess
<1>4. /\ puts' = Append(puts, e) /\ early' \subseteq Accounts /\ early \subseteq early'
      /\ \A u : u \notin early' /\ sendUser = u => phase # "hist" /\ phase = "open"
  BY <1>1, SaveFacts
<1>6. /\ sendOutbox' \in Seq(Blobs) /\ Outbox!InBox(sendOutbox') \subseteq Outbox!InBox(sendOutbox)
      /\ \A x \in Outbox!InBox(sendOutbox) : x # m => x \in Outbox!InBox(sendOutbox')
  BY <1>1, <1>2, WithoutOne
<1>7. /\ loop' \in [Handlers -> LoopRecords]
      /\ loop'[l].pc = "removing" /\ loop'[l].todo = loop[l].todo /\ loop'[l].token = loop[l].token
      /\ \A g \in Handlers : g # l => loop'[g] = loop[g]
  BY <1>1, <1>2 DEF LoopRecords
<1>8. e \in Writes /\ e.user = sendUser /\ e.what = "box" /\ e.val = sendOutbox' /\ e.by = l
  BY <1>2, <1>6, WriteRecord
<1> HIDE DEF e
<1>9. puts' \in Seq(Writes) /\ Pending' = Pending \cup {e}
  BY <1>2, <1>4, <1>8, OneMore DEF Pending
<1>10. /\ claimed' \subseteq Blobs /\ sendAccepted' \in [Blobs -> 0..2] /\ sendAccepted'[m] > 0
       /\ \A n \in Blobs : sendAccepted[n] > 0 => sendAccepted'[n] > 0
  BY <1>1, <1>3, RelayAnswers
<1>11. OutboxTypes'
  BY <1>1, <1>4, <1>6, <1>7, <1>9, <1>10 DEF OutboxInv, OutboxTypes
<1>12. (\A w \in Pending : w.by # l) /\ (\A n : ~Takes(l, n))
  BY <1>1, PostsOnly
<1>13. LoopsInv' /\ WritesInv'
  <2>1. Single(puts')
    BY <1>2, <1>4, <1>8, <1>12, PushWrite DEF OutboxInv, WritesInv, Pending
  <2>2. AwaitedBy(Pending)'
    BY <1>1, <1>7, <1>8, <1>9, <1>12, OutboxAssumption DEF OutboxInv, WritesInv, AwaitedBy
  <2>3. LoopsInv'
    BY <1>1, <1>2, <1>7 DEF OutboxInv, LoopsInv
  <2> QED
    BY <1>1, <1>9, <2>1, <2>2, <2>3 DEF OutboxInv, WritesInv
<1>14. \A g \in Handlers, n \in Blobs : n # m \/ g # l => (Takes(g, n)' <=> Takes(g, n)) /\ (Takes(g, n) => loop'[g] = loop[g])
  BY <1>7, <1>12 DEF Takes, IsAt
<1>20. \A n : n = m => Takes(l, n)'
  BY <1>7 DEF Takes, IsAt
<1> HIDE DEF m
<1>15. AcceptedInv'
  BY <1>1, <1>8, <1>9, <1>10, <1>14, <1>20 DEF OutboxInv, AcceptedInv, Taken
<1>16. FreshInv' /\ KnownInv'
  <2>0. \A g \in Handlers : loop'[g].todo = loop[g].todo
    BY <1>7
  <2>1. \A n \in Blobs : InNoList(n) => InNoList(n)'
    BY <1>1, <1>6, <1>8, <1>9, <2>0 DEF InNoList
  <2>2. \A n \in Blobs : InNoHistory(n) => InNoHistory(n)'
    BY <1>1, <1>8, <1>9 DEF InNoHistory
  <2> QED
    BY <1>1, <2>1, <2>2 DEF OutboxInv, FreshInv, KnownInv
<1>17. SessionInv'
  <2>1. \A g \in Handlers, n \in Blobs : (IsAt(g, n)' <=> IsAt(g, n)) /\ loop'[g].token = loop[g].token
    BY <1>1, <1>7 DEF IsAt
  <2> QED
    BY <1>1, <1>8, <1>9, <1>12, <2>1, OutboxAssumption DEF OutboxInv, SessionInv
<1>18. KeptInv'
  <2> SUFFICES ASSUME NEW n \in Blobs \ cut, NEW u, u = owner[n], u \notin early' \cup {None}
               PROVE  IsQueued(n, u)' /\ IsKept(n, u)'
    BY <1>1 DEF KeptInv
  <2>1. u \in Accounts /\ IsQueued(n, u) /\ IsKept(n, u)
    BY <1>4 DEF OutboxInv, OutboxTypes, KeptInv
  <2>2. CASE n = m
    <3>1. sendUser = u /\ phase = "open"
      <4>1. IsAt(l, n)
        BY <1>1, <2>2 DEF IsAt, m
      <4> QED
        BY <1>1, <1>4, <2>2, <4>1 DEF OutboxInv, SessionInv
    <3>2. Taken(n)'
      BY <2>2, <1>20 DEF Taken
    <3>3. \A x : SentFrom(puts, x, u, n) => SentFrom(puts', x, u, n)
      BY <1>2, <1>4, <1>8, PushWrite
    <3>4. \A g \in Handlers : Before(puts, n, g) => Before(puts', n, g)
      BY <1>2, <1>3, <1>4, <1>8, PushWrite, OutboxAssumption
    <3>5. Before(puts, n, l)
      BY <1>2, <1>12, NoWriteYet DEF Pending
    <3>6. PendingOnDisk(n, u)' => PendingOnDisk(n, u)
      BY <1>1, <1>8, <1>9 DEF PendingOnDisk, Pends
    <3>7. IsQueued(n, u)'
      BY <1>1, <1>14, <2>1, <2>2, <3>2, <3>4, <3>5 DEF IsQueued
    <3>8. IsKept(n, u)'
      BY <1>1, <1>7, <1>14, <2>1, <2>2, <3>1, <3>2, <3>3, <3>6 DEF IsKept, Open
    <3> QED
      BY <2>2, <3>7, <3>8
  <2>3. CASE n # m
    <3>1. Shorter(puts, u, n)
      BY <1>1, SameWrites
    <3>2. send'[n] = send[n] /\ e.by # n
      BY <1>1, <1>8, OutboxAssumption
    <3>3. n \in Outbox!InBox(sendOutbox) => n \in Outbox!InBox(sendOutbox') /\ n \in Outbox!InBox(e.val)
      BY <1>6, <1>8, <2>3
    <3>4. \A g \in Handlers : (Takes(g, n)' <=> Takes(g, n)) /\ (Takes(g, n) => loop'[g].pc = loop[g].pc)
      BY <1>14, <2>3
    <3> QED
      BY <1>1, <1>4, <1>8, <2>1, <3>1, <3>2, <3>3, <3>4, KeptBySave
  <2> QED
    BY <2>2, <2>3
<1> QED
  BY <1>11, <1>13, <1>15, <1>16, <1>17, <1>18 DEF OutboxInv

-----------------------------------------------------------------------------
(* IndexedDB completes the first write.                                      *)
LEMMA OneWriteDone ==
  ASSUME OutboxInv, NEW x, Outbox!Completes(x), NEW w, w = Head(puts), NEW W, W = Outbox!InBox(Tail(puts))
  PROVE  /\ puts # <<>> /\ Outbox!Written /\ w.by = x /\ w \in Writes
         /\ Tail(puts) \in Seq(Writes) /\ Pending = W \cup {w}
         /\ Single(Tail(puts)) /\ (x # None => \A e \in W : e.by # x)
         /\ box' \in [Accounts -> Seq(Blobs)] /\ hist' \in [Accounts -> [Blobs -> Statuses]]
         /\ \A u \in Accounts :
              /\ box'[u] = (IF w.what = "box" /\ w.user = u THEN w.val ELSE box[u])
              /\ hist'[u] = (IF w.what = "hist" /\ w.user = u THEN w.val ELSE hist[u])
<1>1. puts # <<>> /\ Outbox!Written /\ w.by = x
  BY DEF Outbox!Completes
<1>2. puts \in Seq(Writes) /\ Single(puts)
  BY DEF OutboxInv, OutboxTypes, WritesInv
<1>3. Single(Tail(puts)) /\ (x # None => \A e \in W : e.by # x)
  BY <1>1, <1>2, PopWrite
<1> QED
  BY <1>1, <1>3, AfterWrite

(* What no list and no history holds, the disk does not hold either.         *)
LEMMA DiskStaysFresh ==
  ASSUME OutboxInv, NEW x, Outbox!Completes(x), NEW m \in Blobs
  PROVE  /\ InNoList(m) => \A u \in Accounts : m \notin Outbox!InBox(box'[u])
         /\ InNoHistory(m) => \A u \in Accounts : hist'[u][m] = "none"
         /\ (\A u \in Accounts : hist[u][m] # "sent") /\ (\A e \in Pending : e.what = "hist" => e.val[m] # "sent") =>
              \A u \in Accounts : hist'[u][m] # "sent"
<1> DEFINE w == Head(puts)
<1>1. /\ w \in Pending
      /\ \A u \in Accounts :
           /\ box'[u] = (IF w.what = "box" /\ w.user = u THEN w.val ELSE box[u])
           /\ hist'[u] = (IF w.what = "hist" /\ w.user = u THEN w.val ELSE hist[u])
  BY OneWriteDone
<1> HIDE DEF w
<1>2. InNoList(m) => \A u \in Accounts : m \notin Outbox!InBox(box'[u])
  BY <1>1 DEF InNoList
<1>3. InNoHistory(m) => \A u \in Accounts : hist'[u][m] = "none"
  BY <1>1 DEF InNoHistory
<1> QED
  BY <1>1, <1>2, <1>3

LEMMA RegisterSavedKeeps ==
  ASSUME OutboxInv, Outbox!RegisterSaved
  PROVE  OutboxInv'
<1> DEFINE w == Head(puts)
           W == Outbox!InBox(Tail(puts))
<1>1. /\ Outbox!Completes(None) /\ puts' = Tail(puts)
      /\ UNCHANGED <<sendUser, phase, owner, cut, known, early, sendOutbox, history, send, loop, claimed, sendAccepted>>
  BY DEF Outbox!RegisterSaved, Outbox!relay, Outbox!session
<1>2. /\ puts # <<>> /\ Outbox!Written /\ w.by = None /\ puts' \in Seq(Writes) /\ Pending = W \cup {w} /\ Pending' = W
      /\ Single(puts') /\ box' \in [Accounts -> Seq(Blobs)] /\ hist' \in [Accounts -> [Blobs -> Statuses]]
  BY <1>1, OneWriteDone DEF Pending
<1> HIDE DEF w, W
<1>3. OutboxTypes'
  BY <1>1, <1>2 DEF OutboxInv, OutboxTypes
<1>4. LoopsInv' /\ WritesInv'
  BY <1>1, <1>2, OutboxAssumption DEF OutboxInv, LoopsInv, WritesInv, AwaitedBy
<1>5. \A l \in Handlers : \A n : (Takes(l, n)' <=> Takes(l, n)) /\ (IsAt(l, n)' <=> IsAt(l, n))
  BY <1>1 DEF Takes, IsAt
<1>6. AcceptedInv'
  BY <1>1, <1>2, <1>5, DiskStaysFresh DEF OutboxInv, AcceptedInv, Taken
<1>7. FreshInv' /\ KnownInv'
  <2>1. \A n \in Blobs : (InNoList(n) => InNoList(n)') /\ (InNoHistory(n) => InNoHistory(n)')
    BY <1>1, <1>2, DiskStaysFresh DEF InNoList, InNoHistory
  <2> QED
    BY <1>1, <2>1 DEF OutboxInv, FreshInv, KnownInv
<1>8. SessionInv'
  BY <1>1, <1>2, <1>5 DEF OutboxInv, SessionInv
<1>9. KeptInv'
  <2> SUFFICES ASSUME NEW n \in Blobs \ cut, NEW u, u = owner[n], u \notin early \cup {None}
               PROVE  IsQueued(n, u)' /\ IsKept(n, u)'
    BY <1>1 DEF KeptInv
  <2>1. u \in Accounts /\ IsQueued(n, u) /\ IsKept(n, u)
    BY DEF OutboxInv, OutboxTypes, KeptInv
  <2>2. Shorter(puts', u, n)
    BY <1>1, <1>2, <2>1, OneWriteLess
  <2> QED
    BY <1>1, <1>5, <2>1, <2>2, StillKept
<1> QED
  BY <1>3, <1>4, <1>6, <1>7, <1>8, <1>9 DEF OutboxInv

LEMMA QueuedKeeps ==
  ASSUME OutboxInv, NEW m \in Blobs, Outbox!Queued(m)
  PROVE  OutboxInv'
<1> DEFINE w == Head(puts)
           W == Outbox!InBox(Tail(puts))
           e == [user |-> sendUser, what |-> "hist", val |-> history', by |-> m]
<1>1. /\ Outbox!Completes(m)
      /\ IF send[m] = "queueing"
         THEN Outbox!Stored(m, "pending", Tail(puts))
         ELSE send' = [send EXCEPT ![m] = "idle"] /\ puts' = Tail(puts) /\ UNCHANGED <<history, early>>
      /\ UNCHANGED <<sendUser, phase, owner, cut, known, sendOutbox, loop, claimed, sendAccepted>>
  BY DEF Outbox!Queued, Outbox!relay, Outbox!session
<1>2. m # None /\ m \notin Handlers
  BY OutboxAssumption
<1>3. /\ puts # <<>> /\ Outbox!Written /\ w.by = m /\ w \in Writes
      /\ Tail(puts) \in Seq(Writes) /\ Pending = W \cup {w}
      /\ Single(Tail(puts)) /\ (\A x \in W : x.by # m)
      /\ box' \in [Accounts -> Seq(Blobs)] /\ hist' \in [Accounts -> [Blobs -> Statuses]]
      /\ \A u \in Accounts : box'[u] = (IF w.what = "box" /\ w.user = u THEN w.val ELSE box[u])
  BY <1>1, <1>2, OneWriteDone
<1>4. /\ history \in [Blobs -> Statuses] /\ sendUser \in Accounts \cup {None} /\ puts \in Seq(Writes)
      /\ send \in [Blobs -> {"idle", "posting", "queueing", "storing"}]
  BY DEF OutboxInv, OutboxTypes
<1>5. send[m] = (IF w.what = "box" THEN "queueing" ELSE "storing")
  BY <1>3 DEF OutboxInv, WritesInv, AwaitedBy
<1>6. owner[m] # None
  BY <1>5 DEF OutboxInv, FreshInv
<1>7. \A l \in Handlers : \A n : (Takes(l, n)' <=> Takes(l, n)) /\ (IsAt(l, n)' <=> IsAt(l, n))
  BY <1>1 DEF Takes, IsAt
<1>8. CASE send[m] = "queueing"
  <2>1. InNoHistory(m)
    BY <1>8 DEF OutboxInv, FreshInv
  <2>2. /\ history' = [history EXCEPT ![m] = "pending"]
        /\ Outbox!Save("hist", history', m, Tail(puts))
        /\ send' = [send EXCEPT ![m] = "storing"]
    BY <1>1, <1>8, <2>1 DEF Outbox!Stored, InNoHistory
  <2>3. /\ puts' = Append(Tail(puts), e) /\ early' \subseteq Accounts /\ early \subseteq early'
        /\ \A u : u \notin early' /\ sendUser = u => phase # "hist"
    BY <2>2, SaveFacts
  <2>4. /\ history' \in [Blobs -> Statuses] /\ history'[m] = "pending"
        /\ \A n \in Blobs : n # m => history'[n] = history[n]
    BY <1>4, <2>2 DEF Statuses
  <2>5. /\ send' \in [Blobs -> {"idle", "posting", "queueing", "storing"}] /\ send'[m] = "storing"
        /\ \A n \in Blobs : n # m => send'[n] = send[n]
    BY <1>4, <2>2
  <2>6. e \in Writes /\ e.user = sendUser /\ e.what = "hist" /\ e.val = history' /\ e.by = m
    BY <1>4, <2>4, WriteRecord
  <2> HIDE DEF e, w, W
  <2>7. puts' \in Seq(Writes) /\ Pending' = W \cup {e}
    <3>1. PICK q \in Seq(Writes) : q = Tail(puts) /\ Outbox!InBox(q) = W
      BY <1>3 DEF W
    <3>2. Append(q, e) \in Seq(Writes) /\ Outbox!InBox(Append(q, e)) = W \cup {e}
      <4>1. e \in Writes
        BY <2>6
      <4>2. Outbox!InBox(Append(q, e)) = Outbox!InBox(q) \cup {e}
        BY <4>1, OneMore
      <4>3. Append(q, e) \in Seq(Writes)
        BY <4>1, OneMore
      <4> QED
        BY <3>1, <4>2, <4>3
    <3> QED
      BY <2>3, <3>1, <3>2 DEF Pending
  <2>8. OutboxTypes'
    BY <1>1, <1>3, <2>3, <2>4, <2>5, <2>7 DEF OutboxInv, OutboxTypes
  <2>9. LoopsInv' /\ WritesInv'
    <3>1. Single(puts')
      BY <1>3, <2>3, <2>6, PushWrite DEF W
    <3>2. AwaitedBy(Pending)'
      <4>1. AwaitedBy(W)
        BY <1>3 DEF OutboxInv, WritesInv, AwaitedBy
      <4>2. \A x \in W : x.by # m
        BY <1>3
      <4> QED
        BY <1>1, <1>2, <2>5, <2>6, <2>7, <4>1, <4>2 DEF AwaitedBy
    <3> QED
      BY <1>1, <1>3, <2>5, <2>7, <3>1, <3>2 DEF OutboxInv, LoopsInv, WritesInv
  <2>10. AcceptedInv'
    <3> SUFFICES ASSUME NEW n \in Blobs, ~(sendAccepted[n] > 0)
                 PROVE  /\ history'[n] # "sent" /\ ~Taken(n)'
                        /\ \A u \in Accounts : hist'[u][n] # "sent"
                        /\ \A x \in Pending' : x.what = "hist" => x.val[n] # "sent"
      BY <1>1 DEF AcceptedInv
    <3>1. /\ history[n] # "sent" /\ ~Taken(n)
          /\ \A u \in Accounts : hist[u][n] # "sent"
          /\ \A x \in Pending : x.what = "hist" => x.val[n] # "sent"
      BY DEF OutboxInv, AcceptedInv
    <3>2. \A u \in Accounts : hist'[u][n] # "sent"
      BY <1>1, <3>1, DiskStaysFresh
    <3>3. history'[n] # "sent"
      BY <2>4, <3>1
    <3>4. ~Taken(n)'
      BY <1>7, <3>1 DEF Taken
    <3>5. \A x \in W : x \in Pending
      BY <1>3
    <3> QED
      BY <2>6, <2>7, <3>1, <3>2, <3>3, <3>4, <3>5
  <2>11. FreshInv' /\ KnownInv'
    <3>1. \A n \in Blobs : InNoList(n) => InNoList(n)'
      BY <1>1, <1>3, <2>6, <2>7, DiskStaysFresh DEF InNoList
    <3>2. \A n \in Blobs : n # m /\ InNoHistory(n) => InNoHistory(n)'
      BY <1>1, <1>3, <2>4, <2>6, <2>7, DiskStaysFresh DEF InNoHistory
    <3> QED
      BY <1>1, <1>6, <2>5, <3>1, <3>2 DEF OutboxInv, FreshInv, KnownInv
  <2>12. SessionInv'
    BY <1>1, <1>2, <1>3, <1>7, <1>8, <2>5, <2>6, <2>7 DEF OutboxInv, SessionInv
  <2>13. KeptInv'
    <3> SUFFICES ASSUME NEW n \in Blobs \ cut, NEW u, u = owner[n], u \notin early' \cup {None}
                 PROVE  IsQueued(n, u)' /\ IsKept(n, u)'
      BY <1>1 DEF KeptInv
    <3>1. u \in Accounts /\ IsQueued(n, u) /\ IsKept(n, u)
      BY <2>3 DEF OutboxInv, OutboxTypes, KeptInv
    <3>2. CASE n = m
      <4>1. sendUser = u /\ phase = "open" /\ w.user = u
        BY <1>3, <1>8, <3>2 DEF OutboxInv, SessionInv
      <4>2. history[m] = "none"
        BY <2>1 DEF InNoHistory
      <4>3. Taken(m) \/ InBoxes(m, u)'
        <5> SUFFICES ASSUME ~Taken(m) PROVE InBoxes(m, u)'
          OBVIOUS
        <5>1. m \in Outbox!InBox(sendOutbox) /\ CarryFrom(puts, m, u, m)
          BY <1>8, <3>1, <3>2 DEF IsQueued
        <5>2. Carry(Pending, u, m)
          BY <1>3, <1>4, <5>1, PopWrite DEF Pending, w
        <5>3. m \in Outbox!InBox(box'[u])
          BY <1>3, <1>5, <1>8, <3>1, <4>1, <5>2 DEF Carry
        <5>4. Carry(Pending', u, m)
          BY <1>3, <2>6, <2>7, <5>2 DEF Carry
        <5> QED
          BY <1>1, <5>1, <5>3, <5>4 DEF InBoxes
      <4>4. \A l \in Handlers : Takes(l, m) => loop[l].pc # "marking"
        BY <3>1, <3>2, <4>2 DEF IsKept
      <4>5. Taken(m)' <=> Taken(m)
        BY <1>7 DEF Taken
      <4>6. IsKept(m, u)'
        BY <1>1, <1>7, <2>4, <4>1, <4>3, <4>4, <4>5 DEF IsKept
      <4>7. IsQueued(m, u)'
        BY <2>5 DEF IsQueued
      <4> QED
        BY <3>2, <4>6, <4>7
    <3>3. CASE n # m
      <4>1. Shorter(Tail(puts), u, n)
        BY <1>3, <3>1, OneWriteLess
      <4>2. send'[n] = send[n] /\ e.by # n /\ e.val[n] = history[n] /\ history'[n] = history[n]
        BY <2>4, <2>5, <2>6, <3>3
      <4> QED
        BY <1>1, <1>7, <2>3, <2>6, <3>1, <4>1, <4>2, KeptBySave
    <3> QED
      BY <3>2, <3>3
  <2> QED
    BY <2>8, <2>9, <2>10, <2>11, <2>12, <2>13 DEF OutboxInv
<1>9. CASE send[m] # "queueing"
  <2>1. /\ send' = [send EXCEPT ![m] = "idle"] /\ puts' = Tail(puts)
        /\ UNCHANGED <<history, early>>
    BY <1>1, <1>9
  <2>2. /\ send' \in [Blobs -> {"idle", "posting", "queueing", "storing"}] /\ send'[m] = "idle"
        /\ \A n \in Blobs : n # m => send'[n] = send[n]
    BY <1>4, <2>1
  <2>3. Pending' = W
    BY <2>1 DEF Pending
  <2> HIDE DEF e, w, W
  <2>4. OutboxTypes'
    BY <1>1, <1>3, <2>1, <2>2 DEF OutboxInv, OutboxTypes
  <2>5. LoopsInv' /\ WritesInv'
    BY <1>1, <1>2, <1>3, <2>1, <2>2, <2>3 DEF OutboxInv, LoopsInv, WritesInv, AwaitedBy
  <2>6. AcceptedInv'
    BY <1>1, <1>3, <1>7, <2>1, <2>3, DiskStaysFresh DEF OutboxInv, AcceptedInv, Taken
  <2>7. FreshInv' /\ KnownInv'
    <3>1. \A n \in Blobs : (InNoList(n) => InNoList(n)') /\ (InNoHistory(n) => InNoHistory(n)')
      BY <1>1, <1>3, <2>1, <2>3, DiskStaysFresh DEF InNoList, InNoHistory
    <3> QED
      BY <1>1, <1>6, <2>2, <3>1 DEF OutboxInv, FreshInv, KnownInv
  <2>8. SessionInv'
    BY <1>1, <1>3, <1>7, <2>2, <2>3 DEF OutboxInv, SessionInv
  <2>9. KeptInv'
    <3> SUFFICES ASSUME NEW n \in Blobs \ cut, NEW u, u = owner[n], u \notin early \cup {None}
                 PROVE  IsQueued(n, u)' /\ IsKept(n, u)'
      BY <1>1, <2>1 DEF KeptInv
    <3>1. u \in Accounts /\ IsQueued(n, u) /\ IsKept(n, u)
      BY DEF OutboxInv, OutboxTypes, KeptInv
    <3>2. Shorter(puts', u, n)
      BY <1>3, <2>1, <3>1, OneWriteLess
    <3>3. IsKept(n, u)' /\ (send'[n] = send[n] => IsQueued(n, u)')
      BY <1>1, <1>7, <2>1, <3>1, <3>2, StillKept
    <3>4. n = m => IsQueued(n, u)'
      BY <2>2 DEF IsQueued
    <3> QED
      BY <2>2, <3>3, <3>4
  <2> QED
    BY <2>4, <2>5, <2>6, <2>7, <2>8, <2>9 DEF OutboxInv
<1> QED
  BY <1>8, <1>9

LEMMA RemovedKeeps ==
  ASSUME OutboxInv, NEW l \in Handlers, Outbox!Removed(l)
  PROVE  OutboxInv'
<1> DEFINE w == Head(puts)
           W == Outbox!InBox(Tail(puts))
           e == [user |-> sendUser, what |-> "hist", val |-> history', by |-> l]
<1> PICK h : h = Head(loop[l].todo)
  OBVIOUS
<1>1. /\ Outbox!Completes(l)
      /\ IF loop[l].pc = "removing" /\ history[h] # "none"
         THEN /\ history' = [history EXCEPT ![h] = "sent"]
              /\ Outbox!Save("hist", history', l, Tail(puts))
              /\ loop' = [loop EXCEPT ![l].pc = "marking"]
         ELSE puts' = Tail(puts) /\ Outbox!Onward(l) /\ UNCHANGED <<history, early>>
      /\ UNCHANGED <<sendUser, phase, owner, cut, known, sendOutbox, send, claimed, sendAccepted>>
  BY DEF Outbox!Removed, Outbox!relay, Outbox!session
<1>2. l # None /\ l \notin Blobs
  BY OutboxAssumption
<1>3. /\ puts # <<>> /\ Outbox!Written /\ w.by = l /\ w \in Writes
      /\ Tail(puts) \in Seq(Writes) /\ Pending = W \cup {w}
      /\ Single(Tail(puts)) /\ (\A x \in W : x.by # l)
      /\ box' \in [Accounts -> Seq(Blobs)] /\ hist' \in [Accounts -> [Blobs -> Statuses]]
      /\ \A u \in Accounts : hist'[u] = (IF w.what = "hist" /\ w.user = u THEN w.val ELSE hist[u])
  BY <1>1, <1>2, OneWriteDone
<1>4. /\ history \in [Blobs -> Statuses] /\ sendUser \in Accounts \cup {None} /\ puts \in Seq(Writes)
      /\ loop \in [Handlers -> LoopRecords]
  BY DEF OutboxInv, OutboxTypes
<1>5. loop[l].pc = (IF w.what = "box" THEN "removing" ELSE "marking")
  BY <1>3 DEF OutboxInv, WritesInv, AwaitedBy
<1>6. loop[l].todo \in Seq(Blobs) /\ loop[l].todo # <<>> /\ loop[l].token
  BY <1>4, <1>5 DEF OutboxInv, LoopsInv, LoopRecords
<1>7. /\ h \in Blobs /\ IsAt(l, h) /\ Takes(l, h) /\ Taken(h)
      /\ \A n : IsAt(l, n) => n = h
  BY <1>5, <1>6, OneLess DEF Taken, Takes, IsAt
<1>8. sendAccepted[h] > 0
  BY <1>7 DEF OutboxInv, AcceptedInv
<1>9. h \notin cut => sendUser = owner[h] /\ w.user = owner[h]
  BY <1>3, <1>6, <1>7 DEF OutboxInv, SessionInv
<1>10. AwaitedBy(W) /\ \A n \in Blobs : send[n] = "queueing" => \E x \in W : x.by = n
  BY <1>2, <1>3 DEF OutboxInv, WritesInv, AwaitedBy
<1>11. CASE loop[l].pc = "removing" /\ history[h] # "none"
  <2>1. /\ history' = [history EXCEPT ![h] = "sent"]
        /\ Outbox!Save("hist", history', l, Tail(puts))
        /\ loop' = [loop EXCEPT ![l].pc = "marking"]
    BY <1>1, <1>11
  <2>2. /\ puts' = Append(Tail(puts), e) /\ early' \subseteq Accounts /\ early \subseteq early'
        /\ \A u : u \notin early' /\ sendUser = u => phase # "hist"
    BY <2>1, SaveFacts
  <2>3. /\ history' \in [Blobs -> Statuses] /\ history'[h] = "sent"
        /\ \A n \in Blobs : n # h => history'[n] = history[n]
    BY <1>4, <1>7, <2>1 DEF Statuses
  <2>4. /\ loop' \in [Handlers -> LoopRecords]
        /\ loop'[l].pc = "marking" /\ loop'[l].todo = loop[l].todo /\ loop'[l].token = loop[l].token
        /\ \A g \in Handlers : g # l => loop'[g] = loop[g]
    BY <1>4, <2>1 DEF LoopRecords
  <2>5. e \in Writes /\ e.user = sendUser /\ e.what = "hist" /\ e.val = history' /\ e.by = l
    BY <1>4, <2>3, WriteRecord
  <2> HIDE DEF e, w, W
  <2>6. puts' \in Seq(Writes) /\ Pending' = W \cup {e}
    <3>1. PICK q \in Seq(Writes) : q = Tail(puts) /\ Outbox!InBox(q) = W
      BY <1>3 DEF W
    <3>2. e \in Writes
      BY <2>5
    <3>3. Outbox!InBox(Append(q, e)) = Outbox!InBox(q) \cup {e}
      BY <3>2, OneMore
    <3>4. Append(q, e) \in Seq(Writes)
      BY <3>2, OneMore
    <3> QED
      BY <2>2, <3>1, <3>3, <3>4 DEF Pending
  <2>7. OutboxTypes'
    BY <1>1, <1>3, <2>2, <2>3, <2>4, <2>6 DEF OutboxInv, OutboxTypes
  <2>8. LoopsInv' /\ WritesInv'
    <3>1. Single(puts')
      BY <1>3, <2>2, <2>5, PushWrite DEF W
    <3>2. AwaitedBy(Pending)'
      <4>1. \A x \in W : x.by # l
        BY <1>3
      <4> QED
        BY <1>1, <1>2, <1>10, <2>4, <2>5, <2>6, <4>1 DEF AwaitedBy
    <3>3. LoopsInv'
      BY <1>6, <2>4 DEF OutboxInv, LoopsInv
    <3> QED
      BY <1>1, <1>10, <2>6, <3>1, <3>2, <3>3 DEF WritesInv
  <2>9. \A g \in Handlers : \A n : (Takes(g, n)' <=> Takes(g, n)) /\ (IsAt(g, n)' <=> IsAt(g, n))
    BY <1>11, <2>4 DEF Takes, IsAt
  <2>10. AcceptedInv'
    <3> SUFFICES ASSUME NEW n \in Blobs, ~(sendAccepted[n] > 0)
                 PROVE  /\ history'[n] # "sent" /\ ~Taken(n)'
                        /\ \A u \in Accounts : hist'[u][n] # "sent"
                        /\ \A x \in Pending' : x.what = "hist" => x.val[n] # "sent"
      BY <1>1 DEF AcceptedInv
    <3>1. /\ history[n] # "sent" /\ ~Taken(n)
          /\ \A u \in Accounts : hist[u][n] # "sent"
          /\ \A x \in Pending : x.what = "hist" => x.val[n] # "sent"
      BY DEF OutboxInv, AcceptedInv
    <3>2. \A u \in Accounts : hist'[u][n] # "sent"
      BY <1>1, <3>1, DiskStaysFresh
    <3>3. history'[n] # "sent"
      BY <1>8, <2>3, <3>1
    <3>4. ~Taken(n)'
      BY <2>9, <3>1 DEF Taken
    <3>5. \A x \in W : x \in Pending
      BY <1>3
    <3> QED
      BY <2>5, <2>6, <3>1, <3>2, <3>3, <3>4, <3>5
  <2>11. FreshInv' /\ KnownInv'
    <3>0. \A g \in Handlers : loop'[g].todo = loop[g].todo
      BY <2>4
    <3>1. \A n \in Blobs : InNoList(n) => InNoList(n)'
      BY <1>1, <1>3, <2>5, <2>6, <3>0, DiskStaysFresh DEF InNoList
    <3>2. \A n \in Blobs : InNoHistory(n) => InNoHistory(n)'
      BY <1>1, <1>3, <1>11, <2>3, <2>5, <2>6, DiskStaysFresh DEF InNoHistory
    <3> QED
      BY <1>1, <3>1, <3>2 DEF OutboxInv, FreshInv, KnownInv
  <2>12. SessionInv'
    <3> SUFFICES ASSUME NEW n \in Blobs \ cut
                 PROVE  /\ send[n] # "idle" => sendUser = owner[n] /\ phase = "open"
                        /\ \A x \in Pending' : x.by = n => x.user = owner[n]
                        /\ \A g \in Handlers : IsAt(g, n) =>
                             /\ loop'[g].token => sendUser = owner[n]
                             /\ \A x \in Pending' : x.by = g => x.user = owner[n]
      BY <1>1, <2>9 DEF SessionInv
    <3>1. \A g \in Handlers : loop'[g].token = loop[g].token
      BY <2>4
    <3>2. \A x \in W : x \in Pending /\ x.by # l
      BY <1>3
    <3>3. IsAt(l, n) => n = h
      BY <1>7
    <3> QED
      BY <1>2, <1>9, <2>5, <2>6, <3>1, <3>2, <3>3 DEF OutboxInv, SessionInv
  <2>13. KeptInv'
    <3> SUFFICES ASSUME NEW n \in Blobs \ cut, NEW u, u = owner[n], u \notin early' \cup {None}
                 PROVE  IsQueued(n, u)' /\ IsKept(n, u)'
      BY <1>1 DEF KeptInv
    <3>1. u \in Accounts /\ IsQueued(n, u) /\ IsKept(n, u)
      BY <2>2 DEF OutboxInv, OutboxTypes, KeptInv
    <3>2. CASE n = h
      <4>1. phase = "open"
        BY <1>7, <3>1, <3>2 DEF IsKept
      <4>2. IsQueued(h, u)'
        BY <1>1, <1>7, <1>11 DEF IsQueued, OutboxInv, FreshInv, InNoHistory
      <4>3. Taken(h)'
        BY <1>7, <2>9 DEF Taken
      <4>4. \A x : SentFrom(Tail(puts), x, u, h) => SentFrom(puts', x, u, h)
        BY <1>3, <2>2, <2>3, <2>5, PushWrite
      <4>5. SentFrom(Tail(puts), l, u, h)
        BY <1>3, NoWriteYet DEF W
      <4>6. \A g \in Handlers : Takes(g, h) /\ loop[g].pc = "marking" => SentFrom(Tail(puts), g, u, h)
        BY <1>3, <1>4, <3>1, <3>2, PopWrite DEF IsKept
      <4>7. IsKept(h, u)'
        BY <1>1, <2>3, <2>4, <2>9, <4>1, <4>3, <4>4, <4>5, <4>6 DEF IsKept
      <4> QED
        BY <3>2, <4>2, <4>7
    <3>3. CASE n # h
      <4>1. Shorter(Tail(puts), u, n)
        BY <1>3, <3>1, OneWriteLess
      <4>2. send'[n] = send[n] /\ e.by # n /\ e.val[n] = history[n] /\ history'[n] = history[n]
        BY <1>1, <1>2, <2>3, <2>5, <3>3
      <4>3. \A g \in Handlers : (Takes(g, n)' <=> Takes(g, n)) /\ (Takes(g, n) => loop'[g].pc = loop[g].pc)
        BY <1>7, <2>4, <2>9, <3>3 DEF Takes
      <4> QED
        BY <1>1, <2>2, <2>5, <3>1, <4>1, <4>2, <4>3, KeptBySave
    <3> QED
      BY <3>2, <3>3
  <2> QED
    BY <2>7, <2>8, <2>10, <2>11, <2>12, <2>13 DEF OutboxInv
<1>12. CASE ~(loop[l].pc = "removing" /\ history[h] # "none")
  <2> DEFINE todo == Tail(loop[l].todo)
  <2>1. /\ puts' = Tail(puts) /\ UNCHANGED <<history, early>>
        /\ loop' = [loop EXCEPT ![l] = IF todo = <<>> THEN Outbox!IdleLoop ELSE Outbox!Post(todo)]
    BY <1>1, <1>12 DEF Outbox!Onward
  <2>2. todo \in Seq(Blobs) /\ Outbox!InBox(todo) \subseteq Outbox!InBox(loop[l].todo)
    BY <1>6, OneLess
  <2> HIDE DEF todo
  <2>3. /\ loop'[l].pc \in {"idle", "posting"} /\ loop'[l].todo = todo
        /\ loop'[l].pc # "idle" => todo # <<>> /\ loop'[l].token = (sendUser = owner[Head(todo)])
        /\ \A g \in Handlers : g # l => loop'[g] = loop[g]
        /\ loop' \in [Handlers -> LoopRecords]
    BY <2>1, <2>2, NextTurn
  <2>4. Pending' = W
    BY <2>1 DEF Pending
  <2> HIDE DEF e, w, W
  <2>5. OutboxTypes'
    BY <1>1, <1>3, <2>1, <2>3 DEF OutboxInv, OutboxTypes
  <2>6. LoopsInv' /\ WritesInv'
    <3>1. LoopsInv'
      BY <2>3 DEF OutboxInv, LoopsInv
    <3>2. \A x \in W : x.by # l
      BY <1>3
    <3>3. AwaitedBy(Pending)'
      BY <1>1, <1>10, <2>3, <2>4, <3>2 DEF AwaitedBy
    <3>4. Single(puts')
      BY <1>3, <2>1
    <3> QED
      BY <1>1, <1>10, <2>4, <3>1, <3>3, <3>4 DEF WritesInv
  <2>7. /\ \A g \in Handlers : \A n : g # l => (Takes(g, n)' <=> Takes(g, n)) /\ (IsAt(g, n)' <=> IsAt(g, n))
        /\ \A n : ~Takes(l, n)'
    BY <2>3 DEF Takes, IsAt
  <2>8. AcceptedInv'
    <3>1. \A n : Taken(n)' => Taken(n)
      BY <2>7 DEF Taken
    <3> QED
      BY <1>1, <1>3, <2>1, <2>4, <3>1, DiskStaysFresh DEF OutboxInv, AcceptedInv
  <2>9. FreshInv' /\ KnownInv'
    <3>1. \A g \in Handlers : Outbox!InBox(loop'[g].todo) \subseteq Outbox!InBox(loop[g].todo)
      BY <2>2, <2>3
    <3>2. \A n \in Blobs : InNoList(n) => InNoList(n)'
      BY <1>1, <1>3, <2>4, <3>1, DiskStaysFresh DEF InNoList
    <3>3. \A n \in Blobs : InNoHistory(n) => InNoHistory(n)'
      BY <1>1, <1>3, <2>1, <2>4, DiskStaysFresh DEF InNoHistory
    <3> QED
      BY <1>1, <3>2, <3>3 DEF OutboxInv, FreshInv, KnownInv
  <2>10. SessionInv'
    <3> SUFFICES ASSUME NEW n \in Blobs \ cut
                 PROVE  /\ send[n] # "idle" => sendUser = owner[n] /\ phase = "open"
                        /\ \A x \in W : x.by = n => x.user = owner[n]
                        /\ \A g \in Handlers : IsAt(g, n)' =>
                             /\ loop'[g].token => sendUser = owner[n]
                             /\ \A x \in W : x.by = g => x.user = owner[n]
      BY <1>1, <2>4 DEF SessionInv
    <3>1. \A x \in W : x \in Pending /\ x.by # l
      BY <1>3
    <3>2. IsAt(l, n)' => (loop'[l].token => sendUser = owner[n])
      BY <2>3 DEF IsAt
    <3> QED
      BY <2>3, <2>7, <3>1, <3>2 DEF OutboxInv, SessionInv
  <2>11. KeptInv'
    <3> SUFFICES ASSUME NEW n \in Blobs \ cut, NEW u, u = owner[n], u \notin early \cup {None}
                 PROVE  IsQueued(n, u)' /\ IsKept(n, u)'
      BY <1>1, <2>1 DEF KeptInv
    <3>1. u \in Accounts /\ IsQueued(n, u) /\ IsKept(n, u)
      BY DEF OutboxInv, OutboxTypes, KeptInv
    <3>2. Shorter(puts', u, n)
      BY <1>3, <2>1, <3>1, OneWriteLess
    <3>3. CASE n = h
      <4>1. phase = "open" /\ sendUser = u /\ w.user = u
        BY <1>7, <1>9, <3>1, <3>3 DEF IsKept
      <4>2. send[h] # "queueing"
        <5>1. send[h] = "queueing" => Before(puts, h, l)
          BY <1>7, <3>1, <3>3 DEF IsQueued
        <5>2. Before(puts, h, l) => \A x \in Pending : x.by # h
          BY <1>3, <1>4, PopWrite DEF Pending, w
        <5> QED
          BY <1>3, <1>7, <1>10, <5>1, <5>2
      <4>3. ~PendingOnDisk(h, u)' /\ history[h] # "pending"
        <5>1. CASE loop[l].pc = "removing"
          <6>1. ~PendingOnDisk(h, u)
            BY <1>12, <3>1, <3>3, <4>1, <5>1 DEF IsKept, Open
          <6> QED
            BY <1>12, <3>2, <3>3, <5>1, <6>1 DEF Shorter, PendingOnDisk, Pending
        <5>2. CASE loop[l].pc = "marking"
          <6>1. history[h] = "sent" /\ SentFrom(puts, l, u, h)
            BY <1>7, <3>1, <3>3, <5>2 DEF IsKept
          <6>2. ~Pends(Pending, u, h)
            BY <1>3, <1>4, <6>1, PopWrite DEF Pending, w
          <6>3. ~Pends(W, u, h)
            BY <1>3, <6>2 DEF Pends
          <6>4. hist'[u][h] # "pending"
            <7>1. w.what = "hist"
              BY <1>3, <1>5, <5>2 DEF Writes
            <7>2. w \in Pending /\ hist'[u] = w.val
              BY <1>3, <3>1, <4>1, <7>1
            <7> QED
              BY <4>1, <6>2, <7>1, <7>2 DEF Pends
          <6> QED
            BY <2>4, <6>1, <6>3, <6>4 DEF PendingOnDisk
        <5> QED
          BY <1>5, <5>1, <5>2
      <4>4. IsKept(h, u)'
        BY <1>1, <2>1, <2>3, <2>7, <3>1, <3>2, <3>3, <4>1, <4>3 DEF IsKept, Open, Shorter
      <4>5. IsQueued(h, u)'
        BY <1>1, <4>2 DEF IsQueued
      <4> QED
        BY <3>3, <4>4, <4>5
    <3>4. CASE n # h
      <4>1. ~Takes(l, n)
        BY <1>7, <3>4 DEF Takes
      <4>2. \A g \in Handlers : (Takes(g, n)' <=> Takes(g, n)) /\ (Takes(g, n) => loop'[g] = loop[g])
        BY <2>3, <2>7, <4>1
      <4> QED
        BY <1>1, <2>1, <3>1, <3>2, <4>2, StillKept
    <3> QED
      BY <3>3, <3>4
  <2> QED
    BY <2>5, <2>6, <2>8, <2>9, <2>10, <2>11 DEF OutboxInv
<1> QED
  BY <1>11, <1>12

-----------------------------------------------------------------------------
LEMMA OutboxStep == OutboxInv /\ [Outbox!Next]_sendVars => OutboxInv'
<1> SUFFICES ASSUME OutboxInv, [Outbox!Next]_sendVars PROVE OutboxInv'
  OBVIOUS
<1>1. CASE Outbox!Logout \/ Outbox!Reload \/ Outbox!LoadHistory \/ Outbox!LoadOutbox
  BY <1>1, LogoutKeeps, PageReloads, LoadHistoryKeeps, LoadOutboxKeeps
<1>2. CASE Outbox!RegisterSaved \/ Outbox!ClaimEnds
  BY <1>2, RegisterSavedKeeps, ClaimEndsKeeps
<1>3. ASSUME NEW u \in Accounts, Outbox!Login(u) \/ Outbox!Register(u) PROVE OutboxInv'
  BY <1>3, LoginKeeps, RegisterKeeps
<1>4. ASSUME NEW m \in Blobs,
             Outbox!Send(m) \/ Outbox!SendDone(m) \/ Outbox!SendQueued(m) \/ Outbox!Queued(m)
      PROVE  OutboxInv'
  BY <1>4, SendKeeps, SendDoneKeeps, SendQueuedKeeps, QueuedKeeps
<1>5. ASSUME NEW l \in Handlers,
             Outbox!FlushStart(l) \/ Outbox!Kept(l) \/ Outbox!Removing(l) \/ Outbox!Removed(l)
      PROVE  OutboxInv'
  BY <1>5, FlushStartKeeps, KeptKeeps, RemovingKeeps, RemovedKeeps
<1>6. CASE UNCHANGED sendVars
  <2>1. UNCHANGED <<sendUser, phase, owner, sendOutbox, history, box, hist, puts, early, send, loop,
                    claimed, sendAccepted, cut, known>>
    BY <1>6 DEF sendVars
  <2>2. OutboxTypes' /\ LoopsInv' /\ WritesInv' /\ AcceptedInv'
    BY <2>1 DEF OutboxInv, OutboxTypes, LoopsInv, WritesInv, AwaitedBy, AcceptedInv, Pending, Taken, Takes, IsAt
  <2>3. FreshInv' /\ KnownInv' /\ SessionInv'
    BY <2>1 DEF OutboxInv, FreshInv, InNoList, InNoHistory, Pending, KnownInv, SessionInv, IsAt
  <2>4. KeptInv'
    BY <2>1 DEF OutboxInv, KeptInv, IsQueued, IsKept, Open, PendingOnDisk, InBoxes, Pending, Taken, Takes, IsAt
  <2> QED
    BY <2>2, <2>3, <2>4 DEF OutboxInv
<1> QED
  BY <1>1, <1>2, <1>3, <1>4, <1>5, <1>6 DEF Outbox!Next

LEMMA OutboxHolds == OutboxInv => Outbox!TypeOK /\ Outbox!NothingForgotten
<1> SUFFICES ASSUME OutboxInv PROVE Outbox!TypeOK /\ Outbox!NothingForgotten
  OBVIOUS
<1>1. Outbox!TypeOK
  <2>1. Outbox!InBox(sendOutbox) \subseteq Blobs /\ \A u \in Accounts : Outbox!InBox(box[u]) \subseteq Blobs
    BY InList DEF OutboxInv, OutboxTypes
  <2>2. \A i \in 1..Len(puts) : puts[i].user \in Accounts \cup {None} /\ puts[i].what \in {"box", "hist"}
    <3>1. \A i \in 1..Len(puts) : puts[i] \in Writes
      BY DEF OutboxInv, OutboxTypes
    <3> QED
      BY <3>1 DEF Writes
  <2>3. \A l \in Handlers : /\ loop[l].pc \in {"idle", "posting", "removing", "marking"}
                            /\ loop[l].token \in BOOLEAN /\ loop[l].todo \in Seq(Blobs)
    BY DEF OutboxInv, OutboxTypes, LoopRecords
  <2>4. \A l \in Handlers : Outbox!InBox(loop[l].todo) \subseteq Blobs
    BY <2>3, InList
  <2> QED
    BY <2>1, <2>2, <2>3, <2>4 DEF OutboxInv, OutboxTypes, Statuses, Outbox!TypeOK
<1>2. \A m \in Blobs : Taken(m) => sendAccepted[m] > 0
  BY DEF OutboxInv, AcceptedInv
<1>3. Outbox!PendingIsKept
  <2> SUFFICES ASSUME NEW u \in Accounts \ early, NEW m \in Blobs \ cut, hist[u][m] = "pending", owner[m] = u
               PROVE  sendAccepted[m] > 0 \/ \E v \in Accounts : m \in Outbox!InBox(box[v])
    BY DEF Outbox!PendingIsKept
  <2>1. IsKept(m, u) /\ PendingOnDisk(m, u)
    BY OutboxAssumption DEF OutboxInv, KeptInv, PendingOnDisk
  <2> QED
    BY <1>2, <2>1 DEF IsKept, InBoxes
<1>4. Outbox!SentIsAccepted
  BY DEF OutboxInv, AcceptedInv, Outbox!SentIsAccepted
<1>5. Outbox!PendingIsQueued
  <2> SUFFICES ASSUME NEW m \in Blobs \ cut, sendUser \notin early \cup {None}, phase = "open",
                      history[m] = "pending", owner[m] = sendUser
               PROVE  \/ m \in Outbox!InBox(sendOutbox)
                      \/ \E l \in Handlers : loop[l].pc = "removing" /\ Head(loop[l].todo) = m
    BY DEF Outbox!PendingIsQueued
  <2>1. IsKept(m, sendUser) /\ Open(sendUser)
    BY DEF OutboxInv, KeptInv, Open
  <2>2. CASE InBoxes(m, sendUser)
    BY <2>2 DEF InBoxes
  <2>3. CASE Taken(m)
    <3>1. PICK l \in Handlers : Takes(l, m)
      BY <2>3 DEF Taken
    <3>2. loop[l].pc # "marking"
      BY <2>1, <3>1 DEF IsKept
    <3>3. loop[l].pc \in {"idle", "posting", "removing", "marking"}
      BY DEF OutboxInv, OutboxTypes, LoopRecords
    <3> QED
      BY <3>1, <3>2, <3>3 DEF Takes, IsAt
  <2> QED
    BY <2>1, <2>2, <2>3 DEF IsKept
<1> QED
  BY <1>1, <1>3, <1>4, <1>5 DEF Outbox!NothingForgotten

-----------------------------------------------------------------------------
(* The part of a behaviour never changes, and only one part runs.            *)
PartsInv ==
  /\ part = "send" => OutboxInv
  /\ part = "states" => StatesInv

LEMMA PartsStart == PartInit => PartsInv
BY StatesInit, OutboxInit DEF PartInit, PartsInv

LEMMA PartsStep == PartsInv /\ [PartNext]_partVars => PartsInv'
<1> SUFFICES ASSUME PartsInv, [PartNext]_partVars PROVE PartsInv'
  OBVIOUS
<1>1. ASSUME part' = "send" PROVE OutboxInv'
  <2>1. part = "send" /\ [Outbox!Next]_sendVars
    BY <1>1 DEF PartNext, partVars
  <2> QED
    BY <2>1, OutboxStep DEF PartsInv
<1>2. ASSUME part' = "states" PROVE StatesInv'
  <2>1. part = "states" /\ [States!Next]_statesVars
    BY <1>2 DEF PartNext, partVars
  <2> QED
    BY <2>1, StatesStep DEF PartsInv
<1> QED
  BY <1>1, <1>2 DEF PartsInv

(* A call uses a ratchet state only when the vault has it: no number is      *)
(* posted twice or before the state that was advanced past it is saved, and  *)
(* what is shown is consumed for good (_doSaveRatchetState is awaited before *)
(* the relay is asked and before the plaintext is handed on).                *)
THEOREM SavedBeforeUsed == PartSpec => []StateBeforeUse
<1>1. PartsInv => StateBeforeUse
  BY StatesHold DEF PartsInv, StateBeforeUse
<1> QED
  BY <1>1, PartsStart, PartsStep, PTL DEF PartSpec

(* A message a chat shows as pending is in an outbox or already with the     *)
(* relay, and what a chat calls sent the relay has accepted, in whatever     *)
(* order answers, writes, overlapping runs of flushOutbox, logins, logouts   *)
(* and reloads come (sendBlob awaits OUTBOX_ADDED before the message is      *)
(* stored as pending, flushOutbox OUTBOX_REMOVED before it is marked sent).  *)
THEOREM NothingIsForgotten == PartSpec => []NothingForgotten
<1>1. PartsInv => NothingForgotten
  BY OutboxHolds DEF PartsInv, NothingForgotten
<1> QED
  BY <1>1, PartsStart, PartsStep, PTL DEF PartSpec
==============================================================================
