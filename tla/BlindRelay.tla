------------------------------ MODULE BlindRelay ------------------------------
(* BlindRelay (network_core/blind_relay.py): the queue in RAM that keeps a   *)
(* blob for a receiver who is offline, until it is fetched, cleared or its   *)
(* time runs out. Its methods hold self.lock and do not suspend while they   *)
(* hold it (_destroy_blob has no await), so each is one step. Destruction    *)
(* is also promised by one asyncio task per blob, which sleeps for the TTL.  *)
EXTENDS RelayModel, FiniteSets, Functions

VARIABLES
  now,
  pending_blobs,   \* blob_id -> entry, for the ids that are in the dict
  blind_counter,
  timers,          \* sleeping _schedule_destruction tasks: id and wake-up time
  ended            \* history: how the blobs that left the queue left it

vars == <<now, pending_blobs, blind_counter, timers, ended>>

(* The id is a hash of sender, receiver, clock and counter; sender and       *)
(* receiver are the same for all the blobs of a conversation.                *)
Ids == [at : 0..MaxTime, count : 0..MaxCount]

(* Mutant: the id is a hash of sender, receiver and clock.                   *)
BlobIdWithoutCounter == [at |-> now, count |-> 0]

BlobId == [at |-> now, count |-> blind_counter]

Entries == [blob : Blobs, receiver : Users, expires_at : Nat]

Reasons == {"handed", "expired", "cleared", "deleted"}

Init ==
  /\ now = 0
  /\ pending_blobs = << >>
  /\ blind_counter = 0
  /\ timers = {}
  /\ ended = {}

Pending == DOMAIN pending_blobs

(* relay_blob: stored under the lock, then the destruction task is created.  *)
Relay(blob, u, ttl) ==
  /\ blind_counter < MaxCount
  /\ LET e == [blob |-> blob, receiver |-> u, expires_at |-> now + ttl]
     IN pending_blobs' = [i \in Pending \cup {BlobId} |->
                            IF i = BlobId THEN e ELSE pending_blobs[i]]
  /\ timers' = timers \cup {[id |-> BlobId, due |-> now + ttl]}
  /\ blind_counter' = blind_counter + 1
  /\ UNCHANGED <<now, ended>>

(* _destroy_blob, for each id in the domain of how (the reasons); ids that   *)
(* are gone are skipped.                                                     *)
Destroy(how) ==
  LET ids == DOMAIN how \cap Pending IN
  /\ pending_blobs' = Restrict(pending_blobs, Pending \ ids)
  /\ ended' = ended \cup {[id |-> i, how |-> how[i]] : i \in ids}

QueueOf(u) == {i \in Pending : pending_blobs[i].receiver = u}

(* What a fetch returns: the receiver's blobs that have not expired.         *)
Fetched(u) == {i \in QueueOf(u) : now <= pending_blobs[i].expires_at}

(* fetch_blobs_for_receiver: the expired ones are destroyed with the rest.   *)
Fetch(u) ==
  /\ QueueOf(u) # {}
  /\ Destroy([i \in QueueOf(u) |-> IF i \in Fetched(u) THEN "handed" ELSE "expired"])
  /\ UNCHANGED <<now, blind_counter, timers>>

(* clear_user_queue: "Al cerrar sesion".                                     *)
Clear(u) ==
  /\ QueueOf(u) # {}
  /\ Destroy([i \in QueueOf(u) |-> "cleared"])
  /\ UNCHANGED <<now, blind_counter, timers>>

(* GET /api/blob/{id}?delete=true.                                           *)
Delete(i) ==
  /\ i \in Pending
  /\ Destroy([j \in {i} |-> "deleted"])
  /\ UNCHANGED <<now, blind_counter, timers>>

(* _schedule_destruction wakes up; its blob may have left long ago.          *)
Expire(t) ==
  /\ t \in timers /\ t.due <= now
  /\ timers' = timers \ {t}
  /\ Destroy([i \in {t.id} |-> "expired"])
  /\ UNCHANGED <<now, blind_counter>>

(* The server stops and starts again: RAM and tasks are gone, and the new    *)
(* object counts from zero at a later time.                                  *)
Restart ==
  /\ now < MaxTime
  /\ now' = now + 1
  /\ pending_blobs' = << >>
  /\ blind_counter' = 0
  /\ timers' = {}
  /\ UNCHANGED ended

(* Time passes, but not so far that a task oversleeps by more than Slack.    *)
Tick ==
  /\ now < MaxTime
  /\ \A t \in timers : now < t.due + Slack
  /\ now' = now + 1
  /\ UNCHANGED <<pending_blobs, blind_counter, timers, ended>>

Next ==
  \/ \E blob \in Blobs, u \in Users, ttl \in Ttls : Relay(blob, u, ttl)
  \/ \E u \in Users : Fetch(u) \/ Clear(u)
  \/ \E i \in Pending : Delete(i)
  \/ \E t \in timers : Expire(t)
  \/ Restart
  \/ Tick

Spec == Init /\ [][Next]_vars

-----------------------------------------------------------------------------
TypeOK ==
  /\ now \in 0..MaxTime
  /\ Pending \subseteq Ids
  /\ \A i \in Pending : pending_blobs[i] \in Entries
  /\ blind_counter \in 0..MaxCount
  /\ timers \subseteq [id : Ids, due : Nat]
  /\ ended \subseteq [id : Ids, how : Reasons]

(* Every blob in RAM has a task of its own that will destroy it no later     *)
(* than its TTL: none can be forgotten (class docstring: "Los ELIMINA        *)
(* despues de TTL").                                                         *)
EachHasTimer ==
  \A i \in Pending : \E t \in timers : t.id = i /\ t.due = pending_blobs[i].expires_at

(* Ciphertext does not outstay its TTL in RAM by more than the event loop's  *)
(* delay, and what is handed out on a fetch was still due.                   *)
NoOverstay == \A i \in Pending : now <= pending_blobs[i].expires_at + Slack

(* A blob leaves once: handed to its receiver, or else expired, cleared or   *)
(* deleted; a late task, a second fetch and a reused id never add a reason.  *)
LeavesOnce ==
  /\ \A x, y \in ended : x.id = y.id => x = y
  /\ \A x \in ended : x.id \notin Pending

(* The queue empties: no blob is forgotten, stays too long or leaves twice,  *)
(* whatever fetches, tasks and restarts meet.                                *)
EmptiesOnce == EachHasTimer /\ NoOverstay /\ LeavesOnce
=============================================================================
