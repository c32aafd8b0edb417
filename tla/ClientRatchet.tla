----------------------------- MODULE ClientRatchet -----------------------------
(* One contact's ratchet in the page: the cache and the vault in front of the *)
(* WASM session (sync_manager.js, double_ratchet.js), and the envelope        *)
(* sendBlob chooses. The session itself is abstracted to the numbers it has   *)
(* used: each message of either side has one, and a number opens only once.   *)
(* Calls run concurrently and give way at their awaits: reads and writes of   *)
(* IndexedDB, which keeps their order, and the fetch of the contact's key.    *)
EXTENDS Naturals, Sequences

CONSTANTS
  Calls,       \* sendBlob and processIncomingBlob in progress
  MaxSent,     \* bound: messages sent
  Numbers,     \* numbers of the contact's messages
  None

VARIABLES
  cached,      \* this.ratchets[contact]
  session,     \* the session in WASM, or None
  disk,        \* ratchet_state_<contact>, or None
  idb,         \* requests IndexedDB has not completed
  shared,      \* contacts.sharedKeys has a key for the contact
  unlocked,    \* storage.isUnlocked
  calls,
  posted,      \* number -> how many messages went out under it
  envelope,    \* <<kind of payload, envelope>> of what went out last
  shown,       \* the contact's messages that were handed on
  spoiled      \* a session was put over a live one, or a write was lost

vars == <<cached, session, disk, idb, shared, unlocked, calls, posted,
          envelope, shown, spoiled>>
wasm == <<cached, session>>
out == <<posted, envelope, shown>>

(* What is sent, by what the choice of the envelope looks at: a message, a    *)
(* contact request or verification, key material for someone who has it not   *)
(* yet (contact_accept), or for a possible contact (group_invite, _rekey).    *)
Kinds == {"message", "request", "accept", "key"}
Carriers == {"accept", "key"}

Fresh == [sent |-> 0, got |-> {}]
Sessions == [sent : 0..MaxSent, got : SUBSET Numbers]
Idle == [pc |-> "idle", kind |-> "none", num |-> 0]

Init ==
  /\ cached = FALSE /\ session = None /\ disk = None /\ idb = <<>>
  /\ shared = FALSE /\ unlocked = TRUE
  /\ calls = [c \in Calls |-> Idle]
  /\ posted = [n \in 1..MaxSent |-> 0] /\ envelope = <<None, None>> /\ shown = {}
  /\ spoiled = FALSE

Get(c) == [what |-> "get", by |-> c, val |-> None]
Put(c, v) == [what |-> "put", by |-> c, val |-> v]
Ends(c) == calls' = [calls EXCEPT ![c] = Idle]
At(c, pc) == calls' = [calls EXCEPT ![c].pc = pc]

(* exportState and storage.save; a closed vault swallows the write.           *)
Persist(c, s, queue) ==
  /\ idb' = Append(queue, Put(c, IF unlocked THEN s ELSE None))

-----------------------------------------------------------------------------
(* sealMessage: the next number of session s.                                 *)
Seal(c, s, queue) ==
  IF s.sent < MaxSent
  THEN LET t == [s EXCEPT !.sent = @ + 1] IN
       /\ session' = t
       /\ calls' = [calls EXCEPT ![c].pc = "saving", ![c].num = t.sent]
       /\ Persist(c, t, queue)
  ELSE session' = s /\ Ends(c) /\ idb' = queue

(* openMessage: fails on a number that was used, and so does v1 after it.     *)
Open(c, s, queue) ==
  IF calls[c].num \notin s.got
  THEN LET t == [s EXCEPT !.got = @ \cup {calls[c].num}] IN
       /\ session' = t /\ At(c, "saving") /\ Persist(c, t, queue)
  ELSE session' = s /\ Ends(c) /\ idb' = queue

Operate(c, s, queue) ==
  /\ calls[c].kind # "none" => Seal(c, s, queue)
  /\ calls[c].kind = "none" => Open(c, s, queue)

(* getOrInitRatchet: the cached ratchet, or first the state on disk.          *)
Obtain(c, call) ==
  /\ calls' = [calls EXCEPT ![c] = [call EXCEPT !.pc = "loading"]]
  /\ idb' = Append(idb, Get(c))

-----------------------------------------------------------------------------
(* sendBlob after the keys are resolved. An accept is sealed to the           *)
(* contact's public key, a request goes as v1; the rest tries the ratchet.    *)
Direct(kind) == IF kind = "accept" THEN "sealed_v1" ELSE "v1"

SendPlain(c, kind) ==
  /\ calls[c] = Idle /\ kind \in {"accept", "request"}
  /\ envelope' = <<kind, Direct(kind)>>
  /\ UNCHANGED <<wasm, disk, idb, shared, unlocked, calls, posted, shown, spoiled>>

SendBegin(c, kind) ==
  /\ calls[c] = Idle /\ kind \in {"message", "key"} /\ ~cached
  /\ Obtain(c, [Idle EXCEPT !.kind = kind])
  /\ UNCHANGED <<wasm, disk, shared, unlocked, out, spoiled>>

(* A second user of a cached ratchet does not wait: encrypt, then save.       *)
SendCached(c, kind) ==
  /\ calls[c] = Idle /\ kind \in {"message", "key"} /\ cached
  /\ session.sent < MaxSent
  /\ LET t == [session EXCEPT !.sent = @ + 1] IN
     /\ session' = t
     /\ calls' = [calls EXCEPT ![c] = [pc |-> "saving", kind |-> kind, num |-> t.sent]]
     /\ Persist(c, t, idb)
  /\ UNCHANGED <<cached, disk, shared, unlocked, out, spoiled>>

(* processIncomingBlob on a v2 envelope, which may arrive twice (REST and     *)
(* WebSocket).                                                                *)
OpenBegin(c, n) ==
  /\ calls[c] = Idle /\ ~cached
  /\ Obtain(c, [Idle EXCEPT !.num = n])
  /\ UNCHANGED <<wasm, disk, shared, unlocked, out, spoiled>>

OpenCached(c, n) ==
  /\ calls[c] = Idle /\ cached /\ n \notin session.got
  /\ LET t == [session EXCEPT !.got = @ \cup {n}] IN
     /\ session' = t
     /\ calls' = [calls EXCEPT ![c] = [pc |-> "saving", kind |-> "none", num |-> n]]
     /\ Persist(c, t, idb)
  /\ UNCHANGED <<cached, disk, shared, unlocked, out, spoiled>>

-----------------------------------------------------------------------------
Completes(c, what) == idb # <<>> /\ Head(idb).by = c /\ Head(idb).what = what

(* The state was read and is there: loadState puts it over the session, if    *)
(* there is one by now or not, and the call goes on.                          *)
Imported(c) ==
  /\ Completes(c, "get") /\ disk # None /\ unlocked
  /\ cached' = TRUE
  /\ spoiled' = (spoiled \/ cached)
  /\ Operate(c, disk, Tail(idb))
  /\ UNCHANGED <<disk, shared, unlocked, out>>

(* There is none (or the vault is closed).                                    *)
NotFound(c) ==
  /\ Completes(c, "get") /\ (disk = None \/ ~unlocked)
  /\ idb' = Tail(idb)
  /\ At(c, "resolving")
  /\ UNCHANGED <<wasm, disk, shared, unlocked, out, spoiled>>

(* The contact's key and the own ones are there: createSession, saved before  *)
(* the first use.                                                             *)
Created(c) ==
  /\ calls[c].pc = "resolving" /\ shared
  /\ session' = Fresh /\ cached' = TRUE
  /\ spoiled' = (spoiled \/ cached \/ disk # None)
  /\ At(c, "creating")
  /\ Persist(c, Fresh, idb)
  /\ UNCHANGED <<disk, shared, unlocked, out>>

(* No ratchet: no shared key yet, or the fetch failed. Key material is        *)
(* sealed, a message goes as v1; an incoming one cannot be opened by v1.      *)
Fallback(kind) == IF kind \in Carriers THEN "sealed_v1" ELSE "v1"

NoRatchet(c) ==
  /\ calls[c].pc = "resolving"
  /\ envelope' = IF calls[c].kind = "none" THEN envelope
                 ELSE <<calls[c].kind, Fallback(calls[c].kind)>>
  /\ Ends(c)
  /\ UNCHANGED <<wasm, disk, idb, shared, unlocked, posted, shown, spoiled>>

(* What follows once the state is saved: the message is posted, or handed on. *)
HandedOn(c) ==
  IF calls[c].kind = "none"
  THEN shown' = shown \cup {calls[c].num} /\ UNCHANGED <<posted, envelope>>
  ELSE /\ posted' = [posted EXCEPT ![calls[c].num] = IF @ = 2 THEN 2 ELSE @ + 1]
       /\ envelope' = <<calls[c].kind, "v2">>
       /\ UNCHANGED shown

(* Mutant: the message goes out, or on, before the state is on disk.          *)
SavedLater(c) ==
  /\ calls[c].pc = "saving"
  /\ HandedOn(c) /\ Ends(c)
  /\ UNCHANGED <<wasm, disk, idb, shared, unlocked, spoiled>>

(* _saveRatchetStateToVault is done.                                          *)
Saved(c) ==
  /\ Completes(c, "put") /\ calls[c].pc = "saving"
  /\ idb' = Tail(idb)
  /\ disk' = IF Head(idb).val = None THEN disk ELSE Head(idb).val
  /\ spoiled' = (spoiled \/ Head(idb).val = None)
  /\ HandedOn(c) /\ Ends(c)
  /\ UNCHANGED <<wasm, shared, unlocked>>

SavedFresh(c) ==
  /\ Completes(c, "put") /\ calls[c].pc = "creating"
  /\ disk' = IF Head(idb).val = None THEN disk ELSE Head(idb).val
  /\ spoiled' = (spoiled \/ Head(idb).val = None)
  /\ Operate(c, session, Tail(idb))
  /\ UNCHANGED <<cached, shared, unlocked, out>>

(* The write fails (RatchetPersistenceError): an incoming message is given    *)
(* up; the envelope of an outgoing one is made already and goes out; a new    *)
(* session is not used, but stays in the cache.                               *)
SaveFails(c) ==
  /\ Completes(c, "put")
  /\ idb' = Tail(idb)
  /\ spoiled' = TRUE
  /\ IF calls[c].pc = "saving" /\ calls[c].kind # "none"
     THEN HandedOn(c)
     ELSE UNCHANGED out
  /\ Ends(c)
  /\ UNCHANGED <<wasm, disk, shared, unlocked>>

-----------------------------------------------------------------------------
(* The handshake gives both the shared key; the vault is closed by a mistyped *)
(* password and opened by another try.                                        *)
KeyShared ==
  /\ ~shared /\ shared' = TRUE
  /\ UNCHANGED <<wasm, disk, idb, unlocked, calls, out, spoiled>>

VaultToggles ==
  /\ unlocked' = ~unlocked
  /\ UNCHANGED <<wasm, disk, idb, shared, calls, out, spoiled>>

(* A crash or reload: what IndexedDB has not completed is lost, with whatever *)
(* awaited it.                                                                *)
Reload ==
  /\ cached' = FALSE /\ session' = None /\ idb' = <<>>
  /\ calls' = [c \in Calls |-> Idle]
  /\ UNCHANGED <<disk, shared, unlocked, out, spoiled>>

Next ==
  \/ KeyShared \/ VaultToggles \/ Reload
  \/ \E c \in Calls :
       \/ \E k \in Kinds : SendPlain(c, k) \/ SendBegin(c, k) \/ SendCached(c, k)
       \/ \E n \in Numbers : OpenBegin(c, n) \/ OpenCached(c, n)
       \/ Imported(c) \/ NotFound(c) \/ Created(c) \/ NoRatchet(c)
       \/ Saved(c) \/ SavedFresh(c) \/ SaveFails(c)

Spec == Init /\ [][Next]_vars

-----------------------------------------------------------------------------
TypeOK ==
  /\ cached \in BOOLEAN /\ shared \in BOOLEAN /\ unlocked \in BOOLEAN /\ spoiled \in BOOLEAN
  /\ session \in Sessions \cup {None} /\ disk \in Sessions \cup {None}
  /\ cached => session # None
  /\ \A i \in 1..Len(idb) : idb[i].by \in Calls /\ idb[i].val \in Sessions \cup {None}
  /\ \A c \in Calls : calls[c].pc \in {"idle", "loading", "resolving", "creating", "saving"}
                      /\ calls[c].kind \in Kinds \cup {"none"}
  /\ posted \in [1..MaxSent -> 0..2]
  /\ shown \subseteq Numbers

(* No two messages go out under the same number, whenever the page is         *)
(* reloaded between an encryption, its save and the post: a message is posted *)
(* only when the state that knows its number is on disk. (Not so once a       *)
(* second call has put the state it read over a session in use, or a write    *)
(* was lost.)                                                                 *)
NumbersOnce == ~spoiled => \A n \in 1..MaxSent : posted[n] <= 1

(* A message of the contact is handed on only when the state that consumed    *)
(* its number is on disk, so that no reload opens it a second time.           *)
ShownIsConsumed == ~spoiled => shown \subseteq (IF disk = None THEN {} ELSE disk.got)

(* Key material is never encrypted with the fixed key of v1, and a            *)
(* contact_accept never with the ratchet whose secret it brings, whichever    *)
(* of loading, fetching and creating a session failed on the way.             *)
KeysAreSealed ==
  /\ envelope[1] \in Carriers => envelope[2] # "v1"
  /\ envelope[1] = "accept" => envelope[2] = "sealed_v1"

(* Nothing is sent, shown or sealed with a ratchet state that a reload would *)
(* take back.                                                                *)
StateBeforeUse == NumbersOnce /\ ShownIsConsumed /\ KeysAreSealed
=============================================================================
