# HermesChat: a TLA+ verification project

HermesChat is a messenger whose server sees nothing but hashes and ciphertext.
A Python/FastAPI relay passes encrypted blobs between clients, over WebSockets
in real time or through a queue in RAM; a replay registry (Python, with Rust
backends) makes signed requests and relayed blobs single-use; a Rust/WASM core
holds the double ratchet; a JavaScript client keeps vault, contacts, chats,
groups and backups, and ties everything together. This directory models the parts
whose correctness depends on order, time, concurrency and failure, checks them
with TLC on small instances, and proves the safety of the server and of the device
for every instance with TLAPS.

## 1. Inventory

### Server and core

| part (source) | state | operations | hard behaviour | what makes it correct |
|---|---|---|---|---|
| Replay registry contract (`rust/hermes_ffi_core/src/replay/store.rs`, `model.rs`) | key -> pending / consumed / rejected entry with token and expiry | claim, commit, reject, release | lapsing claims, late settlements (ABA), stale clocks | one standing claim per key; a live holder can settle; what is settled stays |
| Python backend (`network_core/otp_registry.py`) | `memory_cache` under an RLock | the same | capacity, sweep in every claim, commit blind to expiry | implements the contract within its capacity |
| Rust memory backend (`replay/memory.rs`) | HashMap under a Mutex | the same | sweeps only when full, clock read before the lock | the same, and never refuses a key because of expired entries |
| SQL backend (`rust/hermes_replay_sql`) | table `replay_claims` shared by processes | the same, as autocommitted statements | statements of several workers interleave, fail, use an old clock | the same |
| Signed requests (`api.py:verify_client_signature`, `native_core.py:decrypt_envelope`) | none of their own | freshness, signature, claim, work, settle | copies racing, the window against the retention | a request is honoured once |
| WebSocket gateway (`api.py`, `load_balancer.py`) | registered sockets, public status, slot counter | accept, authenticate, status, fan-out, disconnect | awaits between check and use, double clean-up, peers that vanish | no registration leaks or vanishes |
| Blind relay (`network_core/blind_relay.py`) | `pending_blobs`, one task per blob | relay, fetch, clear, delete, expire | late tasks, boundary second, restart | nothing overstays, is overwritten or leaves twice |
| Relay endpoints (`api.py`: `/api/relay`, `relay_request`, `/api/fetch`) | the above together | submit, claim, commit, send, enqueue, answer | retries, lost answers, crashes, two paths with opposite commit order | at most one copy; an acknowledgement means acceptance |
| Double ratchet (`hermes_crypto_wasm/src/ratchet`) | chains, header keys, skipped keys | encrypt, decrypt, DH step | reordering, loss, replay | in-window messages decrypt once |
| Session tokens, rate limiter, ephemeral images and keys, accounts and backups (`privacy_middleware.py`, `load_balancer.py`, `ephemeral_*_store.py`, `db_connection.py`) | process-local lists, images with viewers, tables | login, check, store, mark viewed, register, save | restarts, marks racing the sweep, concurrent registration | planned (section 7) |

### Client (`frontend/src`)

| part (source) | state | operations | hard behaviour | what makes it correct |
|---|---|---|---|---|
| Vault (`storage_manager.js`, flows of `auth_ui.js`) | flag, key in WASM, marker per user, items on disk | unlock, save, load, login, register, change password, logout, reload | one unlock promise shared by everybody, whatever his password | the flag means the right key; items are sealed for their owner |
| Login (`auth_ui.js:doLoginTransition`) | lists in memory and on disk, view | read, filter, show, set up | reads that answer null for a failure, saves in two halves | a login writes nothing; what is in memory is what is stored |
| WASM bridge (`crypto_wasm_bridge.js`) | readiness, one attempt | init, API calls | callers sharing a promise that fails | everyone is answered; nothing unchecked is used |
| Outbox (`sync_manager.js:sendBlob, flushOutbox`, `hermes_store.js`, `chat_manager.js`) | outbox and history, in memory and on disk | send, flush, status, reload, logout | overlapping flushes, writes in flight, lost answers | nothing pending is forgotten, "sent" means accepted, the outbox drains |
| Ratchet states (`sync_manager.js:getOrInitRatchet`, `double_ratchet.js`) | cache, session, vault entry | restore, encrypt, decrypt, save | reload between save and use | no number is used twice |
| Connection (`sync_manager.js`) | socket, interval, token, keys | start, poll, reconnect, register, stop | managers that outlive their session | keys in the vault are registered; blobs are fetched or the user is told |
| Contacts (`contact_manager.js`, `sync_manager.js`) | record, list, shared key, session | request, accept, reject, cancel, block, renew, resync | messages crossing, readable only with what one has by then | both sides end with one key |
| Groups (`group_manager.js`, `ui/group_ui.js`) | copies of members and key | create, invite, expel, rotate, leave | blobs per member in any order | the members agree; keys stay in the circle |
| Composer (`ui/chat_input.js`, `audio_recorder.js`) | open chat, shared array, view-once switch | text, photo, audio, open, confirm | the chat changes during the send | the message ends once, in its chat |
| Conversation (`sync_manager.js:processIncomingBlob`, `ui/message_renderer.js`) | copies, ticks, versions | chat, receipt, edit, delete, view | repeated, late, early blobs | both sides agree; ticks only rise |
| View-once (`ui/message_renderer.js`, `screenshot_detector.js`) | timers, modal, detector | view, close, destroy, screenshot | timers act on what is open then | what is shown is watched and destroyed |
| Chat panel (`chat_ui.js`, `chat_selector.js`) | active, selected and shown chat, typing | open, delete, notify, type | clicks await saves | the panel shows the chat one writes to |
| Dialogs (`ui/modal_manager.js`) | one root, one resolver | ask, answer, dismiss, phrase | dialogs over dialogs, hiding timers | who asks is on the screen |
| Privacy (`privacy_settings.js`, `auth_ui.js`) | one choice in three copies | choose, send receipts, connect | sessions, messages in progress | off is off |
| Recovery (`recovery_system_complete.js`, `recovery_key_derivation.js`) | phrase, timer, marker, proof, last backup | generate, confirm, back up, restore | one object for all sessions of a page | a backup opens with its owner's phrase |
| State versions (`state_version_control.js`, `conflict_resolution.js`, `backup_manager.js`) | vector clocks, lists, maps | compare, merge, resolve | concurrent edits | the comparison is the order, merging loses nothing |
| Backups on the device (`backup_manager.js`, `auto_backup_trigger.js`) | index, counter, guard | back up, delete, restore, schedule | read-await-write by several | what is reported is so |
| Reconciliation (`recovery/reconciliation_manager.js`) | list, stored list, server's list | check, dialog, resync, start afresh | contacts that change while the server answers | the alarm is true |
| Media storage, monitors, tours, themes, steganography, IP anonymiser, generated glue, scripts | - | - | - | not modelled (section 6) |

How they interact. On the server an endpoint runs as a coroutine of one event loop
(awaits are the interleaving points) and calls the registry in a thread
(`asyncio.to_thread`), so registry calls run in parallel under the registry's own
lock or, with SQL, under none but the database's. In the client everything runs on
the page's event loop: what happens between two awaits is one step, and at every
await the next click, message, timer or session may come in. The parts share
state rather than messages: the vault is under all of them, the synchronisation
calls into contacts, groups, chats and privacy for every blob, and several
managers are single objects that outlive the session of a user.

`PROJECT.json` lists the hazards of this code one by one, each at its line and
with the properties aimed at it.

## 2. Modules

```
ReplayModel             vocabulary: entries, grants (history of the tokens)
  ReplayStore           abstract contract          <- ReplayStoreProofs (TLAPS)
  ReplayRegistry        Python dictionary          implements ReplayStore
  InMemoryReplayStore   Rust HashMap               implements ReplayStore
  SqlReplayStore        SQL table, many workers    implements ReplayStore
  SignedRequest         callers of ReplayRegistry  (composes it)
WsGateway               WebSocket life cycle, fan-out, limiter
BlindRelay              queue in RAM and its tasks (vocabulary: RelayModel)
RelayChannel            abstract at-most-once channel of one blob
  RelayServer           both relay paths over BlindRelay; implements RelayChannel
DoubleRatchet           two ratchets of the WASM core over a lossy relay

VaultStorage  Session  WasmBridge          the device, opened
ClientOutbox  ClientRatchet  SyncTransport the way out and in
ContactHandshake  GroupKeys                who talks to whom, with which key
Composer  Conversation  ViewOnce           messages
ChatPanel  ModalManager  PrivacySettings   what the user sees and decides
CloudRecovery  StateVersions  LocalBackups  Reconciliation    what survives

MC*.tla / *.cfg         instances for TLC

ReplayStoreProofs       the contract               over ReplayStore
ReplayBackendsProofs    capacity, refinements      over MCReplayBackends
ServerProofs            requests, queue, ratchet   over MCServer
MCTransportProofs       relay, states, outbox      over MCTransport
MCConnectionProofs      keys                       over MCConnection
MCDeviceProofs          five parts of the device   over MCDevice
MCChatProofs            eight parts of the chats   over MCChat
MCLiveProofs            gateway, bridge, messages  over MCLive
```

### Server

**ReplayModel / ReplayStore.** `claims` is the entry of each key; `grants` is a
history variable that remembers for each token the key it was granted for, when
(`at`), until when it was due to stand (`until`), and its fate. Tokens are
16 random bytes in the code, so each is granted at most once. An operation may
write an expiry computed from a clock up to `Lag` seconds old, because the bindings
read the clock before they wait for a lock or a connection. Expired entries may be
dropped by any claim; the backends differ in when.

**ReplayRegistry** translates `_claim`, `_commit`, `_reject` and `_release` with the
sweep at the start of each claim; a refused claim sweeps too. Each is one step
because of `self._lock`. **InMemoryReplayStore** keeps expired entries until the
map is full (`Retained`), and a call works with a clock value `n` read before
the Mutex. **SqlReplayStore** splits a call into its statements: `BeginClaim` (clock),
`Prune` (`DELETE`, whose failure is ignored), `Insert`/`InsertRefused` (primary key),
and `BeginSettle`, `Update` for commit and reject; `Fail` ends a call at any point. The
three refinements map their state to `claims` (the dictionary keeps the token of a
settled entry, which nothing compares any more: the mapping hides it).

**SignedRequest** instantiates ReplayRegistry and adds handlers: `Arrive` (freshness
and signature checks), `ClaimGranted`/`ClaimDenied`, and `Honour`, `Refuse`, `HandBack`
(commit, reject, release). `Past`, `Future`, `Retention` and `Outcomes` select the API
signature (300/300/300, always commits) or the envelope (300/60/300, three outcomes).
`_commit` ignores a token that no longer holds the key; the caller is not told (`Told`).

**WsGateway**: `phase` is the position of each handler between two awaits; `connections`,
`status` and `accepted` are `active_connections`, `public_status` and `_active`. `fanout`
holds the local variables of a `send_blob` that is suspended in one of its sends. The early
`disconnect` and `release` of a rejected connection and the `finally` that repeats them are
one step, `EndRejected`, since no await lies between them.

**BlindRelay**: `pending_blobs` is the dictionary, `timers` the sleeping destruction tasks,
`ended` (history) how each blob left. Every method holds `self.lock` and does not
suspend inside, so each is one step. A restart empties the RAM and takes time, so ids
made before and after it differ in their clock.

**RelayServer** instantiates BlindRelay and runs handlers of both paths. HTTP: claim, commit,
send, enqueue if the send failed, answer. WebSocket: claim, send, commit, enqueue if the
send failed, acknowledge only then. `link` stands for the sockets of a receiver
(`gone` is a dead one nobody noticed). `outbox` is the sender, which keeps a blob until a
success reaches it. `accepted` and `received` are histories. A failing store
(`ClaimFails`, `CommitFails`) may leave the claim behind. **RelayChannel** says
what that amounts to for one blob: unsent, inside, then delivered or lost, for good.

**DoubleRatchet**: `ratchet` holds the `RatchetState` of both parties; a root key is the
list of the DH secrets that went into it, a chain or header key is a label on a root, and
a message key is a chain with an index, so equal terms are equal derivations. `network`
is every message ever sent: any of them may arrive at any time, again, or never.
`Send` is `encrypt` with the `send_ratchet` it may start with. `decrypt` is one of four
actions, by the return it takes: `ReadSkipped`, `RefuseJump` (before the turn), `Refuse`
(after it) and `ReadNext`; each keeps exactly what the code has changed by then (a
header key replaced, a turn made) even when the call fails. `session` picks the
constructor `create_session` uses: "roles" when both X25519 keys are there, "shared"
otherwise.

### Client

The client modules share a way of reading JavaScript: a variable per field that is kept,
a `calls` or `pc` variable for the functions that are suspended in an await (with what they
had read by then), one action per stretch between two awaits, and an action of its own for every
way an await may end (answer, refusal, exception). What is read after the await is read from the
state in the next action, not from what was seen before.

**VaultStorage.** `isUnlocked`, `vaultKey` (what is inside WASM), `unlocking` (the shared
`_unlockPromise`), `marker`, `kv` and `ls` (IndexedDB and its copy in localStorage), `session`
(sessionStorage). A call goes through `unlocking`, and the operation that started it continues with whatever
the promise was about. A key is <<salt, password>>; the default password of `save` and `load` is one.

**Session.** `phase` walks through `doLoginTransition`; `disk` and `list` are names and data of the
contacts, saved one after the other (`writing`); `hiccup` is a read that answered null for what was there.

**WasmBridge.** The attempt behind `_initPromise` step by step; the methods of the API by what their
first line does: assert and call, or throw since the core lacks the function.

**ClientOutbox.** `outbox`/`history` in memory, `box`/`hist` on disk with the writes that are queued
(`puts`), `early` the users under whose name a list was saved before theirs had been loaded; `send` is where `sendBlob` and `addMessage` of a message are, `loop` a run of `flushOutbox` with
the copy of the outbox it works through. `claimed` is the relay's memory of nonces, `accepted` counts.

**ClientRatchet.** The session is abstracted to the numbers used in both directions; cache, vault entry
and the requests IndexedDB has not completed are explicit, so that two calls may restore the same entry.

**SyncTransport.** One manager per login: `boot`, `poll`, `socket` and its requests in progress
(`calls`), against `token`, the keys in memory, in the vault and at the server. A logout changes the session,
not what is already awaited; `crossed` are the users whose vault was given keys registered for another.

**ContactHandshake.** Both sides: record, list entry, shared key and the key the ratchet session was
made from; messages in order in `net`; `Applied` is the branch of `processIncomingBlob` per type, and
`unread` what could not be opened.

**GroupKeys.** `groups` are the copies of each user, `out` the blobs a handler has still to send one after the
other, `circle` the members a key was made for.

**Composer / Conversation / ViewOnce.** Writing a message (what the array on the screen shares with the one
saved), the life of one sent message with its receipts, edits and deletions, and the showing of what may be
seen once. `Conversation` is written for a direct chat and for a group; as the code finds a group message by the
id of the last member's blob only, the runs check the direct chat (section 5).

**ChatPanel / ModalManager / PrivacySettings.** The active, selected and shown chat with the clicks that
await a save; the one dialog root with its resolver and hiding timers; the choice of a user in its three copies.

**CloudRecovery / StateVersions / LocalBackups / Reconciliation.** The phrase with its timer, marker and
proof over several sessions; clocks and merges as pure operators checked in every state that edits, backups
and restores of two devices reach; index, counter and restore of the local backups as read, await,
write; the server's list against memory and vault.

### How the instances are composed

The components of a run do not share variables; a composed module instantiates several of them, with
disjoint variables, and `part`, chosen initially and constant, says which one runs (the others rest in an
initial state, `Resting`). That is one TLC run for several questions: the behaviours of each part are exactly those of
its own specification. The composition that matters is inside the modules: SignedRequest over ReplayRegistry,
RelayServer over BlindRelay, the client modules over the awaits they share with one another.

## 3. Runs

| run | question | answer |
|---|---|---|
| replay | does the contract of the registry keep its promises, and do the three backends implement it, within their capacity? | yes (proved) |
| server | are copies of a request honoured once per retention; does every queued blob leave once and in time; do ratchets read what they should, once? | yes (proved) |
| transport | does the relay implement an at-most-once channel; does the outbox forget nothing; are ratchet states saved before they are used? | yes (proved) |
| connection | are keys registered before they are kept, while two accounts take turns on a page? | yes, but for the vault below (proved) |
| device | is the key in WASM that of the open vault; does a login lose nothing; do backups open; are versions compared and merged right; is what is said of local backups so? | yes (proved) |
| chat | do handshakes and groups end with one key; do messages, views, panel, dialogs and privacy settings do what the screen says? | yes (proved) |
| live | do registrations and statuses survive every order of clean-up, is nothing computed by an unchecked module, do both sides of a chat agree, and ticks only rise; does each WebSocket handshake end, is every caller of the bridge answered, does the outbox drain, are blobs fetched or the user told? | yes (the safety: proved) |
| api_replay | is an API request honoured once, with 300 s both ways and 300 s of memory? | no, for a timestamp ahead of the clock |
| ws_limit | is the number of connections limited? | no: a rejected one returns its slot twice |
| ratchet_any_order | does every session read the messages of its current chain in any order? | no: only the first of each chain after a turn |
| keys_authenticate | can the keys of every vault authenticate? | no: keys registered for one account are saved for the next that has logged in |
| restore_keeps_newer | does restoring a backup keep the newer state? | no: `compare` answers "before" for the newer one |

A property of a composed run is the invariant of one component, a conjunction of the named parts
that its module states and comments one by one (`BackupsHonest` is `CompleteIsListed`, `VersionsDiffer`,
`OneForEvents`, `GuardIsReleased` and `RestoreIsHonest`), with that component's type invariant.

**Bounds, and why they are enough.**

- Registry: two tokens let a claim lapse and be taken over while its first holder settles late, or be
  released and claimed again; two keys with retentions 1 and 2 expire at different times; `MaxTime` 3 lets an
  entry expire and be replaced; room for one entry (`MaxEntries`) makes the backends fill, refuse and sweep.
  `Lag = 1` lets a call straddle one second. The SQL table has two workers on one key, because statements only
  meet on a common key. Longer chains of claims are what the proofs of section 4 are for.
- Signed requests: windows of 2 s stand for 300 s, 1 s for 60 s, so the ratios
  (`Retention = Past`, `Future <= Past`) are those of the code; two handlers race, and
  three tokens allow two honoured copies and one more claim. `MaxWork` bounds the time
  from check to commit and is below the retention, as in the code (a decryption takes less than 300 s).
- Gateway: two sockets of one user are what the fan-out and the clean-up must tell apart; one fan-out is
  suspended while they change. ws_limit needs four sockets: one is rejected, and three more fill two slots.
- Queue: TTLs 0 and 1 meet the boundary `now = expires_at`; `Slack = 1` lets a task
  oversleep; `MaxCount = 2` per life of the server and time for a restart let ids of
  two lives meet. Two receivers make a fetch skip another's blobs.
- Relay: two blobs share the receiver and the queue; two handlers race for one blob
  (a retry against its own first request) or work on two; the time leaves room for a restart and for an expiry.
- Double ratchet: `MaxSkip = 2` stands for 1000. Five messages of each party are enough for
  chains longer than `MaxSkip` (refused before and after a turn), for `skipped_keys` to
  fill and drop keys, and for five turns in each direction, with every order and repetition of deliveries.
- Outbox, ratchet states (transport): two accounts that take turns on one page, with three logins, since it takes
  a third to come back to what a second has overwritten; two messages, two runs of `flushOutbox` (one after the
  third login) or two calls at once. IndexedDB holds back one write while the next is asked for; after a session was put over a live one (a known hazard, `spoiled`) nothing is claimed.
- Connection: two accounts and two managers, so that a request of the first login is answered during the second, and
  keys for two registrations. Blobs, and what happens after the server has forgotten its users, are left to `live`.
- Device: two accounts with two passwords and two calls in progress (a wrong password among them, so that
  a shared promise may be about another's key); two contacts and the user's own name; two phrases, one
  backup in progress; two devices with two items each, clocks up to two and three edits, enough for equal, ordered and
  concurrent clocks; three backups for an index of two entries.
- Chat: two users (two more in the group: its creator and one who may be expelled), three keys, two messages
  of a handshake in flight to each side; two messages composed; two images and a text of one chat; two
  contacts and a group in the panel; three dialogs and two named modals. `Bounds` stops where two changes of a
  handshake or a group have crossed (`disturbed`): the properties speak of what happens without such a
  crossing, and what happens with it is in section 5. In the panel at most two clicks and one timer are pending;
  typing and online status, treated alike by the code, are chosen together.
- Live: one account with two messages, one loop and one manager; two callers of the bridge. No
  symmetry is used in this run. (One manager is one login per page.)

**Deadlock** is not checked in these runs because the clock, the tokens, the
sockets, the keys and the messages are bounded: each model stops when they are used up, while the
program would go on. The liveness properties check progress where it could really be withheld.

**Fairness**, each where the code's scheduling justifies it:

- `WsGateway!Fairness`: the event loop runs what is ready (an expired timer of
  `asyncio.wait_for`, the code after a `close()`, a send). It says nothing of clients.
- `WasmBridge!Fairness`: a fetch, a hash, a start and a self test end, well or badly.
- `ClientOutbox!Fairness`: the timer flushes every 15 s, requests end by their timeout,
  IndexedDB completes its writes, the relay forgets a nonce after a day; and (strong fairness) a
  request that is made again and again is some time answered. Nothing is assumed of a user.
- `SyncTransport!Fairness`: the interval fires, every request ends, and a server that is asked again and
  again answers some time. Nobody has to log in or out, and no socket has to open: polling suffices.

`transport` assumes a registry that survives restarts (`Durable = TRUE`, the SQL backend); with the
in-memory ones a restart forgets the nonces, and a retried blob is delivered again.

## 4. Proofs

Eight modules hold theorems. Each extends a module a run checks, so that the formula that is proved is the
formula TLC checks, for all values of the constants.

| module | theorem | says |
|---|---|---|
| ReplayStoreProofs | `TypeCorrect`, `Inductive` | `Spec => []TypeOK`, `Spec => []IInv` |
| | `Exclusive` | two standing claims of a key never overlap |
| | `HolderKeepsClaim` | a holder whose claim stands can settle it |
| | `SettledIsFinal` | what is consumed or rejected stays so until it expires |
| ReplayBackendsProofs | `Inductive`, `CapacityAlwaysHonoured` | the in-memory tables keep within their capacity, and the Rust one refuses only when that many entries live |
| | `PythonImplements`, `MemoryImplements`, `SqlImplements` | each backend refines ReplayStore |
| ServerProofs | `Inductive`, `HonouredOnceWhileRetained` | no copy of a request is honoured while an honoured one is retained |
| | `RetentionThatSuffices` | none ever, if the retention exceeded both windows and the work together |
| | `QueueInductive`, `QueueEmptiesOnce` | no blob is forgotten, overstays or leaves twice |
| | `RatchetInductive`, `SessionIsSound` | roots never diverge, nothing is read twice, replies open, and a shared secret reads in any order (`SessionSound`) |
| MCTransportProofs | `Inductive`, `DeliveredOnce` | one copy of a blob, and success told means accepted |
| | `ImplementsChannel` | the server refines RelayChannel |
| | `SavedBeforeUsed` | a ratchet state is on disk before anything made with it is out (`StateBeforeUse`) |
| | `NothingIsForgotten` | what a chat shows as pending is in an outbox or accepted, and sent means accepted (`NothingForgotten`) |
| MCConnectionProofs | `Inductive`, `KeysStayRegistered` | the keys a session adopts are those the server has, but in a vault given another account's |
| MCDeviceProofs | `Inductive` | the invariants of the five parts, together |
| | `OpenMeansKey` | an open vault has the key of its user's marker (`FlagMeansKey`) |
| | `ShownIsStored` | the contacts in memory are those on disk (`StoredAsShown`) |
| | `CloudKept` | one timer; a backup opens with its owner's phrase (`RecoveryKept`) |
| | `ClocksAgree` | both comparisons are the order, a merge lists what both listed (`VersionsAgree`) |
| | `BackupsAreHonest` | what is reported of local backups is so (`BackupsHonest`) |
| | `NothingTakenAway` | the action properties of the device (`StepsKeepData`) |
| MCChatProofs | `Inductive` | the invariants of the eight parts, together |
| | `KnownAreStored` | what the server knows was stored (`KnownIsStored`) |
| | `SettledAtRest` | two contacts end with one key (`HandshakeSettles`) |
| | `MembersAgreeAtRest` | a group ends with one list and one key (`GroupAgrees`) |
| | `SentIsKept` | what was sent is in its chat (`CopiesKept`) |
| | `ViewsAreWatched` | what is shown once is watched and doomed (`ViewIsWatched`) |
| | `PanelOfTheChat` | the panel shows the chat it names (`PanelIsActive`) |
| | `DialogsAreInOrder` | who asks is on the screen (`DialogsInOrder`) |
| | `ChoicesAreKept` | what is off stays off (`ChoiceIsKept`) |
| | `NamesTheRight` | the action properties of the chats (`StepsNameTheRight`) |
| MCLiveProofs | `Inductive` | the invariants of the gateway, the bridge and the direct chat, together |
| | `TypeCorrect`, `RegistrationsCorrect` | what is registered belongs to a handler that serves the user |
| | `ComputedByChecked` | nothing is computed by a module that was not checked (`OnlyVerified`) |
| | `SidesAgree` | both ends of a direct chat agree at rest (`BothSidesAgree`) |
| | `NeverBack` | ticks only rise (`TicksOnlyRise`) |

**The contract.** `ExclusiveWindows` is not inductive: a late commit extends its window, and only
the fact that its holder is the newest claimant of the key keeps it from meeting
another's. `IInv` adds

- `Linked`: the token of a pending entry names an open grant of that key;
- `Covered`: an active grant that has not lapsed is the one its key's entry records, with the
  same expiry;
- `Newest`: all other active grants of a pending key had lapsed when its holder claimed;
- `PastClaims`: nothing was claimed in the future.

`TakenOver` is the key lemma: when a claim may take a key, every active grant of it
has lapsed. The proof then has one lemma per action for its effect on both tables
(`ClaimEffect`, `SettleEffect`, ...), and one step per action for each conjunct.
Assumptions: a `NoKey` and `NoToken` outside the real ones, retentions of at least a second, natural bounds.

**The backends** map their table to `claims`; a step is one of the contract or none. The invariant is what
the mapping needs: a call's clock value is at most `Lag` seconds old (`ClockRead`), a dictionary holds no more
keys than fit (`Bounded`, from lemmas on cardinality). The dictionary's sweep drops every expired entry and then claims:
in the contract that is one `Claim`, which may drop expired entries. With these theorems, `Exclusive`,
`HolderKeepsClaim` and `SettledIsFinal` hold of each backend. Assumptions: `MaxEntries` and `Lag` are natural numbers.

**Signed requests.** That a request is honoured once per retention needs what a handler knows while it works: its claim
still stands and no sweep has taken it (`Holding`, from `MaxWork < Retention`), no other handler has the same
token (`OneHolder`), and an honoured request is in the registry, consumed, until its retention is over
(`Remembered`); a new claim therefore comes later than that (`Later`). `RetentionThatSuffices` turns the finding of api_replay
round: the code accepts a timestamp 300 s old or 300 s ahead and remembers for 300 s; a retention of more than
both windows and the work would make every request single-use. Assumptions: those SignedRequest names.

**The queue.** `QueueInv` says that each blob has a task of its own, none is overdue by more than the delay of the
event loop, what has left had a different id, and ids (second, counter) are older than those still to be made, over restarts too.

**The relay.** `DeliveryHonest` and the refinement of RelayChannel have the hypothesis `Durable`, a registry that survives
restarts: without it a restart forgets the nonces and a retried blob is accepted again. The invariant puts every
blob in one place: a free nonce means it is nowhere inside nor delivered (`FreshIsNowhere`), at most one handler carries it,
at most one entry of the queue holds it, and these exclude each other and delivery (`OnePlace`). The refinement needs, beyond
the invariant, what a step may not do to a blob (`NoReturn`): take a nonce back, un-deliver, or bring something inside
other than by claiming the free nonce.

**The gateway.** `RegistrationsMatch` needs that a socket that is gone stays gone, that every status has a handler
that will take it away, and that who is registered is inside the `try` whose `finally` removes him.

**The double ratchet.** `SessionSound` speaks of what a message in the network would do if it came now; `RatchetInv` says how
the two states are related whatever has come. In a session with roles the parties are level, with one root, or one of
them is a single turn `Ahead`, on a root made of the other's root and the two public keys in use (`InTurns`): the key
for the first header of that turn is then the next one of the other side, which is why a reply opens and why both derive the
same root. No header key is older than its label says: the keys that were used belong to shorter roots
than the one a turn ends on (`Earlier`, `Derived`), so a copy from a chain that is over no longer opens, and one of the
current chain falls below the counter with its key gone (`Used`), since kept keys have distinct numbers below it
(`KeysKept`). In a session from a shared secret nobody turns, and each number below the counter is read, kept or
dropped (`SharedInv`). It holds for any number of messages and any `MaxSkip`; `RatchetAssumption`: it is a
natural number.

**The connection.** A request belongs to the user the storage had when it began, which may no longer be who is logged in
when it is answered; before the first login nothing runs that could begin one (`RequestsOfUsers`). The server takes
keys of a user only when it has none, so what an answer says of them stays true. `KeysAssumption`: keys can be made.

**The ratchet states.** `StateBeforeUse` rests on the order of things: IndexedDB completes requests in the order they were made,
so the states it has and those it is yet to write are in the order the session went through them (`Ordered`), and each
knows what the call that waits for it has used (`Knows`); the numbers in use are different and none has been posted
(`Numbered`). Hence what is posted or shown when a write completes is in the state just written (`OutIsSaved`). All this
lasts until a second call puts the state it read over a session in use, or a closed vault swallows a write (`spoiled`);
that key material is sealed lasts beyond. `StatesAssumption`: null is no state and no kind of payload.

**The outbox.** `NothingForgotten` speaks of a message at any time, `OutboxInv` of who will next do something to it. Each call
awaits one write at most (`WritesInv`), in the session of the sender if no reload or change of session has cut it
(`SessionInv`); a message nobody has answered for is in no list and no history (`FreshInv`). The
delicate moment is between the two saves of `sendBlob`, when a message is in the outbox and in no history: then it is in every outbox that is still to be written, or a run of `flushOutbox` has found it, whose own write
comes later (`IsQueued`, `Before`); so the status that run looks up is there. And what any history, in memory, on disk or
still to be written, shows as pending is in all outboxes, unless a run has taken it, after whose last write every
history says sent (`IsKept`, `SentFrom`). `Without` leaves out one message of a list; `WithoutOne` says so, by the same
`Counting` as the loops of the device. `OutboxAssumption`: null is no user, message or run, and a message is no run.

**The bridge and the direct chat.** `WasmInv` follows the one attempt that callers share: what is past the hash check is
genuine, and once the module is ready none begins. `TalkInv` is again about the way to rest: whatever one end has done
and the other has not seen is on its way there (`TalkCopy`, `TalkEdits`, `TalkTicks`); since the network repeats and reorders,
an edit that is overtaken must be older than what the copy shows, and a receipt presupposes the copy
(`TalkBefore`). `NoneAssumption` and `TextsAssumption`: null is no state, user or text, and there is a text.

**The device.** Its parts share no variable, so the inductive invariant is the conjunction of theirs, and a step
is one part's step. What each needs beyond the property:

- Vault: a call that asks for a password within a session (change, disable, reopen) is alone until it is over,
  and the call that continues after an unlock is the one that began it (`VaultCalls`).
- Login: what was read so far is a part of what is on disk, and equals it unless a read failed (`SessionInv`).
- Recovery: phrase and user are remembered together; an upload in progress is of who is logged in; the phrase of
  the marker is proven, unless it is still on the screen (`CloudMemory`, `CloudPhrases`, `CloudBackups`).
- Versions: the two comparisons of clocks, one by subsets and one by loops, are compared pointwise; `MergeArraysUnion`
  says that the loop of `_mergeMapsLWW` on lists collects exactly what either list has.
- Local backups: `BackupsInv`. Backups are numbered as they begin and reported once; while nothing has crossed
  (`disturbed`), the index or counter an operation has read is still the stored one when it writes; and an
  entry the bounded index has dropped is older than those it has (`BackupLists`). The index is rewritten by
  `slice` and `filter`; `LastOfKeeps`, `WithoutKeeps` and `SavedLists` say what those leave.

`NoneAssumption` and `BoundsAssumption` (null is no user, item or promise; bounds are natural numbers, a backup has an item)
are all that is assumed of the constants.

The loops of merge and filter are recursive functions. That such a function exists is proved rather than assumed:
`Counting` is induction over a set of numbers, a consequence of the theorem `WFMin`, and with it each
loop is built up to the length of its list (`MergeLoopRuns`, `FilterLoopRuns`).

**Contacts and chats.** Again one invariant per part. Those of the lists, the view-once messages, the panel, the dialogs, the
settings and the composer say what a suspended handler has read and what may have changed since. Two need more:

- Handshake: `HandshakeSettles` speaks of rest, the invariant (`Calm`, for both directions, as long as nothing is
  `disturbed`) of the way there. At most one accept is under way (`OneAccept`), and as long as no other answer follows it,
  its key is the sender's (`SendersKey`); if no answer is under way, the keys are the same (`SameKey`); and whoever
  waits has his request at the end of the queue, received, or about to be answered (`Asking`). Since a request is the last of
  its queue until it is received, nothing that arrives can undo it.
- Groups: `GroupInv` names a goal: the members, their key, and the one change that leads there (`Goal`). For every
  user, what his copies are and what is still on the way to him lead to it (`Heading`), in whatever order it arrives; a
  change that starts where nothing is on the way sets the next goal (`AddLeads` and its companions), an arrival keeps
  it, and when nothing is left on the way, every member is there (`Arrived`). Who knows a key is kept apart, and holds also
  when changes cross (`GroupBase`).

`PartiesAssumption` (there are two parties to a handshake), `MembersAssumption` (the creator is a member), `NoneAssumption`,
`NamesAssumption`, `ChoicesAssumption` (null is no user, key or choice, names are distinct), `ChatOfAssumption` and
`LimitsAssumption` (a message has a chat, bounds are natural numbers) are what is assumed.

Proving changed the models in eight places. The connection had been checked with one manager, so one login per page;
with any number of them its property is false where an answer comes for another account (section 5, keys_authenticate).
`_mergeArrays` had been the union of two lists without repetition; it is now the loop of the code, which also drops
repetitions within one list. `RestoreIsHonest` said that a refused restore leaves the old data always; a page reloaded in
the middle of one restore, followed by a refused one, refutes that, and it now speaks, like its other half, of what
happens without such a disturbance. The two filters of the backup index are written as loops, and in VaultStorage an
`IF` replaces a `CASE` whose guards overlapped. And the outbox was checked with two logins, under which
`NothingForgotten` holds as it had been stated; looking for its inductive invariant led to the third. A request of the first
session may be answered after the next user's name is set and before his outbox is read (`auth_ui.js:305-343`): the list in
memory is then saved under his name, and what waited there is gone. The property now excepts the lists saved `early`
(section 5, `LoadedBeforeSaved`). On the other side, its exception for messages whose sending was cut was too wide: one that the
relay had accepted and that was still in the outbox need not be excepted, and is not any more. The filter of the outbox
is written as a loop.

**Only model-checked**: all liveness, since fairness and ENABLED are beyond the prover used. Every invariant and every
action property a passing run checks is stated by a theorem.

## 5. Where code and repository disagree

The five violation runs are disagreements between the code and a sentence of the
repository; `PROJECT.json` quotes each. `ratchet_any_order` deserves a word:
`dh_ratchet` (`dh_ratchet.rs:266`) sets `header_key_recv` to the key of the
sender's next chain, while the sender encrypts all headers of its current chain under the
previous one. What the first reply opens, the second does not, and nothing the
receiver does brings it back. `ReplyOpens` shows that the conversation goes on with
the next turn.

Further statements of the repository are written down at the end of the client modules, under "What the
repository says and the code does not keep". TLC refutes each of them; they belong to no run.

| module | definition | what happens instead |
|---|---|---|
| VaultStorage | `ReloadRestores` | after F5 the restore joins an unlock with the default password that a background load has begun (`auth_ui.js:301`, `storage_manager.js:48-52`, `privacy_settings.js:30`) |
| Session | `BackAtLogin` | a failing `import()` at `auth_ui.js:443` stands outside the `try` whose comment (406-408) promises the way back |
| ClientOutbox | `NothingOfOthers` | `fullClearCache` clears a field that does not exist; history and outbox stay in memory, and a write under way lands under the next user |
| ClientOutbox | `LoadedBeforeSaved` | an answer of the last session, come while the next login is loading, saves its list over the one to be loaded (`auth_ui.js:338-343`, `hermes_store.js:25-36`): what waited there stays pending for good |
| CloudRecovery | `PhraseRecovers` | the proof at the server may be of a phrase that does not open the last backup |
| CloudRecovery | `ReportedIsStored` | a refused upload leaves a copy in localStorage that no restore of the latest backup reads, and returns the id as on success |
| SyncTransport | `LogoutRemovesToken` | a logout that cannot reach the server keeps the token |
| PrivacySettings | `ChoiceIsOwn` | the settings object outlives the session; the next user, without a choice of his own, gets the last one's |
| ContactHandshake | `ResyncIsRead` | the request goes out as `v1` without a shared key, and the receiver, who still has his, cannot open it with that |
| GroupKeys | `LeaverIsOut` | only the creator rotates after a departure: when the creator himself leaves, or the blob that tells him is lost, who left knows the key in use |
| Composer | `NeverOnDisk` | the array on the screen may be the saved one: view-once messages reach the disk with it |
| Conversation | `GroupReadIsShown`, `DeletedForAll` | a group message is found by the id of its last member's blob, so the others' receipts and deletions miss (both hold in a direct chat) |
| ViewOnce | `SeenOnce` | a chat drawn again within the ten seconds offers the message again |
| ViewOnce | `SeenByReceiver` | the store in memory survives a logout, and the next user's chat with the same contact shows it |
| ChatPanel | `SelectedIsOpen` | the back arrow leaves `activeChatId` set: what arrives is marked read |
| ChatPanel | `NotifiedIsOpened` | a notification makes a chat active without opening it |
| ModalManager | `BlockedByPhrase` | `blockDismiss` stays set when something is opened over the phrase |
| Reconciliation | `ReportedIsLost` | no call takes a relation back from the server: what the user removed is reported as lost |

Smaller observations, without a definition:

- Server: the SQL `UPDATE` settles a claim that has expired (the ADR calls it Missing, and the
  memory backend refuses; the contract allows both); `/api/relay` commits the nonce before the blob
  is queued (the ADR says after); `docs/ARCHITECTURE.md:92` promises at least once, the code calls itself
  "FAIL-CLOSED AT-MOST-ONCE" (`api.py:761`), which is the channel it is shown to implement; a socket is
  registered, and its user shown online, before it has authenticated (`api.py:291`), also over the choice of a user
  who is hidden; `dh_ratchet.rs:64` says that a session from a shared secret activates the DH after the
  first message; it never turns.
- Session and connection: the session token lasts 8 h; after it a fetch is answered 401, registering again 409, and
  the manager stops for good (the comment at `sync_manager.js:179-203` expects keys to be
  registered again); `onclose` reconnects a manager five seconds after its logout; the interval of the
  online status is set at each login and never cleared (`auth_ui.js:541-543`).
- Vault: an interrupted change of password leaves items and marker under different keys
  (`auth_ui.js:905-963`); a mistyped password in "disable" or "change" closes the vault, and saves are
  dropped (`storage_manager.js:252-263`); the fallback in localStorage leaves an older item in IndexedDB, which is read first.
- Contacts: crossing accepts leave two different keys; the record written after `sendBlob` in
  `sendContactRequest` overwrites an answer that came meanwhile; a removed contact keeps its ratchet state;
  a read that fails, followed by any save, loses the list (`auth_ui.js:346-353`); names written
  without their data let `load()` bring a removed contact back.
- Groups: an invitation for a group one is in adds a second copy; opening a group sends no read receipts;
  `ephemeral_viewed` of the first viewer deletes the sender's copy.
- Recovery and backups: a logout stops neither timer nor phrase of the recovery; after F5 or a login the phrase is
  not there and `autoBackup` does nothing; a backup collected with a closed vault becomes an empty latest
  backup; `mergeContacts` of two arrays is an object with indices as keys; `applyState` is overwritten by what
  the managers hold in memory; cancelling the save dialog still reports a backup; a refused purge is reported as
  done; the reconciliation's "backup file" passes text where a file is expected and always fails.
- Interface: "cancel" of a recording sends it; listeners of the set-up accumulate with each login; a dialog opened
  over another empties it and its promise stays pending; `hermes:open_chat` has no listener.

## 6. What is left out

Cryptography is a check a request has passed, a bijection of names or, in DoubleRatchet, a
term; a ciphertext altered in transit, the X3DH handshake and saved sessions of the core are
not modelled; audit logging, formatting and HTTP details are dropped. Time is in whole seconds. The
limit of new connections per second and the rate limiters only refuse requests, and a refused request
changes no state modelled here. The retention of relay nonces (24 h) exceeds the behaviours of RelayServer,
so nonces do not expire there; the registry models cover expiry, and ClientOutbox has nonces forgotten.

Not modelled on the client: media storage (nothing of the application stores images but restoring a backup),
the security monitor, notifications' look, themes, tours, translations, test pages, the glue generated by wasm-bindgen
(its contents are the compiler's). On the server: steganography, dispersion and hybrid encryption (numeric
transformations for test vectors), the IP anonymiser (a pure function), and what section 7 plans.

Hazards that no property covers yet, all on the server side: revoked tokens are remembered by one process
(`otp_registry.py:222`); the window of the rate limiter at its boundary (`load_balancer.py:110`); marks of viewers who are
no recipients (`ephemeral_media_store.py:148`); two registrations of one `id_hash` (`db_connection.py:221`); a backup
upload retried after a lost answer (`db_connection.py:394`); `accept()` counts a connection before the `try` that would
give its slot back (`api.py:1126`); `decrypt` advances the chains before the body is authenticated
(`dh_ratchet.rs:230`).

## 7. Plan

1. Done: registry and backends, signed requests, gateway, queue, relay, double ratchet; the client from the vault to
   the backups.
2. Done: the proofs of section 4. No module declares a RECURSIVE operator, so what is added to them can be
   proved about as well; the four liveness properties stay with TLC.
3. The remaining server parts: `SessionTokens`, `RateLimiter`, `EphemeralImageStore`, `Registration`, `BackupChain`; X3DH on top of
   `DoubleRatchet`; `decrypt` of an altered body.
