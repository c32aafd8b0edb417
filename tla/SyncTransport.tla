----------------------------- MODULE SyncTransport -----------------------------
(* How a page keeps in touch with the server (sync_manager.js): the login of  *)
(* start, the poll every fifteen seconds, the socket that comes back five     *)
(* seconds after it was closed, the keys that are made again when there are   *)
(* none, and what a logout (auth_ui.js) ends of all this. Each login makes a  *)
(* new manager; whatever an earlier one still awaits goes on, for the user    *)
(* the storage has by then.                                                   *)
EXTENDS Naturals
CONSTANTS
  Users, Managers,
  Slots,        \* requests of one manager at the same time
  MaxKeys,      \* bound: pairs of keys ever made
  None
VARIABLES
  user, open,   \* who is logged in; whether the vault is open
  sid,          \* the user id of the storage, kept after a logout
  sync,         \* state.sync, the manager of the last login
  token,        \* hermes_session_token: its user and whether the server takes it
  disk,         \* user -> keys in the vault (0: none)
  mem,          \* state.userKeys
  server,       \* user -> keys registered there (0: unknown user)
  pending,      \* users with blobs on the server
  boot,         \* manager -> how far start() is
  poll,         \* manager -> the interval runs
  socket,       \* manager -> its socket or the timer that opens the next one
  calls,        \* <<manager, slot>> -> a request in progress
  keys,         \* keys made so far
  told,         \* the user was told that synchronisation failed
  forgot,       \* the server lost a user
  crossed       \* users whose vault was given keys registered for another

vars == <<user, open, sid, sync, token, disk, mem, server, pending, boot, poll,
          socket, calls, keys, told, forgot, crossed>>
session == <<user, open, sid, sync>>
managers == <<boot, poll, socket>>
adopted == <<disk, mem, keys, crossed>>

Calls == Managers \X Slots
Idle == [pc |-> "idle", of |-> None, key |-> 0, then |-> "fetch"]
NoToken == [of |-> None, valid |-> FALSE]

Init ==
  /\ user = None /\ open = FALSE /\ sid = None /\ sync = None /\ token = NoToken
  /\ disk \in [Users -> {0, 1}] /\ server = disk /\ mem = 0 /\ keys = 1
  /\ pending = {}
  /\ boot = [m \in Managers |-> "new"] /\ poll = [m \in Managers |-> FALSE]
  /\ socket = [m \in Managers |-> "none"]
  /\ calls = [c \in Calls |-> Idle]
  /\ told = FALSE /\ forgot = FALSE /\ crossed = {}

-----------------------------------------------------------------------------
(* getOrRecoverUserKeys: the vault, then the memory; without either new keys  *)
(* are registered first.                                                      *)
Keys == IF open /\ sid = user /\ disk[sid] # 0 THEN disk[sid] ELSE mem

Begin(c, then) ==
  calls' = [calls EXCEPT ![c] =
    [pc |-> IF Keys = 0 THEN "keys" ELSE then, of |-> sid, key |-> Keys, then |-> then]]

(* What follows a request: start() goes on after its login and its first poll.*)
Follow(c) ==
  LET m == c[1] IN
  /\ calls' = [calls EXCEPT ![c] = Idle]
  /\ boot' = [boot EXCEPT ![m] =
       IF calls[c].then = "login" THEN "polls" ELSE IF calls[c].then = "first" THEN "on" ELSE @]

(* savePQCKeys: into the vault that is open by now, whoever's keys they are.  *)
Kept(c) ==
  /\ disk' = IF open THEN [disk EXCEPT ![sid] = keys'] ELSE disk
  /\ crossed' = IF open /\ sid # calls[c].of THEN crossed \cup {sid} ELSE crossed

(* Mutant: new keys are adopted before the server has answered.               *)
KeysAdopted(c) ==
  /\ calls[c].pc = "keys" /\ keys < MaxKeys
  /\ keys' = keys + 1 /\ mem' = keys'
  /\ Kept(c)
  /\ IF server[calls[c].of] = 0
     THEN /\ server' = [server EXCEPT ![calls[c].of] = keys']
          /\ calls' = [calls EXCEPT ![c].pc = calls[c].then, ![c].key = keys']
          /\ UNCHANGED <<boot, told>>
     ELSE Follow(c) /\ told' = TRUE /\ UNCHANGED server
  /\ UNCHANGED <<session, token, pending, poll, socket, forgot>>

(* Taken: only now they are adopted. Refused (409): the user is told.         *)
KeysAnswered(c) ==
  /\ calls[c].pc = "keys" /\ (keys < MaxKeys \/ server[calls[c].of] # 0)
  /\ IF server[calls[c].of] = 0
     THEN /\ keys' = keys + 1 /\ mem' = keys'
          /\ server' = [server EXCEPT ![calls[c].of] = keys']
          /\ Kept(c)
          /\ calls' = [calls EXCEPT ![c].pc = calls[c].then, ![c].key = keys']
          /\ UNCHANGED <<boot, told>>
     ELSE Follow(c) /\ told' = TRUE /\ UNCHANGED <<adopted, server>>
  /\ UNCHANGED <<session, token, pending, poll, socket, forgot>>

-----------------------------------------------------------------------------
(* doLoginTransition, typed or restored after a reload: a manager and start(),*)
(* whose first step is _ensureRegistered.                                     *)
Login(m, s, u) ==
  /\ user = None /\ boot[m] = "new" /\ calls[<<m, s>>] = Idle
  /\ user' = u /\ open' = TRUE /\ sid' = u /\ sync' = m /\ mem' = disk[u]
  /\ boot' = [boot EXCEPT ![m] = "logs in"]
  /\ calls' = [calls EXCEPT ![<<m, s>>] =
       [pc |-> IF disk[u] = 0 THEN "keys" ELSE "login", of |-> u, key |-> disk[u], then |-> "login"]]
  /\ told' = FALSE
  /\ UNCHANGED <<token, disk, server, pending, poll, socket, keys, forgot, crossed>>

(* A token for a signature with the registered keys, whoever is there now.    *)
LoginAnswered(c) ==
  /\ calls[c].pc = "login"
  /\ token' = IF server[calls[c].of] = calls[c].key
              THEN [of |-> calls[c].of, valid |-> TRUE] ELSE token
  /\ Follow(c)
  /\ UNCHANGED <<session, adopted, server, pending, poll, socket, told, forgot>>

(* The interval is set, and the first poll awaited.                           *)
Polls(c) ==
  LET m == c[1] IN
  /\ boot[m] = "polls" /\ calls[c] = Idle
  /\ poll' = [poll EXCEPT ![m] = TRUE] /\ boot' = [boot EXCEPT ![m] = "first"]
  /\ Begin(c, "first")
  /\ UNCHANGED <<session, token, adopted, server, pending, socket, told, forgot>>

Poll(c) ==
  /\ poll[c[1]] /\ calls[c] = Idle
  /\ Begin(c, "fetch")
  /\ UNCHANGED <<session, token, adopted, server, pending, managers, told, forgot>>

Fetching(c) == calls[c].pc \in {"fetch", "first"}

(* /api/fetch hands out what is there for the user of the token. (After an    *)
(* answer that is for another user, or none, the poll has failed.)            *)
Fetched(c) ==
  /\ Fetching(c) /\ token = [of |-> calls[c].of, valid |-> TRUE]
  /\ pending' = pending \ {calls[c].of}
  /\ Follow(c)
  /\ UNCHANGED <<session, token, adopted, server, poll, socket, told, forgot>>

(* 401: the keys are registered once more.                                    *)
Refused(c) ==
  /\ Fetching(c) /\ ~token.valid
  /\ calls' = [calls EXCEPT ![c].pc = "again"]
  /\ UNCHANGED <<session, token, adopted, server, pending, managers, told, forgot>>

(* stop(): the interval and the socket, whose close event sets a timer.       *)
Stopped(m) ==
  /\ poll' = [poll EXCEPT ![m] = FALSE]
  /\ socket' = [socket EXCEPT ![m] = IF @ \in {"opening", "open"} THEN "closing" ELSE @]

(* A user the server knows (409) is told, and this manager stopped.           *)
AgainAnswered(c) ==
  /\ calls[c].pc = "again"
  /\ IF server[calls[c].of] = 0
     THEN server' = [server EXCEPT ![calls[c].of] = calls[c].key] /\ UNCHANGED <<poll, socket, told>>
     ELSE Stopped(c[1]) /\ told' = TRUE /\ UNCHANGED server
  /\ Follow(c)
  /\ UNCHANGED <<session, token, adopted, pending, forgot>>

(* Mutant: a poll that fails clears the interval.                             *)
FailsForGood(c) ==
  /\ calls[c] # Idle
  /\ Follow(c)
  /\ Stopped(c[1])
  /\ UNCHANGED <<session, token, adopted, server, pending, told, forgot>>

(* No answer, or one that says nothing (5xx, 403 for another's token).        *)
Fails(c) ==
  /\ calls[c] # Idle
  /\ Follow(c)
  /\ UNCHANGED <<session, token, adopted, server, pending, poll, socket, told, forgot>>

-----------------------------------------------------------------------------
(* connectWebSocket after the first poll, and by the timer.                   *)
Connect(m) ==
  /\ boot[m] = "on" /\ socket[m] \in {"none", "waiting"}
  /\ socket' = [socket EXCEPT ![m] = "opening"]
  /\ UNCHANGED <<session, token, adopted, server, pending, boot, poll, calls, told, forgot>>

(* onopen signs with the keys there are; auth_ok polls at once.               *)
AuthOk(c) ==
  LET m == c[1] IN
  /\ socket[m] = "opening" /\ Keys # 0 /\ server[sid] = Keys /\ calls[c] = Idle
  /\ socket' = [socket EXCEPT ![m] = "open"]
  /\ Begin(c, "fetch")
  /\ UNCHANGED <<session, token, adopted, server, pending, boot, poll, told, forgot>>

(* Refused, lost or closed: onclose sets the timer, whoever closed it.        *)
Closed(m) ==
  /\ socket[m] \in {"opening", "open", "closing"}
  /\ socket' = [socket EXCEPT ![m] = "waiting"]
  /\ UNCHANGED <<session, token, adopted, server, pending, boot, poll, calls, told, forgot>>

-----------------------------------------------------------------------------
(* executeWipeLogout: the token is revoked and removed, but when the server   *)
(* cannot be reached both are skipped; then the vault is closed and the       *)
(* manager of this login stopped.                                             *)
Logout(reached) ==
  /\ user # None
  /\ token' = IF reached \/ token = NoToken THEN NoToken ELSE token
  /\ user' = None /\ open' = FALSE /\ mem' = 0
  /\ Stopped(sync)
  /\ UNCHANGED <<sid, sync, disk, server, pending, boot, calls, keys, told, forgot, crossed>>

(* The dialogs of the settings close the vault on a mistyped password.        *)
Mistyped ==
  /\ user # None /\ open
  /\ open' = FALSE
  /\ UNCHANGED <<user, sid, sync, token, adopted, server, pending, managers, calls, told, forgot>>

(* The session storage survives, the managers do not.                         *)
Reload ==
  /\ user' = None /\ open' = FALSE /\ mem' = 0 /\ sync' = None
  /\ boot' = [m \in Managers |-> "new"] /\ poll' = [m \in Managers |-> FALSE]
  /\ socket' = [m \in Managers |-> "none"] /\ calls' = [c \in Calls |-> Idle]
  /\ UNCHANGED <<sid, token, disk, server, pending, keys, told, forgot, crossed>>

(* The server: eight hours end, blobs arrive, a restart loses its users.      *)
TokenExpires ==
  /\ token.valid
  /\ token' = [token EXCEPT !.valid = FALSE]
  /\ UNCHANGED <<session, adopted, server, pending, managers, calls, told, forgot>>

BlobArrives(u) ==
  /\ server[u] # 0 /\ u \notin pending
  /\ pending' = pending \cup {u}
  /\ UNCHANGED <<session, token, adopted, server, managers, calls, told, forgot>>

ServerForgets ==
  /\ ~forgot
  /\ forgot' = TRUE /\ server' = [u \in Users |-> 0] /\ pending' = {}
  /\ UNCHANGED <<session, token, adopted, managers, calls, told>>

Next ==
  \/ \E m \in Managers, s \in Slots, u \in Users : Login(m, s, u)
  \/ \E c \in Calls :
       \/ KeysAnswered(c) \/ LoginAnswered(c) \/ Polls(c) \/ Poll(c) \/ Fetched(c)
       \/ Refused(c) \/ AgainAnswered(c) \/ Fails(c) \/ AuthOk(c)
  \/ \E m \in Managers : Connect(m) \/ Closed(m)
  \/ \E reached \in BOOLEAN : Logout(reached)
  \/ \E u \in Users : BlobArrives(u)
  \/ Mistyped \/ Reload \/ TokenExpires \/ ServerForgets

Spec == Init /\ [][Next]_vars

(* The interval fires, every request ends, and the server answers again and   *)
(* again; nobody has to log in or out, and no socket has to open.             *)
Fairness ==
  \A c \in Calls :
    /\ WF_vars(Poll(c)) /\ WF_vars(Polls(c)) /\ WF_vars(LoginAnswered(c))
    /\ WF_vars(Fails(c))
    /\ SF_vars(Fetched(c)) /\ SF_vars(Refused(c))
    /\ SF_vars(KeysAnswered(c)) /\ SF_vars(AgainAnswered(c))

LiveSpec == Spec /\ Fairness

-----------------------------------------------------------------------------
TypeOK ==
  /\ user \in Users \cup {None} /\ open \in BOOLEAN /\ sid \in Users \cup {None}
  /\ sync \in Managers \cup {None}
  /\ token \in [of : Users \cup {None}, valid : BOOLEAN]
  /\ disk \in [Users -> 0..MaxKeys] /\ server \in [Users -> 0..MaxKeys]
  /\ mem \in 0..MaxKeys /\ keys \in 1..MaxKeys /\ pending \subseteq Users
  /\ boot \in [Managers -> {"new", "logs in", "polls", "first", "on"}]
  /\ poll \in [Managers -> BOOLEAN]
  /\ socket \in [Managers -> {"none", "opening", "open", "closing", "waiting"}]
  /\ calls \in [Calls -> [pc : {"idle", "keys", "login", "fetch", "first", "again"},
                          of : Users \cup {None}, key : 0..MaxKeys,
                          then : {"login", "fetch", "first"}]]
  /\ told \in BOOLEAN /\ forgot \in BOOLEAN /\ crossed \subseteq Users

(* sync_manager.js:136-142: keys the server did not take are never adopted:   *)
(* however many requests of however many logins find that there are none, and *)
(* whoever logs in or out between, the keys of a vault are those the server   *)
(* has (it may itself forget them), unless it was given another's.            *)
AdoptedAreRegistered ==
  ~forgot => \A u \in Users \ crossed : disk[u] \in {0, server[u]}

Served(u) == user = u /\ token = [of |-> u, valid |-> TRUE]

(* As long as the session lasts, blobs that wait for its user are fetched,    *)
(* however often the network fails and the socket comes and goes; or there    *)
(* are no keys to be had, and the user is told (sync_manager.js:100-164).     *)
PendingIsFetched ==
  \A u \in Users :
    (u \in pending /\ Served(u)) ~> (u \notin pending \/ ~Served(u) \/ told)

(* A user whose session the server no longer takes is told, or gets another.  *)
TroubleIsTold ==
  \A u \in Users :
    (user = u /\ ~token.valid) ~> (told \/ token.valid \/ user # u)

(* The connection does not fall silent: it fetches what waits, or the user is*)
(* told.                                                                     *)
SyncRecovers == PendingIsFetched /\ TroubleIsTold

-----------------------------------------------------------------------------
(* What the repository says and the code does not keep: TLC refutes it.      *)

(* auth_ui.js:561: without its revocation a token stays valid for hours after *)
(* an explicit logout; after a logout the page has none. A logout the server  *)
(* cannot be reached for keeps it.                                            *)
LogoutRemovesToken == sync # None /\ user = None => token = NoToken

(* sync_manager.js:136-142: adopting keys the server has not taken would leave*)
(* the vault with keys that can never authenticate. Keys registered for one   *)
(* user end in the vault of the next who has logged in by the answer.         *)
KeysAuthenticate == ~forgot => \A u \in Users : disk[u] \in {0, server[u]}
=============================================================================
