----------------------------- MODULE VaultStorage -----------------------------
(* EncryptedStorageManager (storage_manager.js) and the flows of auth_ui.js  *)
(* that open and close it: login, registration, restoring a session after a  *)
(* reload, change of password, disabling the account, logout. One page, one  *)
(* event loop: between two awaits nothing else runs, and a call whose await  *)
(* is over resumes before the next event of the user is handled.             *)
EXTENDS Naturals

CONSTANTS
  Users,         \* id hashes of the accounts of this device
  Passwords,     \* what a user may type
  Default,       \* 'hermes_default_session_key', tried by save and load
  Calls,         \* asynchronous calls in progress at the same time
  None

VARIABLES
  userId,       \* currentUserIdHash
  isUnlocked,
  vaultKey,     \* key inside the WASM vault: <<salt, password>>, or None
  ready,        \* hermesBridge.ready
  unlocking,    \* _unlockPromise: what _doUnlock is working on, or None
  marker,       \* user -> key that opens _hermes_lock_test_<user>, or None
  kv,           \* user -> key of the item in IndexedDB, or None
  ls,           \* user -> key of its fallback copy in localStorage, or None
  session,      \* sessionStorage: the user and password kept for a reload
  opened,       \* the user whose chat is on the screen, or None
  calls         \* call -> its place in the code

vars == <<userId, isUnlocked, vaultKey, ready, unlocking, marker, kv, ls,
          session, opened, calls>>
vault == <<isUnlocked, vaultKey>>
disk == <<marker, kv, ls>>

NoSession == [user |-> None, pass |-> None]
Idle == [op |-> "idle", pc |-> "idle", user |-> None, pass |-> None, ok |-> FALSE]
Call(op, u, p) == [op |-> op, pc |-> "unlocking", user |-> u, pass |-> p, ok |-> FALSE]

Keys == Users \X (Passwords \cup {Default})
Ops == {"restore", "login", "register", "change", "disable", "save", "load"}

Init ==
  /\ userId = None /\ isUnlocked = FALSE /\ vaultKey = None /\ ready = FALSE
  /\ unlocking = None
  /\ marker = [u \in Users |-> None]
  /\ kv = [u \in Users |-> None] /\ ls = [u \in Users |-> None]
  /\ session = NoSession
  /\ opened = None
  /\ calls = [c \in Calls |-> Idle]

(* getUserId                                                                 *)
Current == IF userId # None THEN userId ELSE session.user

(* Whatever can resume has resumed: a new event may be handled.              *)
Quiet == ~(ready /\ unlocking # None) /\ \A c \in Calls : calls[c].pc # "resumed"

-----------------------------------------------------------------------------
(* unlock: a second caller gets the promise of the first, whatever password  *)
(* it brings.                                                                *)
Unlock(u, p) ==
  unlocking' = IF unlocking = None THEN [user |-> u, pass |-> p] ELSE unlocking

(* Mutant: the flag survives a change of user.                               *)
SetUserIdKeepsFlag(u) ==
  /\ userId' = u
  /\ session' = [session EXCEPT !.user = u]
  /\ UNCHANGED vault

(* setUserId                                                                 *)
SetUserId(u) ==
  /\ userId' = u
  /\ session' = [session EXCEPT !.user = u]
  /\ isUnlocked' = (isUnlocked /\ userId = u)
  /\ UNCHANGED vaultKey

(* Whether key opens the vault of u, and the marker afterwards: a vault      *)
(* without a marker takes any key and is marked with it.                     *)
Outcome(u, key) ==
  IF marker[u] = None THEN [ok |-> TRUE, marker |-> key]
  ELSE [ok |-> marker[u] = key, marker |-> marker[u]]

(* The rest of _doUnlock after hermesBridge.init(): the salt is that of the  *)
(* user the call started with, the marker that of the current user.          *)
DoUnlock ==
  /\ unlocking # None /\ ready
  /\ LET key == <<unlocking.user, unlocking.pass>>
         out == Outcome(Current, key)
     IN /\ vaultKey' = key
        /\ isUnlocked' = out.ok
        /\ marker' = [marker EXCEPT ![Current] = out.marker]
        /\ calls' = [c \in Calls |->
             IF calls[c].pc = "unlocking" THEN [calls[c] EXCEPT !.pc = "resumed", !.ok = out.ok]
             ELSE calls[c]]
  /\ unlocking' = None
  /\ UNCHANGED <<userId, ready, kv, ls, session, opened>>

(* The WASM module has been fetched and verified; or it could not be, and    *)
(* whoever awaits it gets the exception (a later call tries again).          *)
BridgeReady ==
  /\ ~ready
  /\ ready' = TRUE
  /\ UNCHANGED <<userId, vault, unlocking, disk, session, opened, calls>>

BridgeFails ==
  /\ ~ready /\ unlocking # None
  /\ unlocking' = None
  /\ calls' = [c \in Calls |-> IF calls[c].pc = "unlocking" THEN Idle ELSE calls[c]]
  /\ session' = IF \E c \in Calls : calls[c].op = "restore" THEN NoSession ELSE session
  /\ UNCHANGED <<userId, vault, ready, disk, opened>>

-----------------------------------------------------------------------------
(* The page is loaded (again): PrivacySettings loads its item in the         *)
(* background, which unlocks with the default password, and tryRestoreSession *)
(* unlocks with the cached one.                                              *)
Reload(bg, fg) ==
  /\ bg # fg
  /\ userId' = session.user
  /\ isUnlocked' = FALSE /\ vaultKey' = None /\ ready' = FALSE /\ opened' = None
  /\ unlocking' = IF session.user = None THEN None
                  ELSE [user |-> session.user, pass |-> Default]
  /\ calls' = [c \in Calls |->
       IF session.user = None THEN Idle
       ELSE CASE c = bg -> Call("load", session.user, Default)
              [] c = fg /\ session.pass # None ->
                   Call("restore", session.user, session.pass)
              [] OTHER -> Idle]
  /\ UNCHANGED <<disk, session>>

(* A click on login or register. A login needs a marker on this device.      *)
Enter(c, op, u, p) ==
  /\ Quiet /\ calls[c] = Idle /\ opened = None
  /\ \A d \in Calls : calls[d].op \notin {"login", "register"}
  /\ op = "login" => marker[u] # None
  /\ SetUserId(u)
  /\ Unlock(u, p)
  /\ calls' = [calls EXCEPT ![c] = Call(op, u, p)]
  /\ UNCHANGED <<ready, disk, opened>>

(* Clicks inside an open session that ask for the password again.            *)
Confirm(c, op, p) ==
  /\ Quiet /\ calls[c] = Idle /\ opened # None
  /\ \A d \in Calls : calls[d].op \notin {"change", "disable"}
  /\ Unlock(Current, p)
  /\ calls' = [calls EXCEPT ![c] = Call(op, Current, p)]
  /\ UNCHANGED <<userId, vault, ready, disk, session, opened>>

(* A save or load of the session while the flag is down first tries the      *)
(* default password.                                                         *)
Background(c, op) ==
  /\ Quiet /\ calls[c] = Idle /\ opened # None /\ ~isUnlocked
  /\ Unlock(Current, Default)
  /\ calls' = [calls EXCEPT ![c] = Call(op, Current, Default)]
  /\ UNCHANGED <<userId, vault, ready, disk, session, opened>>

-----------------------------------------------------------------------------
Resumed(c, op) == calls[c].pc = "resumed" /\ calls[c].op = op
Ends(c) == calls' = [calls EXCEPT ![c] = Idle]

(* The put of save, or its fallback when IndexedDB does not open.            *)
Put(u, key) ==
  \/ kv' = [kv EXCEPT ![u] = key] /\ UNCHANGED ls
  \/ ls' = [ls EXCEPT ![u] = key] /\ UNCHANGED kv

(* login, register and tryRestoreSession go on to doLoginTransition, which   *)
(* caches the password; a refused login stays on the login view. The result  *)
(* of the unlock is not looked at by registration, whose keys save drops     *)
(* when the vault is not open.                                               *)
Opened(c) ==
  /\ Resumed(c, "login") \/ Resumed(c, "restore")
  /\ IF calls[c].ok
     THEN /\ opened' = calls[c].user
          /\ session' = [user |-> calls[c].user, pass |-> calls[c].pass]
     ELSE UNCHANGED <<opened, session>>
  /\ Ends(c)
  /\ UNCHANGED <<userId, vault, ready, unlocking, disk>>

Registered(c) ==
  /\ Resumed(c, "register")
  /\ IF isUnlocked
     THEN /\ Put(Current, vaultKey)
          /\ opened' = calls[c].user
          /\ session' = [user |-> calls[c].user, pass |-> calls[c].pass]
     ELSE UNCHANGED <<kv, ls, opened, session>>
  /\ Ends(c)
  /\ UNCHANGED <<userId, vault, ready, unlocking, marker>>

(* The server refuses the registration: the marker stays.                    *)
RegisterRefused(c) ==
  /\ Resumed(c, "register")
  /\ Ends(c)
  /\ UNCHANGED <<userId, vault, ready, unlocking, disk, session, opened>>

(* save: encrypt and put, at once or after the unlock; nothing is stored     *)
(* when that failed.                                                         *)
Save ==
  /\ Quiet /\ opened # None /\ isUnlocked
  /\ Put(Current, vaultKey)
  /\ UNCHANGED <<userId, vault, ready, unlocking, marker, session, opened, calls>>

(* Mutant: save goes on with whatever key the vault holds.                   *)
SavedAnyway(c) ==
  /\ Resumed(c, "save")
  /\ Put(Current, vaultKey)
  /\ Ends(c)
  /\ UNCHANGED <<userId, vault, ready, unlocking, marker, session, opened>>

Saved(c) ==
  /\ Resumed(c, "save")
  /\ IF calls[c].ok THEN Put(Current, vaultKey) ELSE UNCHANGED <<kv, ls>>
  /\ Ends(c)
  /\ UNCHANGED <<userId, vault, ready, unlocking, marker, session, opened>>

(* load: a copy in localStorage is migrated, and only then removed, when     *)
(* IndexedDB has none and the copy opens.                                    *)
Loaded(c) ==
  /\ Resumed(c, "load")
  /\ IF calls[c].ok /\ kv[Current] = None /\ ls[Current] = vaultKey
     THEN kv' = [kv EXCEPT ![Current] = vaultKey] /\ ls' = [ls EXCEPT ![Current] = None]
     ELSE UNCHANGED <<kv, ls>>
  /\ Ends(c)
  /\ UNCHANGED <<userId, vault, ready, unlocking, marker, session, opened>>

(* Change of password: the old one opens the vault, the data is read, the    *)
(* vault is locked and opened with the new password; the old marker is still *)
(* there, so that refuses, and the first save then tries the default.        *)
ChangeStarted(c, new) ==
  /\ Resumed(c, "change") /\ calls[c].pass \in Passwords
  /\ IF calls[c].ok
     THEN /\ isUnlocked' = FALSE /\ vaultKey' = None
          /\ Unlock(Current, new)
          /\ calls' = [calls EXCEPT ![c] = [Call("reopen", Current, new) EXCEPT !.ok = FALSE]]
     ELSE Ends(c) /\ UNCHANGED <<vault, unlocking>>
  /\ UNCHANGED <<userId, ready, disk, session, opened>>

Reopened(c) ==
  /\ Resumed(c, "reopen")
  /\ IF isUnlocked
     THEN /\ Put(Current, vaultKey)
          /\ calls' = [calls EXCEPT ![c].op = "mark"]
          /\ UNCHANGED unlocking
     ELSE /\ Unlock(Current, Default)
          /\ calls' = [calls EXCEPT ![c].op = "mark", ![c].pc = "unlocking"]
          /\ UNCHANGED <<kv, ls>>
  /\ UNCHANGED <<userId, vault, ready, marker, session, opened>>

(* Its last steps: the marker is encrypted with the key the vault holds now. *)
Marked(c) ==
  /\ Resumed(c, "mark")
  /\ IF vaultKey # None
     THEN /\ marker' = [marker EXCEPT ![Current] = vaultKey]
          /\ session' = [session EXCEPT !.pass = calls[c].pass]
     ELSE UNCHANGED <<marker, session>>
  /\ Ends(c)
  /\ UNCHANGED <<userId, vault, ready, unlocking, kv, ls, opened>>

(* executeWipeLogout; the account's data goes first when it is disabled.     *)
LeftSession ==
  /\ isUnlocked' = FALSE /\ vaultKey' = None
  /\ session' = NoSession /\ opened' = None

Logout ==
  /\ Quiet /\ opened # None
  /\ LeftSession
  /\ UNCHANGED <<userId, ready, unlocking, disk, calls>>

Disabled(c) ==
  /\ Resumed(c, "disable")
  /\ IF calls[c].ok
     THEN /\ kv' = [kv EXCEPT ![Current] = None]
          /\ ls' = [ls EXCEPT ![Current] = None]
          /\ marker' = [marker EXCEPT ![Current] = None]
          /\ LeftSession
     ELSE UNCHANGED <<disk, vault, session, opened>>
  /\ Ends(c)
  /\ UNCHANGED <<userId, ready, unlocking>>

(* forgetAllIdentities: the markers go, the encrypted data stays.            *)
Forget ==
  /\ Quiet /\ opened = None /\ \E u \in Users : marker[u] # None
  /\ marker' = [u \in Users |-> None]
  /\ UNCHANGED <<userId, vault, ready, unlocking, kv, ls, session, opened, calls>>

Next ==
  \/ BridgeReady \/ BridgeFails \/ DoUnlock \/ Save \/ Logout \/ Forget
  \/ \E b, f \in Calls : Reload(b, f)
  \/ \E c \in Calls :
       \/ \E u \in Users, p \in Passwords, op \in {"login", "register"} : Enter(c, op, u, p)
       \/ \E p \in Passwords, op \in {"change", "disable"} : Confirm(c, op, p)
       \/ \E op \in {"save", "load"} : Background(c, op)
       \/ \E p \in Passwords : ChangeStarted(c, p)
       \/ Opened(c) \/ Registered(c) \/ RegisterRefused(c) \/ Saved(c) \/ Loaded(c)
       \/ Reopened(c) \/ Marked(c) \/ Disabled(c)

Spec == Init /\ [][Next]_vars

-----------------------------------------------------------------------------
TypeOK ==
  /\ userId \in Users \cup {None}
  /\ isUnlocked \in BOOLEAN /\ ready \in BOOLEAN
  /\ vaultKey \in Keys \cup {None}
  /\ unlocking \in [user : Users, pass : Passwords \cup {Default}] \cup {None}
  /\ marker \in [Users -> Keys \cup {None}]
  /\ kv \in [Users -> Keys \cup {None}]
  /\ ls \in [Users -> Keys \cup {None}]
  /\ session \in [user : Users \cup {None}, pass : Passwords \cup {Default, None}]
  /\ opened \in Users \cup {None}
  /\ calls \in [Calls -> {Idle} \cup
       [op : Ops \cup {"reopen", "mark"}, pc : {"unlocking", "resumed"},
        user : Users, pass : Passwords \cup {Default}, ok : BOOLEAN]]

(* While the flag says that the vault is open, the key inside WASM is the    *)
(* one that opens the marker of the current user: no login, background load, *)
(* change of user or logout leaves the flag up with the key of another vault *)
(* or of a wrong password (the failure told in the comment of setUserId).    *)
FlagMeansKey ==
  isUnlocked /\ marker[Current] # None => vaultKey = marker[Current]

(* What is stored under a user's name is always sealed with the key that     *)
(* opens that user's vault at that moment (if it has a marker), whatever     *)
(* unlocks, changes of user and retries with the default password were in    *)
(* flight when it was written.                                               *)
SealedForOwner ==
  [][\A u \in Users :
       /\ kv'[u] \notin {kv[u], None} => kv'[u] = marker[u] \/ marker[u] = None
       /\ ls'[u] \notin {ls[u], None} => ls'[u] = marker[u] \/ marker[u] = None]_vars

(* Only a change of password puts another key in place of a marker's: a      *)
(* wrong password never does (BACKLOG.md:661).                               *)
MarkerStays ==
  [][\A u \in Users : marker[u] # None /\ marker'[u] # marker[u] =>
       marker'[u] = None \/ \E c \in Calls : calls[c].op = "mark"]_vars

-----------------------------------------------------------------------------
(* What the repository says and the code does not keep: TLC refutes it.      *)

(* What the comment of doLoginTransition says ("Cache idHash so F5 refresh   *)
(* restores session!"): the password cached for a reload restores the        *)
(* session when the page is loaded again.                                    *)
ReloadRestores ==
  \A c \in Calls :
    Resumed(c, "restore") /\ marker[Current] = <<calls[c].user, calls[c].pass>>
      => calls[c].ok
=============================================================================
