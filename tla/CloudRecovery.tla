----------------------------- MODULE CloudRecovery -----------------------------
(* The twelve words: recovery_system_complete.js with                         *)
(* recovery_key_derivation.js, its buttons (recovery_ui.js,                   *)
(* reconciliation_manager.js) and the logins, registrations and recoveries of *)
(* auth_ui.js that start it. One page: CompleteRecoverySystem is a single     *)
(* object that outlives the session of a user; its backups are asynchronous   *)
(* and read the phrase, the user and the token at different moments.          *)
(* Of the backups the server keeps only the last counts; of its content, only *)
(* whose it is.                                                               *)
EXTENDS Naturals
CONSTANTS
  Users,
  Phrases,     \* bound: phrases generated
  Calls,       \* autoBackup calls in progress at the same time
  None
VARIABLES
  user,        \* whose session (vault and token) is open, or None
  mnemonic, rsUser,   \* this.mnemonic, this.userIdHash
  running, timers,    \* _running; intervals and pairs of listeners installed
  calls,       \* autoBackup calls
  gen,         \* initialize in progress: its user, phrase and place
  fresh,       \* phrases not generated yet
  marker,      \* hermes_recovery_verification_<user>: the phrase that opens it
  proof,       \* server: the phrase whose proof is registered
  proven,      \* every phrase whose proof was once registered
  cloud,       \* server: the last backup under each user's hash, or None
  kept,        \* where the backup is that was reported as complete last
  switched,    \* a session opened over the phrase of somebody else, or over
               \* a backup in progress
  muddled      \* a generated phrase was given up after its marker was written

vars == <<user, mnemonic, rsUser, running, timers, calls, gen, fresh, marker,
          proof, proven, cloud, kept, switched, muddled>>
memory == <<mnemonic, rsUser>>
timer == <<running, timers>>
server == <<proof, proven, cloud>>

Idle == [pc |-> "idle", of |-> None, phrase |-> None, by |-> None, to |-> None]
NoGen == [pc |-> "none", user |-> None, phrase |-> None, first |-> FALSE]

Init ==
  /\ user = None /\ mnemonic = None /\ rsUser = None
  /\ running = FALSE /\ timers = 0
  /\ calls = [c \in Calls |-> Idle] /\ gen = NoGen /\ fresh = Phrases
  /\ marker = [u \in Users |-> None] /\ proof = [u \in Users |-> None]
  /\ proven = [u \in Users |-> {}] /\ cloud = [u \in Users |-> None]
  /\ kept = "none" /\ switched = FALSE /\ muddled = FALSE

-----------------------------------------------------------------------------
(* startAutoBackup: its immediate backup is one of the Backup steps.          *)
StartAutoBackup ==
  /\ running' = TRUE
  /\ timers' = IF running THEN timers ELSE timers + 1

Remembers(p, u) == mnemonic' = p /\ rsUser' = u

(* A session begins over what the object remembers of the previous one.       *)
Opens(u) ==
  /\ user' = u
  /\ switched' = \/ switched \/ (mnemonic' # None /\ rsUser' # u)
                  \/ \E c \in Calls : calls[c] # Idle

-----------------------------------------------------------------------------
(* initialize: called by the registration (whose early session it uses) and   *)
(* by the button that makes a new master key. First the phrase and its marker.*)
Register(u) ==
  /\ user = None /\ gen = NoGen /\ proven[u] = {} /\ marker[u] = None
  /\ UNCHANGED memory
  /\ Opens(u)
  /\ gen' = [pc |-> "begun", user |-> u, phrase |-> None, first |-> TRUE]
  /\ UNCHANGED <<timer, calls, fresh, marker, server, kept, muddled>>

Generate ==
  /\ user # None /\ gen = NoGen
  /\ gen' = [pc |-> "begun", user |-> user, phrase |-> None, first |-> FALSE]
  /\ UNCHANGED <<user, memory, timer, calls, fresh, marker, server, kept, switched, muddled>>

(* Mutant: the phrase is remembered as soon as it is made.                    *)
MarkedAndRemembered(p) ==
  /\ gen.pc = "begun" /\ p \in fresh /\ fresh' = fresh \ {p}
  /\ marker' = [marker EXCEPT ![gen.user] = p]
  /\ gen' = [gen EXCEPT !.pc = "showing", !.phrase = p]
  /\ Remembers(p, gen.user)
  /\ UNCHANGED <<user, timer, calls, server, kept, switched, muddled>>

Marked(p) ==
  /\ gen.pc = "begun" /\ p \in fresh /\ fresh' = fresh \ {p}
  /\ marker' = [marker EXCEPT ![gen.user] = p]
  /\ gen' = [gen EXCEPT !.pc = "showing", !.phrase = p]
  /\ UNCHANGED <<user, memory, timer, calls, server, kept, switched, muddled>>

(* The user confirms the words he is shown, and the proof is registered: only *)
(* then is the phrase used.                                                   *)
Confirmed ==
  /\ gen.pc = "showing"
  /\ gen' = [gen EXCEPT !.pc = "proving"]
  /\ UNCHANGED <<user, memory, timer, calls, fresh, marker, server, kept, switched, muddled>>

ProofRegistered ==
  /\ gen.pc = "proving"
  /\ proof' = [proof EXCEPT ![gen.user] = gen.phrase]
  /\ proven' = [proven EXCEPT ![gen.user] = @ \cup {gen.phrase}]
  /\ Remembers(gen.phrase, gen.user)
  /\ StartAutoBackup
  /\ gen' = NoGen
  /\ UNCHANGED <<user, calls, fresh, marker, cloud, kept, switched, muddled>>

(* He closes the dialog, or the server refuses: initialize throws. The marker *)
(* stays, and a registration ends before its login.                           *)
GenerateFails ==
  /\ gen.pc \in {"showing", "proving"}
  /\ user' = IF gen.first THEN None ELSE user
  /\ gen' = NoGen
  /\ muddled' = TRUE
  /\ UNCHANGED <<memory, timer, calls, fresh, marker, server, kept, switched>>

-----------------------------------------------------------------------------
(* autoBackup: by the interval, by the events of contacts and groups, by the  *)
(* button that exports. It reads the vault that is open now.                  *)
Backup(c) ==
  /\ running /\ calls[c] = Idle /\ mnemonic # None /\ rsUser # None
  /\ calls' = [calls EXCEPT ![c].pc = "collected", ![c].of = user]
  /\ UNCHANGED <<user, memory, timer, gen, fresh, marker, server, kept, switched, muddled>>

(* Compressed, then encrypted with the phrase remembered now, for the user    *)
(* the storage has now.                                                       *)
Sealed(c) ==
  /\ calls[c].pc = "collected"
  /\ calls' = [calls EXCEPT ![c].pc = "sealed", ![c].phrase = mnemonic,
                            ![c].by = rsUser, ![c].to = user]
  /\ UNCHANGED <<user, memory, timer, gen, fresh, marker, server, kept, switched, muddled>>

Ends(c) == calls' = [calls EXCEPT ![c] = Idle]

(* /api/backup takes it with a token of the user it is for.                   *)
Uploaded(c) ==
  /\ calls[c].pc = "sealed" /\ calls[c].to # None /\ user = calls[c].to
  /\ cloud' = [cloud EXCEPT ![user] =
       [phrase |-> calls[c].phrase, by |-> calls[c].by, of |-> calls[c].of]]
  /\ kept' = "server"
  /\ Ends(c)
  /\ UNCHANGED <<user, memory, timer, gen, fresh, marker, proof, proven, switched, muddled>>

(* It does not, or cannot be reached: a copy stays in localStorage under the  *)
(* id of the backup, and uploadBlob returns that id as it does on success.    *)
UploadRefused(c) ==
  /\ calls[c].pc = "sealed"
  /\ kept' = "device"
  /\ Ends(c)
  /\ UNCHANGED <<user, memory, timer, gen, fresh, marker, server, switched, muddled>>

-----------------------------------------------------------------------------
Latest(u, p) == cloud[u] # None /\ cloud[u].phrase = p /\ cloud[u].by = u

(* restore, by the button or by the reconciliation: the words are compared    *)
(* with the marker of this device and remembered before the backup is there.  *)
Restore(p) ==
  /\ user # None /\ gen = NoGen
  /\ marker[user] = p
  /\ Remembers(p, user)
  /\ IF Latest(user, p) THEN StartAutoBackup ELSE UNCHANGED timer
  /\ UNCHANGED <<user, calls, gen, fresh, marker, server, kept, switched, muddled>>

(* The server compares the proof; the words are remembered once the last      *)
(* backup has been opened with them.                                          *)
Recovered(u, p) ==
  /\ user = None /\ gen = NoGen
  /\ proof[u] = p /\ Latest(u, p)
  /\ Remembers(p, u)

(* Restoring without a session: a login follows (no marker is made here), or  *)
(* the user gives no new password.                                            *)
RestorePreAuth(u, p) ==
  /\ Recovered(u, p)
  /\ Opens(u)
  /\ StartAutoBackup
  /\ UNCHANGED <<calls, gen, fresh, marker, server, kept, muddled>>

RestoreGivenUp(u, p) ==
  /\ Recovered(u, p)
  /\ UNCHANGED <<user, timer, calls, gen, fresh, marker, server, kept, switched, muddled>>

(* doLoginTransition with the password: nothing tells the object its phrase.  *)
Login(u) ==
  /\ user = None /\ gen = NoGen /\ (proven[u] # {} \/ marker[u] # None)
  /\ UNCHANGED memory
  /\ Opens(u)
  /\ StartAutoBackup
  /\ UNCHANGED <<calls, gen, fresh, marker, server, kept, muddled>>

(* executeWipeLogout: the object and its timer are not told.                  *)
Logout ==
  /\ user # None /\ gen = NoGen
  /\ user' = None
  /\ UNCHANGED <<memory, timer, calls, gen, fresh, marker, server, kept, switched, muddled>>

(* The page is loaded again, with the session or on a device without any data:*)
(* a new object.                                                              *)
Reload(lost) ==
  /\ user' = IF lost THEN None ELSE user
  /\ marker' = IF lost THEN [u \in Users |-> None] ELSE marker
  /\ mnemonic' = None /\ rsUser' = None
  /\ running' = (user' # None) /\ timers' = IF user' # None THEN 1 ELSE 0
  /\ calls' = [c \in Calls |-> Idle] /\ gen' = NoGen
  /\ muddled' = (muddled \/ gen.pc \in {"showing", "proving"})
  /\ UNCHANGED <<fresh, server, kept, switched>>

Next ==
  \/ Generate \/ Confirmed \/ ProofRegistered \/ GenerateFails \/ Logout
  \/ \E u \in Users : Register(u) \/ Login(u)
  \/ \E p \in Phrases : Marked(p) \/ Restore(p)
  \/ \E u \in Users, p \in Phrases : RestorePreAuth(u, p) \/ RestoreGivenUp(u, p)
  \/ \E c \in Calls : Backup(c) \/ Sealed(c) \/ Uploaded(c) \/ UploadRefused(c)
  \/ \E lost \in BOOLEAN : Reload(lost)

Spec == Init /\ [][Next]_vars

-----------------------------------------------------------------------------
MaybeUser == Users \cup {None}
MaybePhrase == Phrases \cup {None}

TypeOK ==
  /\ user \in MaybeUser /\ rsUser \in MaybeUser /\ mnemonic \in MaybePhrase
  /\ running \in BOOLEAN /\ timers \in Nat
  /\ calls \in [Calls -> [pc : {"idle", "collected", "sealed"}, of : MaybeUser,
                          phrase : MaybePhrase, by : MaybeUser, to : MaybeUser]]
  /\ gen \in [pc : {"none", "begun", "showing", "proving"}, user : MaybeUser,
              phrase : MaybePhrase, first : BOOLEAN]
  /\ fresh \subseteq Phrases
  /\ marker \in [Users -> MaybePhrase] /\ proof \in [Users -> MaybePhrase]
  /\ proven \in [Users -> SUBSET Phrases]
  /\ cloud \in [Users -> [phrase : Phrases, by : Users, of : MaybeUser] \cup {None}]
  /\ kept \in {"none", "server", "device"}
  /\ switched \in BOOLEAN /\ muddled \in BOOLEAN

(* However often users register, make a new master key, restore and log in on *)
(* one page, one interval and one pair of listeners run: otherwise one event  *)
(* makes several backups with one signature, and the server takes them for    *)
(* replays (the bug told at startAutoBackup).                                 *)
OneTimer == timers = (IF running THEN 1 ELSE 0)

(* Whatever is under a user's hash on the server is his own data, and opens   *)
(* with a phrase he has confirmed and registered: no backup is made with a    *)
(* phrase that is still on the screen. (Not so when a session opens over the  *)
(* phrase of the previous user, or over a backup that was collected while the *)
(* vault was closed, or when a phrase was given up with its marker.)          *)
BackupsCanBeOpened ==
  ~switched /\ ~muddled =>
    \A u \in Users : cloud[u] # None =>
      /\ cloud[u].of = u /\ cloud[u].by = u
      /\ cloud[u].phrase \in proven[u]

(* The backups go on, one at a time, and their owner can open them.          *)
RecoveryKept == OneTimer /\ BackupsCanBeOpened

-----------------------------------------------------------------------------
(* What the repository says and the code does not keep: TLC refutes it.      *)

(* What initialize makes sure of ("sin eso, la frase mostrada al usuario      *)
(* nunca podria usarse para recuperar la cuenta"): the phrase whose proof the *)
(* server has opens the last backup of that user.                             *)
PhraseRecovers ==
  \A u \in Users : proof[u] # None /\ cloud[u] # None => Latest(u, proof[u])

(* What autoBackup says it verifies ("Verificar que el servidor acepto"): a   *)
(* backup reported as complete is on the server.                              *)
ReportedIsStored == kept # "device"
=============================================================================
