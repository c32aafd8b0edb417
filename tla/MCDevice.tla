------------------------------ MODULE MCDevice -------------------------------
(* What a device keeps, side by side: the vault, the lists a login reads, the*)
(* recovery from the cloud, the versions of the state, and the backups on the*)
(* device. A behaviour chooses one of them and only that one runs. Two       *)
(* accounts and two passwords on one page with two calls in progress; two    *)
(* contacts; two phrases and one backup in progress; two devices with two    *)
(* items; three backups for an index of two entries.                         *)
EXTENDS Naturals, FiniteSets, TLC

CONSTANTS
  People, Things, Calls, Uploads, Passwords, Self, Default, None,
  MaxClock, MaxEdits,          \* bounds of StateVersions
  MaxMade, MaxIndex, Parts     \* bounds of LocalBackups

VARIABLES
  part,   \* the part that runs
  userId, isUnlocked, vaultKey, ready, unlocking, vaultMarker, kv, ls,
  session, opened, vaultCalls,
  view, phase, cached, disk, sessionList, writing, hiccup,
  user, mnemonic, rsUser, running, timers, cloudCalls, gen, fresh,
  cloudMarker, proof, proven, cloudCloud, kept, switched, muddled,
  versionsList, array, img, versionsClock, versionsCloud, now,
  open, enabled, custom, busy, index, backupsClock, legacy, backupsCalls,
  made, stamps, done, deleted, data, memory, told, disturbed

(* null is no one and nothing, and no promise either.                        *)
ASSUME NoneAssumption ==
  /\ None \notin People \cup Things
  /\ None \notin [user : People, pass : Passwords \cup {Default}]
(* A clock, the edits and the backups can be counted; a restore writes.      *)
ASSUME BoundsAssumption ==
  /\ {MaxClock, MaxEdits, MaxMade, MaxIndex} \subseteq Nat
  /\ Parts \in Nat \ {0}

Vault == INSTANCE VaultStorage WITH
  Users <- People, marker <- vaultMarker, calls <- vaultCalls
Login == INSTANCE Session WITH
  People <- People \cup {Self}, list <- sessionList
Cloud == INSTANCE CloudRecovery WITH
  Users <- People, Phrases <- Things, Calls <- Uploads,
  calls <- cloudCalls, marker <- cloudMarker, cloud <- cloudCloud
Versions == INSTANCE StateVersions WITH
  Devices <- People, Items <- Things,
  list <- versionsList, clock <- versionsClock, cloud <- versionsCloud
Backups == INSTANCE LocalBackups WITH
  clock <- backupsClock, calls <- backupsCalls

vaultVars == <<userId, isUnlocked, vaultKey, ready, unlocking, vaultMarker,
    kv, ls, session, opened, vaultCalls>>
sessionVars == <<view, phase, cached, disk, sessionList, writing, hiccup>>
cloudVars == <<user, mnemonic, rsUser, running, timers, cloudCalls, gen,
    fresh, cloudMarker, proof, proven, cloudCloud, kept, switched, muddled>>
versionsVars == <<versionsList, array, img, versionsClock, versionsCloud, now>>
backupsVars == <<open, enabled, custom, busy, index, backupsClock, legacy,
    backupsCalls, made, stamps, done, deleted, data, memory, told, disturbed>>
vars == <<part, vaultVars, sessionVars, cloudVars, versionsVars, backupsVars>>

(* A part that does not run is left in one of its initial states.            *)
Resting ==
  /\ part # "session" => disk.names = {}
  /\ part # "backups" => enabled /\ ~custom

Init ==
  /\ part \in {"vault", "session", "cloud", "versions", "backups"}
  /\ Vault!Init /\ Login!Init /\ Cloud!Init /\ Versions!Init /\ Backups!Init
  /\ Resting

Next ==
  /\ UNCHANGED part
  /\ \/ /\ part = "vault" /\ Vault!Next
        /\ UNCHANGED <<sessionVars, cloudVars, versionsVars, backupsVars>>
     \/ /\ part = "session" /\ Login!Next
        /\ UNCHANGED <<vaultVars, cloudVars, versionsVars, backupsVars>>
     \/ /\ part = "cloud" /\ Cloud!Next
        /\ UNCHANGED <<vaultVars, sessionVars, versionsVars, backupsVars>>
     \/ /\ part = "versions" /\ Versions!Next
        /\ UNCHANGED <<vaultVars, sessionVars, cloudVars, backupsVars>>
     \/ /\ part = "backups" /\ Backups!Next
        /\ UNCHANGED <<vaultVars, sessionVars, cloudVars, versionsVars>>

Spec == Init /\ [][Next]_vars

-----------------------------------------------------------------------------
(* The invariants of a part hold with its type invariant while it runs.      *)

(* While the vault is said to be open, the key inside WASM is the right one. *)
FlagMeansKey == part = "vault" => Vault!TypeOK /\ Vault!FlagMeansKey

(* The contacts in memory are those the next login will read.                *)
StoredAsShown == part = "session" => Login!TypeOK /\ Login!StoredAsShown

(* One timer makes the backups, and their owner can open them.               *)
RecoveryKept == part = "cloud" => Cloud!TypeOK /\ Cloud!RecoveryKept

(* Clocks are compared and states merged as the order asks.                  *)
VersionsAgree == part = "versions" => Versions!TypeOK /\ Versions!VersionsAgree

(* What the user is told of his backups is so.                               *)
BackupsHonest == part = "backups" => Backups!TypeOK /\ Backups!BackupsHonest

(* No step takes away what is kept: what is stored is sealed for its owner,  *)
(* only a change of password replaces a marker, a login writes nothing, a    *)
(* restore over a concurrent state keeps the contacts.                       *)
StepsKeepData ==
  /\ Vault!SealedForOwner
  /\ Vault!MarkerStays
  /\ Login!LoginWritesNothing
  /\ Versions!ConcurrentKeepsLocal

(* After two operations on the index of backups crossed nothing is left to   *)
(* say; and one password is always a wrong one.                              *)
Bounds ==
  /\ part = "backups" => ~disturbed
  /\ part = "vault" => \A u \in People : vaultMarker[u] = None \/ vaultMarker[u][2] # "wrong"

Perms == Permutations(People) \cup Permutations(Things) \cup Permutations(Calls)
==============================================================================
