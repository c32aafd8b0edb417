------------------------------ MODULE LocalBackups ------------------------------
(* Backups on the device: backup_manager.js (the file, the index of backups,  *)
(* the counter of versions, restoring), what starts it without being asked    *)
(* (auto_backup_trigger.js) and its dialogs (backup_ui.js). Each operation    *)
(* reads something from the vault, awaits, and writes back what it made of    *)
(* it; a timer, an event, the user and the registration start them            *)
(* independently, and the vault may be closed in between.                     *)
EXTENDS Naturals, Sequences, SequencesExt
CONSTANTS
  Calls,        \* operations in progress at the same time
  MaxMade,      \* bound: backups made
  MaxIndex,     \* entries the index keeps (10 in the code)
  Parts,        \* bound: items a restore writes, 1..Parts (7 in the code)
  None
VARIABLES
  open,         \* storage.isUnlocked
  enabled,      \* settings: backupEnabled, with a timer
  custom,       \* settings: the destination is a folder
  busy,         \* _backupInProgress
  index,        \* hermes_backups on disk
  clock,        \* _hermes_vector_clock on disk, the entry of this device
  legacy,       \* <user>_local_backups in localStorage
  calls,
  made,         \* backups begun
  stamps,       \* backup -> the version it carries
  done,         \* backups reported as complete, in that order
  deleted,
  data, memory, \* the items on disk, and in the managers: old or new (restored)
  told,         \* what the last restore reported
  disturbed     \* two operations crossed, or the vault was closed under one

vars == <<open, enabled, custom, busy, index, clock, legacy, calls, made, stamps,
          done, deleted, data, memory, told, disturbed>>
settings == <<enabled, custom>>
backups == <<index, legacy, stamps, done, deleted>>
content == <<data, memory, told>>

Ids == 1..MaxMade
Idle == [op |-> "none", pc |-> "idle", id |-> 0, clock |-> 0, idx |-> <<>>, at |-> 0]
Auto == {"scheduled", "event"}

Init ==
  /\ open = TRUE /\ enabled \in BOOLEAN /\ custom \in BOOLEAN /\ busy = FALSE
  /\ index = <<>> /\ clock = 0 /\ legacy = <<>>
  /\ calls = [c \in Calls |-> Idle] /\ made = 0
  /\ stamps = [i \in Ids |-> 0] /\ done = <<>> /\ deleted = {}
  /\ data = [k \in 1..Parts |-> "old"] /\ memory = "old" /\ told = "none"
  /\ disturbed = FALSE

At(c, pc) == calls[c].pc = pc
Others(c) == {calls[d] : d \in Calls \ {c}}
(* A second read before the first reader has written back, or a read that a   *)
(* closed vault does not answer.                                              *)
Crosses(c, pcs) == disturbed' = (disturbed \/ ~open \/ \E o \in Others(c) : o.pc \in pcs)

-----------------------------------------------------------------------------
(* _incrementClock reads first; a closed vault answers nothing.               *)
Begin(c, op) ==
  /\ calls[c] = Idle /\ made < MaxMade
  /\ made' = made + 1
  /\ calls' = [calls EXCEPT ![c] =
       [Idle EXCEPT !.op = op, !.pc = "clock", !.id = made', !.clock = IF open THEN clock ELSE 0]]
  /\ Crosses(c, {"clock"})
  /\ UNCHANGED <<open, settings, index, clock, legacy, stamps, done, deleted, content>>

(* The button of the dialog, and the registration.                            *)
Create(c) == Begin(c, "create") /\ UNCHANGED busy

(* triggerScheduledBackup by the timer.                                       *)
Scheduled(c) == enabled /\ open /\ Begin(c, "scheduled") /\ UNCHANGED busy

(* triggerBackup by an event of the bus; with the vault closed it comes back  *)
(* at once.                                                                   *)
Trigger(c) == enabled /\ ~busy /\ open /\ Begin(c, "event") /\ busy' = TRUE

(* Mutant: the counter is not written back.                                   *)
ClockNotSaved(c) ==
  /\ At(c, "clock")
  /\ stamps' = [stamps EXCEPT ![calls[c].id] = calls[c].clock + 1]
  /\ calls' = [calls EXCEPT ![c].pc = "collected"]
  /\ UNCHANGED <<open, settings, busy, index, clock, legacy, made, done, deleted, content, disturbed>>

ClockSaved(c) ==
  /\ At(c, "clock")
  /\ clock' = IF open THEN calls[c].clock + 1 ELSE clock
  /\ stamps' = [stamps EXCEPT ![calls[c].id] = calls[c].clock + 1]
  /\ calls' = [calls EXCEPT ![c].pc = "collected"]
  /\ UNCHANGED <<open, settings, busy, index, legacy, made, done, deleted, content, disturbed>>

Ends(c) ==
  /\ calls' = [calls EXCEPT ![c] = Idle]
  /\ busy' = (busy /\ calls[c].op # "event")

(* Collecting, the checksum or the encryption throws.                         *)
Fails(c) ==
  /\ At(c, "collected") /\ Ends(c)
  /\ UNCHANGED <<open, settings, index, clock, legacy, made, stamps, done, deleted, content, disturbed>>

(* A backup for a folder is only downloaded.                                  *)
Downloaded(c) ==
  /\ At(c, "collected") /\ calls[c].op \in Auto /\ custom
  /\ Ends(c)
  /\ UNCHANGED <<open, settings, index, clock, legacy, made, stamps, done, deleted, content, disturbed>>

(* _registerBackup, and deleteBackupFromIndex, read the index ...             *)
IndexRead(c) ==
  /\ At(c, "collected") /\ ~(calls[c].op \in Auto /\ custom)
  /\ calls' = [calls EXCEPT ![c].pc = "index", ![c].idx = IF open THEN index ELSE <<>>]
  /\ Crosses(c, {"index", "delete"})
  /\ UNCHANGED <<open, settings, busy, clock, made, backups, content>>

Delete(c, i) ==
  /\ calls[c] = Idle /\ open /\ i \in ToSet(index)
  /\ calls' = [calls EXCEPT ![c] = [Idle EXCEPT !.op = "delete", !.pc = "delete", !.id = i, !.idx = index]]
  /\ Crosses(c, {"index", "delete"})
  /\ UNCHANGED <<open, settings, busy, clock, made, backups, content>>

(* slice(-10)                                                                 *)
LastOf(seq) ==
  SubSeq(seq, (IF Len(seq) > MaxIndex THEN Len(seq) - MaxIndex ELSE 0) + 1, Len(seq))

(* filter: all but i, in their order.                                         *)
Unless(seq, i, j) == IF j = i THEN seq ELSE Append(seq, j)
Without(seq, i) ==
  LET kept[n \in 0..Len(seq)] == IF n = 0 THEN <<>> ELSE Unless(kept[n - 1], i, seq[n])
  IN kept[Len(seq)]

(* ... and write it back; an automatic backup also adds to the old list,      *)
(* without an await between.                                                  *)
IndexSaved(c) ==
  /\ At(c, "index")
  /\ index' = IF open THEN LastOf(Append(calls[c].idx, calls[c].id)) ELSE index
  /\ legacy' = IF calls[c].op \in Auto THEN LastOf(Append(legacy, calls[c].id)) ELSE legacy
  /\ done' = Append(done, calls[c].id)
  /\ Ends(c)
  /\ UNCHANGED <<open, settings, clock, made, stamps, deleted, content, disturbed>>

DeleteSaved(c) ==
  /\ At(c, "delete")
  /\ index' = IF open THEN Without(calls[c].idx, calls[c].id) ELSE index
  /\ deleted' = deleted \cup {calls[c].id}
  /\ Ends(c)
  /\ UNCHANGED <<open, settings, clock, legacy, made, stamps, done, content, disturbed>>

(* The old list has a button of its own.                                      *)
DeleteLegacy(i) ==
  /\ i \in ToSet(legacy)
  /\ legacy' = Without(legacy, i)
  /\ UNCHANGED <<open, settings, busy, index, clock, calls, made, stamps, done, deleted, content, disturbed>>

-----------------------------------------------------------------------------
(* restoreBackup: decrypt and compare the checksum, then write item by item.  *)
Restore(c) ==
  /\ calls[c] = Idle /\ told = "none" /\ \A o \in Others(c) : o.op # "restore"
  /\ calls' = [calls EXCEPT ![c] = [Idle EXCEPT !.op = "restore", !.pc = "opening"]]
  /\ Crosses(c, {})
  /\ UNCHANGED <<open, settings, busy, clock, made, backups, content>>

Accepted(c, good) ==
  /\ At(c, "opening")
  /\ IF good THEN calls' = [calls EXCEPT ![c].pc = "writing", ![c].at = 1] /\ UNCHANGED told
             ELSE calls' = [calls EXCEPT ![c] = Idle] /\ told' = "refused"
  /\ UNCHANGED <<open, settings, busy, clock, made, backups, data, memory, disturbed>>

(* A save without an open vault writes nothing and says nothing.              *)
Write(c) ==
  /\ At(c, "writing")
  /\ data' = IF open THEN [data EXCEPT ![calls[c].at] = "new"] ELSE data
  /\ IF calls[c].at = Parts
     THEN calls' = [calls EXCEPT ![c] = Idle] /\ told' = "restored"
     ELSE calls' = [calls EXCEPT ![c].at = @ + 1] /\ UNCHANGED told
  /\ UNCHANGED <<open, settings, busy, clock, made, backups, memory, disturbed>>

(* A write throws (no room left): what was written stays.                     *)
WriteFails(c) ==
  /\ At(c, "writing")
  /\ calls' = [calls EXCEPT ![c] = Idle] /\ told' = "failed"
  /\ UNCHANGED <<open, settings, busy, clock, made, backups, data, memory, disturbed>>

(* The managers save what they have in memory, which is the state from before *)
(* until the page is loaded again, 1.5 s after the restore.                   *)
ManagerSaves(k) ==
  /\ open /\ data[k] # memory
  /\ data' = [data EXCEPT ![k] = memory]
  /\ disturbed' = TRUE
  /\ UNCHANGED <<open, settings, busy, clock, calls, made, backups, memory, told>>

-----------------------------------------------------------------------------
(* A page that is loaded again while a backup or a restore is going on.       *)
Reload ==
  /\ calls' = [c \in Calls |-> Idle] /\ busy' = FALSE
  /\ memory' = IF told = "restored" THEN "new" ELSE memory
  /\ disturbed' = (disturbed \/ \E c \in Calls : calls[c].pc \in {"writing", "index", "clock", "delete"})
  /\ UNCHANGED <<open, settings, clock, made, backups, data, told>>

(* The vault is closed by a mistyped password or a logout, and opened again.  *)
VaultToggles ==
  /\ open' = ~open
  /\ disturbed' = (disturbed \/ \E c \in Calls : calls[c] # Idle)
  /\ UNCHANGED <<settings, busy, clock, calls, made, backups, content>>

(* applySchedule after a change of the settings.                              *)
Settings ==
  /\ enabled' \in BOOLEAN /\ custom' \in BOOLEAN /\ settings' # settings
  /\ UNCHANGED <<open, busy, clock, calls, made, backups, content, disturbed>>

Next ==
  \/ Reload \/ VaultToggles \/ Settings
  \/ \E k \in 1..Parts : ManagerSaves(k)
  \/ \E i \in Ids : DeleteLegacy(i)
  \/ \E c \in Calls :
       \/ Create(c) \/ Scheduled(c) \/ Trigger(c) \/ ClockSaved(c) \/ Fails(c)
       \/ Downloaded(c) \/ IndexRead(c) \/ IndexSaved(c) \/ DeleteSaved(c)
       \/ \E i \in Ids : Delete(c, i)
       \/ Restore(c) \/ Write(c) \/ WriteFails(c)
       \/ \E good \in BOOLEAN : Accepted(c, good)

Spec == Init /\ [][Next]_vars

-----------------------------------------------------------------------------
TypeOK ==
  /\ open \in BOOLEAN /\ enabled \in BOOLEAN /\ custom \in BOOLEAN /\ busy \in BOOLEAN
  /\ ToSet(index) \subseteq Ids /\ ToSet(legacy) \subseteq Ids
  /\ Len(index) <= MaxIndex /\ Len(legacy) <= MaxIndex
  /\ clock \in 0..MaxMade /\ made \in 0..MaxMade
  /\ \A c \in Calls :
       /\ calls[c].op \in {"none", "create", "scheduled", "event", "delete", "restore"}
       /\ calls[c].pc \in {"idle", "clock", "collected", "index", "delete", "opening", "writing"}
  /\ stamps \in [Ids -> 0..MaxMade] /\ ToSet(done) \subseteq Ids /\ deleted \subseteq Ids
  /\ data \in [1..Parts -> {"old", "new"}] /\ memory \in {"old", "new"}
  /\ told \in {"none", "restored", "refused", "failed"} /\ disturbed \in BOOLEAN

(* A backup that was reported as complete is listed, unless the user deleted  *)
(* it or the index was filled by later ones, however the operations of the    *)
(* timer, the events and the user follow each other (not when two of them     *)
(* read the index before either wrote it back, or the vault was closed).      *)
CompleteIsListed ==
  ~disturbed =>
    \A n \in 1..Len(done) :
      done[n] \in ToSet(index) \cup deleted \/ Len(done) - n >= MaxIndex

(* No two backups carry the same version, or one of them could not be told    *)
(* from the other by comparing their clocks.                                  *)
VersionsDiffer ==
  ~disturbed => \A i, j \in Ids : i # j /\ stamps[i] # 0 => stamps[i] # stamps[j]

(* However the events come, at most one backup at a time is made for them.    *)
OneForEvents ==
  \A c \in Calls : calls[c].op = "event" =>
    busy /\ \A d \in Calls \ {c} : calls[d].op # "event"

(* The guard of the events is held by a backup in progress and by nothing     *)
(* else: after its end, in success or failure, the next event makes one again.*)
GuardIsReleased == busy => \E c \in Calls : calls[c].op = "event"

(* A file that is refused, for its password or its checksum, has changed      *)
(* nothing; after a restore that was reported as done every item is the       *)
(* restored one (unless the vault was closed, a manager saved meanwhile, or an *)
(* earlier restore was cut off by a reload of the page).                      *)
RestoreIsHonest ==
  ~disturbed =>
    /\ told = "refused" => \A k \in 1..Parts : data[k] = "old"
    /\ told = "restored" => \A k \in 1..Parts : data[k] = "new"

(* What the user is told of his backups is so, however backups, deletions and*)
(* restores are started.                                                     *)
BackupsHonest ==
  /\ CompleteIsListed
  /\ VersionsDiffer
  /\ OneForEvents
  /\ GuardIsReleased
  /\ RestoreIsHonest
=============================================================================
