----------------------------- MODULE StateVersions -----------------------------
(* Versions of one account's state on several devices: the vector clock, the  *)
(* comparison and the merge of state_version_control.js, what                 *)
(* conflict_resolution.js decides and restore applies                         *)
(* (recovery_system_complete.js), and the second implementation of the same   *)
(* ideas in backup_manager.js (_compareClocks, _mergeClocks, _mergeMapsLWW,   *)
(* resolveConflict), which is checked as a function of the same states.       *)
(* A state is its list of contacts and its images, which carry a timestamp.   *)
EXTENDS Naturals, Sequences, FiniteSets, SequencesExt
CONSTANTS
  Devices, Items,
  MaxClock,     \* bound: backups a device counts
  MaxEdits,     \* bound: changes made by users, on all devices
  None
VARIABLES
  list,         \* hermes_contacts of each device
  array,        \* it is an array, and not an object with indices as keys
  img,          \* the images: the timestamp of each, 0 when it is not there
  clock,        \* versionControl.vectorClock of each page; absent entries are 0
  cloud,        \* the last backup the server has, or None
  now           \* edits made, the time of the last one

vars == <<list, array, img, clock, cloud, now>>

Clocks == [Devices -> 0..MaxClock]
Maps == [Items -> 0..MaxEdits]
Zero == [d \in Devices |-> 0]

Init ==
  /\ list = [d \in Devices |-> <<>>] /\ array = [d \in Devices |-> TRUE]
  /\ img = [d \in Devices |-> [i \in Items |-> 0]]
  /\ clock = [d \in Devices |-> Zero]
  /\ cloud = None /\ now = 0

-----------------------------------------------------------------------------
(* StateVersionControl.compare: "before" when no entry of a is smaller.       *)
Compare(a, b) ==
  LET aBefore == \A d \in Devices : ~(a[d] < b[d])
      bBefore == \A d \in Devices : ~(b[d] < a[d])
  IN CASE aBefore /\ bBefore  -> "equal"
       [] aBefore /\ ~bBefore -> "before"
       [] ~aBefore /\ bBefore -> "after"
       [] OTHER               -> "concurrent"

Larger(x, y) == IF x >= y THEN x ELSE y

(* Mutant: the clock of the other state is taken as it is.                    *)
MergeClocksRemote(a, b) == b

(* mergeClocks and _mergeClocks                                               *)
MergeClocks(a, b) == [d \in Devices |-> Larger(a[d], b[d])]

(* mergeContacts on arrays: the keys are the indices, and the entries, being  *)
(* strings, have no timestamp to compare; the remote state adds what is       *)
(* beyond the local length. The result is an object.                          *)
MergeContacts(local, remote) == local \o SubSeq(remote, Len(local) + 1, Len(remote))

(* ConflictResolver.resolve and applyState.                                   *)
Apply(d, l, a, c) ==
  /\ list' = [list EXCEPT ![d] = l]
  /\ array' = [array EXCEPT ![d] = a]
  /\ clock' = [clock EXCEPT ![d] = c]

Restore(d) ==
  /\ cloud # None
  /\ CASE Compare(clock[d], cloud.clock) \in {"equal", "after"} ->
            UNCHANGED <<list, array, clock>>
       [] Compare(clock[d], cloud.clock) = "before" ->
            Apply(d, cloud.list, cloud.array, cloud.clock)
       [] OTHER ->
            Apply(d, MergeContacts(list[d], cloud.list), FALSE,
                  MergeClocks(clock[d], cloud.clock))
  /\ UNCHANGED <<img, cloud, now>>

-----------------------------------------------------------------------------
(* autoBackup: the clock counts whether or not the server takes the backup.   *)
AutoBackup(d, taken) ==
  /\ clock[d][d] < MaxClock
  /\ clock' = [clock EXCEPT ![d][d] = @ + 1]
  /\ cloud' = IF taken THEN [list |-> list[d], array |-> array[d], clock |-> clock'[d]] ELSE cloud
  /\ UNCHANGED <<list, array, img, now>>

(* The clock is not stored: a page that is loaded again starts from nothing.  *)
Reload(d) ==
  /\ clock' = [clock EXCEPT ![d] = Zero]
  /\ UNCHANGED <<list, array, img, cloud, now>>

(* What the user does: no edit moves the clock. Pushing to what is no array   *)
(* any more throws.                                                           *)
AddContact(d, i) ==
  /\ now < MaxEdits /\ array[d] /\ i \notin ToSet(list[d])
  /\ list' = [list EXCEPT ![d] = Append(@, i)]
  /\ now' = now + 1
  /\ UNCHANGED <<array, img, clock, cloud>>

AddImage(d, i) ==
  /\ now < MaxEdits
  /\ now' = now + 1
  /\ img' = [img EXCEPT ![d][i] = now']
  /\ UNCHANGED <<list, array, clock, cloud>>

Next ==
  \E d \in Devices :
    \/ Restore(d) \/ Reload(d)
    \/ \E taken \in BOOLEAN : AutoBackup(d, taken)
    \/ \E i \in Items : AddContact(d, i) \/ AddImage(d, i)

Spec == Init /\ [][Next]_vars

-----------------------------------------------------------------------------
(* BackupManager._compareClocks: who leads in some entry.                     *)
CompareClocks(a, b) ==
  LET aLeads == \E d \in Devices : a[d] > b[d]
      bLeads == \E d \in Devices : b[d] > a[d]
  IN CASE aLeads /\ bLeads  -> "concurrent"
       [] aLeads /\ ~bLeads -> "after"
       [] ~aLeads /\ bLeads -> "before"
       [] OTHER             -> "equal"

(* _mergeMapsLWW on maps whose items have a timestamp.                        *)
MergeMaps(local, remote) ==
  [i \in Items |-> IF local[i] = 0 \/ remote[i] > local[i] THEN remote[i] ELSE local[i]]

(* _mergeMapsLWW on arrays: the union, the local items first, each item that  *)
(* was not seen before.                                                       *)
Seen(s, i) == IF i \in ToSet(s) THEN s ELSE Append(s, i)
MergeArrays(local, remote) ==
  LET all == local \o remote
      merged[n \in 0..Len(all)] == IF n = 0 THEN <<>> ELSE Seen(merged[n - 1], all[n])
  IN merged[Len(all)]

(* resolveConflict and _mergeStates                                           *)
ResolveConflict(local, remote) ==
  CASE CompareClocks(local.clock, remote.clock) \in {"equal", "after"} -> local
    [] CompareClocks(local.clock, remote.clock) = "before"             -> remote
    [] OTHER -> [list  |-> MergeArrays(local.list, remote.list),
                 img   |-> MergeMaps(local.img, remote.img),
                 clock |-> MergeClocks(local.clock, remote.clock)]

Snapshot(d) == [list |-> list[d], img |-> img[d], clock |-> clock[d]]

-----------------------------------------------------------------------------
TypeOK ==
  /\ \A d \in Devices : ToSet(list[d]) \subseteq Items
  /\ array \in [Devices -> BOOLEAN]
  /\ img \in [Devices -> Maps] /\ clock \in [Devices -> Clocks]
  /\ cloud # None => cloud.clock \in Clocks /\ ToSet(cloud.list) \subseteq Items
  /\ now \in 0..MaxEdits

(* a happened before b or is b, entry by entry: the reference the comparison  *)
(* is held against.                                                           *)
LessEq(a, b) == \A d \in Devices : a[d] <= b[d]

(* _compareClocks answers as its comment says for the clocks of any two       *)
(* devices, whatever backups, restores and reloads made them.                 *)
ComparedRight ==
  \A d, e \in Devices :
    CompareClocks(clock[d], clock[e]) =
      CASE clock[d] = clock[e]                                       -> "equal"
        [] LessEq(clock[d], clock[e]) /\ clock[d] # clock[e]         -> "before"
        [] LessEq(clock[e], clock[d]) /\ clock[d] # clock[e]         -> "after"
        [] OTHER                                                     -> "concurrent"

(* resolveConflict never goes back: what it returns knows all that both       *)
(* states knew, and no version that covers both is older.                     *)
ResolvedCoversBoth ==
  \A d, e \in Devices :
    LET c == ResolveConflict(Snapshot(d), Snapshot(e)).clock IN
    /\ LessEq(clock[d], c) /\ LessEq(clock[e], c)
    /\ \A x \in Devices : c[x] \in {clock[d][x], clock[e][x]}

(* Of two concurrent states resolveConflict keeps every contact of either and *)
(* the newest version of every image, whichever of the two is the local one.  *)
MergedIsNewest ==
  \A d, e \in Devices :
    CompareClocks(clock[d], clock[e]) = "concurrent" =>
      LET r == ResolveConflict(Snapshot(d), Snapshot(e)) IN
      /\ ToSet(r.list) = ToSet(list[d]) \cup ToSet(list[e])
      /\ \A i \in Items : \A x \in {d, e} : r.img[i] >= img[x][i]
      /\ \A i \in Items : r.img[i] \in {img[d][i], img[e][i]}

(* A restore on a device whose state is concurrent with the backup takes no   *)
(* contact of that device away or out of its place (resolution "kept").       *)
ConcurrentKeepsLocal ==
  [][\A d \in Devices :
       cloud # None /\ Compare(clock[d], cloud.clock) = "concurrent"
         => IsPrefix(list[d], list'[d])]_vars

(* What resolve says of its cases ("Local es mas antiguo -> usar remoto"):    *)
(* a restore of an older backup takes nothing from a newer local state.       *)
RestoreKeepsNewer ==
  [][\A d \in Devices :
       cloud # None /\ LessEq(cloud.clock, clock[d]) /\ cloud.clock # clock[d]
         => ToSet(list[d]) \subseteq ToSet(list'[d])]_vars

(* Comparing and merging follow the partial order of the clocks.             *)
VersionsAgree == ComparedRight /\ ResolvedCoversBoth /\ MergedIsNewest
=============================================================================
