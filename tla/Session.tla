------------------------------- MODULE Session -------------------------------
(* doLoginTransition in auth_ui.js: the contacts are read from the vault,     *)
(* freed of the user's own name, the chat is shown, and only then is the rest *)
(* set up. A read that fails inside storage_manager.js answers null, which    *)
(* the contact manager takes for an empty list.                               *)
EXTENDS TLC
CONSTANTS People, Self
VARIABLES
  view,     \* "auth" or "chat"
  phase,    \* "out", "loading", "loaded", "filtered", "shown" or "in"
  cached,   \* sessionStorage holds the password
  disk,     \* hermes_contacts (names) and hermes_contact_data (accepted)
  list,     \* the same in memory
  writing,  \* a save has written the names and not yet the data
  hiccup    \* a read of this login answered null for what was there

vars == <<view, phase, cached, disk, list, writing, hiccup>>
Lists == [names : SUBSET People, data : SUBSET People]
Empty == [names |-> {}, data |-> {}]

TypeOK ==
  /\ view \in {"auth", "chat"}
  /\ phase \in {"out", "loading", "loaded", "filtered", "shown", "in"}
  /\ disk \in Lists /\ list \in Lists
  /\ {cached, writing, hiccup} \subseteq BOOLEAN

(* An older version may have listed the user themself.                        *)
Init ==
  /\ view = "auth" /\ phase = "out" /\ cached = FALSE
  /\ disk \in {l \in Lists : l.names = l.data /\ l.names \subseteq {Self}}
  /\ list = Empty /\ writing = FALSE /\ hiccup = FALSE

(* load() lists whoever the data says is accepted.                            *)
Joined(l) == [l EXCEPT !.names = @ \cup l.data]
Without(l, p) == [names |-> l.names \ {p}, data |-> l.data \ {p}]

(* save() writes the names, then the data as they are by then.                *)
SaveNames == disk' = [disk EXCEPT !.names = list'.names] /\ writing' = TRUE
WriteData ==
  /\ writing /\ writing' = FALSE
  /\ disk' = [disk EXCEPT !.data = list.data]
  /\ UNCHANGED <<view, phase, cached, list, hiccup>>

-----------------------------------------------------------------------------
(* The button, a registration, a restore, or a reload with the session cached *)
(* (setUserId and unlock: VaultStorage).                                      *)
Login ==
  /\ phase = "out" /\ phase' = "loading" /\ cached' = TRUE
  /\ UNCHANGED <<view, disk, list, writing, hiccup>>

Load ==
  /\ phase = "loading" /\ phase' = "loaded"
  /\ \E names \in {disk.names, {}}, data \in {disk.data, {}} :
       list' = Joined([names |-> names, data |-> data])
  /\ hiccup' = (list' # Joined(disk))
  /\ UNCHANGED <<view, cached, disk, writing>>

(* Mutant: the user is taken off the list in memory only.                     *)
FilterUnsaved ==
  /\ phase = "loaded" /\ phase' = "filtered"
  /\ list' = Without(list, Self)
  /\ UNCHANGED <<view, cached, disk, writing, hiccup>>

(* The user themself is taken off; only then is anything saved.               *)
Filter ==
  /\ phase = "loaded" /\ phase' = "filtered"
  /\ list' = Without(list, Self)
  /\ IF list' # list THEN SaveNames ELSE UNCHANGED <<disk, writing>>
  /\ UNCHANGED <<view, cached, hiccup>>

Shown ==
  /\ phase = "filtered" /\ ~writing /\ phase' = "shown" /\ view' = "chat"
  /\ UNCHANGED <<cached, disk, list, writing, hiccup>>

(* An error inside the try, late ones included: back to the accounts.         *)
Aborted ==
  /\ phase \in {"loading", "loaded", "filtered", "shown"} /\ ~writing
  /\ phase' = "out" /\ view' = "auth"
  /\ UNCHANGED <<cached, disk, list, writing, hiccup>>

(* import('./screenshot_detector.js') stands after the try: the caller shows  *)
(* a toast, or, when it was a reload, forgets the session.                    *)
ImportFails ==
  /\ phase = "shown" /\ phase' = "out" /\ cached' \in BOOLEAN
  /\ UNCHANGED <<view, disk, list, writing, hiccup>>

(* The view once more, SyncManager, the listeners, hermes:logged_in.          *)
Enter ==
  /\ phase = "shown" /\ phase' = "in" /\ view' = "chat"
  /\ UNCHANGED <<cached, disk, list, writing, hiccup>>

-----------------------------------------------------------------------------
Accept(p) ==
  /\ phase = "in" /\ p \notin list.data
  /\ list' = [names |-> list.names \cup {p}, data |-> list.data \cup {p}]
  /\ SaveNames /\ UNCHANGED <<view, phase, cached, hiccup>>

Remove(p) ==
  /\ phase = "in" /\ p \in list.names
  /\ list' = Without(list, p)
  /\ SaveNames /\ UNCHANGED <<view, phase, cached, hiccup>>

(* The vault is locked first: a write that was still to come is dropped.      *)
Logout ==
  /\ phase = "in" /\ phase' = "out" /\ view' = "auth" /\ cached' = FALSE
  /\ list' = Empty /\ writing' = FALSE /\ hiccup' = FALSE
  /\ UNCHANGED disk

(* tryRestoreSession logs in again when the session is cached.                *)
Reload ==
  /\ phase # "out" \/ cached
  /\ phase' = IF cached THEN "loading" ELSE "out"
  /\ view' = "auth" /\ list' = Empty /\ writing' = FALSE /\ hiccup' = FALSE
  /\ UNCHANGED <<cached, disk>>

Next ==
  \/ WriteData \/ Login \/ Load \/ Filter \/ Shown \/ Aborted \/ ImportFails
  \/ Enter \/ Logout \/ Reload
  \/ \E p \in People \ {Self} : Accept(p) \/ Remove(p)

Spec == Init /\ [][Next]_vars

-----------------------------------------------------------------------------
(* A login writes nothing to the lists of a user who is not on them, whatever *)
(* the reads answered: the code says that saving at every login is what lost  *)
(* people their contacts.                                                     *)
LoginWritesNothing ==
  [][phase # "in" /\ Self \notin disk.names \cup disk.data => disk' = disk]_vars

(* In a session whose reads succeeded, the contacts in memory are those that  *)
(* the next login will read, but for a save that is still under way.          *)
StoredAsShown ==
  phase = "in" /\ ~hiccup /\ ~writing
    => list = Joined(disk) /\ Self \notin list.names

-----------------------------------------------------------------------------
(* What the repository says and the code does not keep: TLC refutes it.      *)

(* After a login that failed, the user is back at the accounts ("hay que      *)
(* revertirla explícitamente, si no el usuario queda viendo el chat vacío").  *)
(* Not so when the import fails: it stands outside the try.                   *)
BackAtLogin == phase = "out" => view = "auth"
=============================================================================
