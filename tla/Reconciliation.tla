---------------------------- MODULE Reconciliation ----------------------------
(* What the server is told of a user's relations (a contact or a group, after *)
(* the handshake), and what a login makes of it: reconciliation_manager.js    *)
(* compares the server's list with the one in memory and offers to start      *)
(* afresh. registerRelationship is the only call that tells the server; no    *)
(* call takes one relation back.                                              *)
EXTENDS Naturals
CONSTANTS Peers
VARIABLES
  open,     \* a session of the page
  list,     \* state.contacts.contacts (or userGroups) in memory
  vault,    \* what the device has stored of it
  server,   \* what the server knows
  work,     \* handlers between two awaits: <<what comes next, peer>>
  gone,     \* removed by the user, or forgotten with startFresh
  lost,     \* lost with the browser's storage
  asked,    \* checkForDiscrepancy: "no", "asking" or "answered"
  answer,   \* what the server put in its answer
  read,     \* the array the check holds: the live one, or the one it was
  replaced, \* the list was replaced since the login
  dialog,   \* what the dialog names as missing, {} when it is not shown
  fresh     \* startFresh: "no", "sent" (to the server), "done" (there), "answered"

absent == <<gone, lost>>
vars == <<open, list, vault, server, work, absent, asked, answer, read,
          replaced, dialog, fresh>>
check == <<asked, answer, read, replaced>>
held == <<read, replaced>>
Live == [live |-> TRUE, copy |-> {}]

Init ==
  /\ open = FALSE /\ list = {} /\ vault = {} /\ server = {} /\ work = {}
  /\ gone = {} /\ lost = {} /\ asked = "no" /\ answer = {} /\ read = Live /\ replaced = FALSE /\ dialog = {}
  /\ fresh = "no"

(* The list the check compares with: an array that filter() has replaced      *)
(* stays as it was.                                                           *)
Held == IF read.live THEN list ELSE read.copy
Replaced ==
  /\ replaced' = TRUE
  /\ read' = IF read.live THEN [live |-> FALSE, copy |-> list] ELSE read

-----------------------------------------------------------------------------
(* Mutant: the check takes a copy of the list.                                *)
LoginCopies ==
  /\ ~open /\ open' = TRUE /\ list' = vault
  /\ asked' = "asking" /\ answer' = {} /\ read' = [live |-> FALSE, copy |-> vault]
  /\ replaced' = FALSE
  /\ UNCHANGED <<vault, server, work, absent, dialog, fresh>>

(* hermes:logged_in: the check holds the array itself and asks the server.    *)
Login ==
  /\ ~open /\ open' = TRUE /\ list' = vault
  /\ asked' = "asking" /\ answer' = {} /\ read' = Live
  /\ replaced' = FALSE
  /\ UNCHANGED <<vault, server, work, absent, dialog, fresh>>

ServerReads ==
  /\ asked = "asking" /\ asked' = "answered" /\ answer' = server
  /\ UNCHANGED <<open, list, vault, server, work, absent, held, dialog, fresh>>

(* detectDiscrepancy and the dialog.                                          *)
Compared ==
  /\ asked = "answered" /\ asked' = "no"
  /\ dialog' = IF answer \subseteq Held THEN dialog ELSE answer \ Held
  /\ UNCHANGED <<open, list, vault, server, work, absent, answer, held, fresh>>

(* No token, a refusal, or no network: as if nothing were missing.            *)
NoAnswer ==
  /\ asked # "no" /\ asked' = "no"
  /\ UNCHANGED <<open, list, vault, server, work, absent, answer, held, dialog, fresh>>

-----------------------------------------------------------------------------
(* Mutant: the relation is registered without waiting for the save.           *)
AcceptWithoutWaiting(p) ==
  /\ open /\ p \notin list
  /\ list' = list \cup {p}
  /\ work' = work \cup {<<"save", p>>, <<"tell", p>>}
  /\ UNCHANGED <<open, vault, server, absent, check, dialog, fresh>>

(* acceptRequest, by an answer of the peer or by the user; createGroup.       *)
Accept(p) ==
  /\ open /\ p \notin list
  /\ list' = list \cup {p}
  /\ work' = work \cup {<<"save", p>>}
  /\ UNCHANGED <<open, vault, server, absent, check, dialog, fresh>>

Stored == vault' = list /\ gone' = gone \ list /\ lost' = lost \ list

Saved(p) ==
  /\ <<"save", p>> \in work
  /\ Stored
  /\ work' = (work \ {<<"save", p>>}) \cup {<<"tell", p>>}
  /\ UNCHANGED <<open, list, server, check, dialog, fresh>>

(* registerRelationship: the request arrives, or never does.                  *)
Told(p, arrives) ==
  /\ <<"tell", p>> \in work
  /\ work' = work \ {<<"tell", p>>}
  /\ server' = IF arrives THEN server \cup {p} ELSE server
  /\ UNCHANGED <<open, list, vault, absent, check, dialog, fresh>>

(* removeContact, rejectRequest, deleteGroup: the list is replaced, the       *)
(* server is not told.                                                        *)
Remove(p) ==
  /\ open /\ p \in list
  /\ list' = list \ {p} /\ Replaced
  /\ gone' = gone \cup {p}
  /\ work' = work \cup {<<"drop", p>>}
  /\ UNCHANGED <<lost, open, vault, server, asked, answer, dialog, fresh>>

RemovalSaved(p) ==
  /\ <<"drop", p>> \in work /\ work' = work \ {<<"drop", p>>}
  /\ Stored
  /\ UNCHANGED <<open, list, server, check, dialog, fresh>>

-----------------------------------------------------------------------------
(* selectOption closes the dialog. Asking the contacts for new invitations    *)
(* (requestResync) and the file of a backup, which restoreFromBackupFile      *)
(* hands over as text and so never opens, change nothing here.                *)
ChooseOther ==
  /\ dialog # {} /\ dialog' = {}
  /\ UNCHANGED <<open, list, vault, server, work, absent, check, fresh>>

(* startFresh, confirmed: the request leaves if there is a token.             *)
ChooseFresh(token) ==
  /\ dialog # {} /\ dialog' = {} /\ fresh = "no"
  /\ fresh' = IF token THEN "sent" ELSE "answered"
  /\ UNCHANGED <<open, list, vault, server, work, absent, check>>

Purged ==
  /\ fresh = "sent" /\ fresh' = "done" /\ server' = {}
  /\ UNCHANGED <<open, list, vault, work, absent, check, dialog>>

(* The answer, be it a refusal: its status is not looked at.                  *)
PurgeAnswered ==
  /\ fresh \in {"sent", "done"} /\ fresh' = "answered"
  /\ UNCHANGED <<open, list, vault, server, work, absent, check, dialog>>

(* fetch rejects: the device keeps what it has.                               *)
PurgeLost ==
  /\ fresh \in {"sent", "done"} /\ fresh' = "no"
  /\ UNCHANGED <<open, list, vault, server, work, absent, check, dialog>>

(* Then the device forgets too.                                               *)
Forget ==
  /\ fresh = "answered" /\ fresh' = "no"
  /\ list' = {} /\ Replaced /\ vault' = {}
  /\ gone' = gone \cup list \cup vault
  /\ UNCHANGED <<lost, open, server, work, asked, answer, dialog>>

(* A reload or the end of the session. A request that has left may arrive.    *)
Reload ==
  /\ open /\ open' = FALSE /\ list' = {}
  /\ work' = {w \in work : w[1] = "tell"}
  /\ asked' = "no" /\ answer' = {} /\ read' = Live /\ replaced' = FALSE /\ dialog' = {} /\ fresh' = "no"
  /\ UNCHANGED <<vault, server, absent>>

(* The browser drops its storage.                                             *)
StorageLost ==
  /\ ~open /\ vault # {} /\ vault' = {} /\ lost' = lost \cup vault
  /\ UNCHANGED <<open, list, server, work, gone, check, dialog, fresh>>

Next ==
  \/ Login \/ ServerReads \/ Compared \/ NoAnswer
  \/ \E p \in Peers : Accept(p) \/ Saved(p) \/ Remove(p) \/ RemovalSaved(p)
  \/ \E p \in Peers, b \in BOOLEAN : Told(p, b)
  \/ ChooseOther \/ Purged \/ PurgeAnswered \/ PurgeLost \/ Forget
  \/ \E b \in BOOLEAN : ChooseFresh(b)
  \/ Reload \/ StorageLost

Spec == Init /\ [][Next]_vars

-----------------------------------------------------------------------------
TypeOK ==
  /\ open \in BOOLEAN /\ list \subseteq Peers /\ vault \subseteq Peers
  /\ server \subseteq Peers /\ gone \subseteq Peers /\ lost \subseteq Peers
  /\ work \subseteq ({"save", "tell", "drop"} \X Peers)
  /\ asked \in {"no", "asking", "answered"} /\ answer \subseteq Peers
  /\ read \in [live : BOOLEAN, copy : SUBSET Peers] /\ replaced \in BOOLEAN
  /\ dialog \subseteq Peers
  /\ fresh \in {"no", "sent", "done", "answered"}

(* What the server knows of, the device has stored, unless the user removed   *)
(* it or the storage was lost: a crash between the two leaves nothing behind  *)
(* that the next login would call lost.                                       *)
KnownIsStored == server \subseteq vault \cup gone \cup lost

(* What the dialog names as missing is missing, also when handshakes were     *)
(* completed while the server answered (unless the list was replaced under    *)
(* the check by a removal).                                                   *)
AlarmIsTrue ==
  [][dialog' # dialog /\ dialog' # {} /\ ~replaced => dialog' \cap list = {}]_vars

-----------------------------------------------------------------------------
(* What the repository says and the code does not keep: TLC refutes it.      *)

(* The dialog reports lost data ("Detectamos que perdiste tus datos           *)
(* locales"): what it names was not removed by the user. Not so, since the    *)
(* server is never told of a removal.                                         *)
ReportedIsLost == [][dialog' # dialog => dialog' \subseteq lost]_vars
=============================================================================
