---------------------------- MODULE ModalManager ----------------------------
(* The dialogs of the client: one element, hermes-modal-root, shows every     *)
(* question and settles its promise; named modals are opened beside it. One   *)
(* modal is active. Whoever asks (a button, the synchronisation, a login)     *)
(* does not know what the others have open.                                   *)
EXTENDS Naturals
CONSTANTS Dialogs, Named, Root, None
VARIABLES
  kind,       \* dialog -> "unused", "ask", "custom", "note" or "phrase"
  active,     \* activeModal: Root, a named modal or None
  content,    \* the dialog whose buttons are in Root, or None
  resolve,    \* the dialog currentResolve belongs to, or None
  waiting,    \* the dialogs whose promise is pending
  given,      \* those that were answered, and not just dismissed
  second,     \* the phrase is at its second step
  block,      \* blockDismiss
  seen,       \* the named modals that are not hidden
  hiding,     \* those with a timer that hides them
  overlapped  \* a modal was opened over a dialog

vars == <<kind, active, content, resolve, waiting, given, second, block, seen, hiding,
          overlapped>>
promises == <<waiting, given>>
named == <<seen, hiding>>
Kinds == {"ask", "custom", "note", "phrase"}

Init ==
  /\ kind = [d \in Dialogs |-> "unused"]
  /\ active = None /\ content = None /\ resolve = None
  /\ waiting = {} /\ given = {} /\ second = FALSE /\ block = FALSE
  /\ seen = {} /\ hiding = {} /\ overlapped = FALSE

-----------------------------------------------------------------------------
(* closeActive of the modal that was active: Root is emptied, a named modal   *)
(* is hidden by a timer.                                                      *)
Emptied == content' = IF active = Root THEN None ELSE content
TimerFor(m) == hiding' = IF m \in Named THEN hiding \cup {m} ELSE hiding

(* A dialog writes its content into Root and opens it. open() compares the id *)
(* of the active modal with an element: whatever is active is closed first,   *)
(* and if that was Root, so is the content just written.                      *)
Ask(d, k) ==
  /\ kind[d] = "unused" /\ kind' = [kind EXCEPT ![d] = k]
  /\ content' = IF active = Root THEN None ELSE d
  /\ TimerFor(active) /\ active' = Root
  /\ IF k = "note" THEN UNCHANGED <<resolve, waiting>>
                   ELSE resolve' = d /\ waiting' = waiting \cup {d}
  /\ second' = FALSE /\ block' = (block \/ k = "phrase")
  /\ overlapped' = (overlapped \/ active = Root)
  /\ UNCHANGED <<given, seen>>

(* open() of a named modal, by its name or by its element.                    *)
Open(m, byElement) ==
  /\ active' = m /\ seen' = seen \cup {m}
  /\ Emptied
  /\ IF active = m /\ ~byElement THEN UNCHANGED hiding ELSE TimerFor(active)
  /\ overlapped' = (overlapped \/ active = Root)
  /\ UNCHANGED <<kind, resolve, promises, second, block>>

(* The timer of closeActive, whatever has happened to the modal since.        *)
Hidden(m) ==
  /\ m \in hiding
  /\ hiding' = hiding \ {m} /\ seen' = seen \ {m}
  /\ UNCHANGED <<kind, active, content, resolve, promises, second, block, overlapped>>

(* Other code hides a modal of its own and tells nobody.                      *)
HideDirectly(m) ==
  /\ m \in seen /\ seen' = seen \ {m}
  /\ UNCHANGED <<kind, active, content, resolve, promises, second, block, hiding, overlapped>>

(* closeModal: the active modal is closed, one promise is settled.            *)
CloseModal(d, answered) ==
  /\ active' = None /\ Emptied /\ TimerFor(active)
  /\ waiting' = waiting \ {d}
  /\ given' = IF answered /\ d # None THEN given \cup {d} ELSE given
  /\ resolve' = None

-----------------------------------------------------------------------------
(* A button of a question.                                                    *)
Button(d, answered) ==
  /\ content = d /\ kind[d] = "ask"
  /\ CloseModal(d, answered)
  /\ UNCHANGED <<kind, second, block, seen, overlapped>>

(* close(), which the content of a custom dialog calls: currentResolve.       *)
Close ==
  /\ content # None /\ kind[content] = "custom"
  /\ CloseModal(resolve, FALSE)
  /\ UNCHANGED <<kind, second, block, seen, overlapped>>

(* The button of a notice (the safety number): it has no promise.             *)
CloseNote ==
  /\ content # None /\ kind[content] = "note"
  /\ active' = None /\ Emptied /\ TimerFor(active)
  /\ UNCHANGED <<kind, resolve, promises, second, block, seen, overlapped>>

(* Mutant: the promise is left as it is.                                      *)
DismissForgets ==
  /\ active # None /\ ~block
  /\ active' = None /\ Emptied /\ TimerFor(active)
  /\ UNCHANGED <<kind, resolve, promises, second, block, seen, overlapped>>

(* Escape, or a click beside the modal.                                       *)
Dismiss ==
  /\ active # None /\ ~block
  /\ IF active = Root /\ resolve # None
     THEN CloseModal(resolve, FALSE)
     ELSE /\ active' = None /\ Emptied /\ TimerFor(active)
          /\ UNCHANGED <<resolve, promises>>
  /\ UNCHANGED <<kind, second, block, seen, overlapped>>

(* mandatoryRecoveryPhrase: the two steps, back and forth.                    *)
Turn ==
  /\ content # None /\ kind[content] = "phrase"
  /\ second' = ~second
  /\ UNCHANGED <<kind, active, content, resolve, promises, block, named, overlapped>>

(* Both words are right (wrong ones only show an error).                      *)
Confirm ==
  /\ content # None /\ kind[content] = "phrase" /\ second
  /\ CloseModal(content, TRUE)
  /\ block' = FALSE
  /\ UNCHANGED <<kind, second, seen, overlapped>>

Next ==
  \/ \E d \in Dialogs, k \in Kinds : Ask(d, k)
  \/ \E d \in Dialogs, b \in BOOLEAN : Button(d, b)
  \/ \E m \in Named, b \in BOOLEAN : Open(m, b)
  \/ \E m \in Named : Hidden(m) \/ HideDirectly(m)
  \/ Close \/ CloseNote \/ Dismiss \/ Turn \/ Confirm

Spec == Init /\ [][Next]_vars

-----------------------------------------------------------------------------
MaybeDialog == Dialogs \cup {None}

TypeOK ==
  /\ kind \in [Dialogs -> Kinds \cup {"unused"}]
  /\ active \in Named \cup {Root, None}
  /\ content \in MaybeDialog /\ resolve \in MaybeDialog
  /\ waiting \subseteq Dialogs /\ given \subseteq Dialogs
  /\ second \in BOOLEAN /\ block \in BOOLEAN /\ overlapped \in BOOLEAN
  /\ seen \subseteq Named /\ hiding \subseteq Named

(* Who asks gets an answer: as long as nothing was opened over a dialog, the  *)
(* one whose promise is pending is the one on the screen.                     *)
WaitingIsShown == ~overlapped => \A d \in waiting : content = d /\ active = Root

(* The recovery phrase is not confirmed, nor given up, but by its words,      *)
(* whatever is opened or dismissed over it.                                   *)
PhraseNeedsWords ==
  \A d \in Dialogs : kind[d] = "phrase" => d \in waiting \cup given

(* One modal at a time: what else is on the screen is about to be hidden.     *)
NoneLeftOpen == seen \ hiding \subseteq {active}

(* Dialogs that interrupt one another neither lose who asks nor let a phrase *)
(* go unconfirmed.                                                           *)
DialogsInOrder == WaitingIsShown /\ PhraseNeedsWords /\ NoneLeftOpen

-----------------------------------------------------------------------------
(* What the repository says and the code does not keep: TLC refutes it.      *)

(* "true mientras un modal critico exige confirmacion explicita": no dialog   *)
(* is held open but the phrase. Not so when something is opened over it.      *)
BlockedByPhrase == block => content # None /\ kind[content] = "phrase"
=============================================================================
