------------------------------- MODULE MCChat --------------------------------
(* Contacts and chats, side by side: the contacts compared with those the    *)
(* server knows, the handshake of two contacts, the keys of a group, what is *)
(* composed and sent, view-once messages, the panel with the chat, its       *)
(* dialogs, and the settings of privacy. A behaviour chooses one of them and *)
(* only that one runs. The run has two users (four in the group); two        *)
(* messages; two contacts, one group and two clicks at a time; three dialogs.*)
EXTENDS Naturals, FiniteSets, TLC

CONSTANTS
  People, Things, None, Null,
  Groups, Rooms, Texts, ChatOf,   \* the groups, the chats; texts, and where a message is
  Parties,                        \* the two who become contacts
  Members, Creator,               \* of the group whose keys are followed
  Dialogs, Named, Root,           \* questions, named modals, hermes-modal-root
  MaxKeys, MaxFlight, MaxGroupKeys

(* null and "@null" are no user, chat or modal; a contact is no group; the   *)
(* root is none of the named modals. A message is in a chat.                 *)
ASSUME NoneAssumption == None \notin People \cup Groups \cup Rooms \cup Things \cup Dialogs \cup Named \cup {Root}
ASSUME NamesAssumption ==
  /\ Null \notin People \cup Groups \cup {None}
  /\ People \cap Groups = {} /\ Root \notin Named
ASSUME PartiesAssumption == (\E p, q \in Parties : p # q /\ Parties = {p, q}) /\ None \notin 1..MaxKeys
ASSUME MembersAssumption == Creator \in Members /\ None \notin 1..MaxGroupKeys
ASSUME LimitsAssumption == MaxKeys \in Nat /\ MaxFlight \in Nat /\ MaxGroupKeys \in Nat
ASSUME ChatOfAssumption == ChatOf \in [Things \cup Texts -> Rooms]

VARIABLES
  part,   \* the part that runs
  open, list, listsVault, server, work, gone, lost, asked, answer, read,
  replaced, dialog, fresh,
  handsRec, handsListed, key, blocked, sess, handsNet, pc, offer, handsIssued,
  unread, handsDisturbed,
  groups, out, groupNet, groupIssued, circle, known, groupDisturbed,
  composeActive, composeShown, composeHistory, disk, memory, once, composeRec,
  job, composeDisturbed,
  onceUser, onceActive, store, locked, onceTimers, modal, detector, of,
  onceSeen, strangers, moved, left,
  contact, group, clicks, header, messages, selected, typing, panelTimers,
  indicator, panelListed, panelHistory, stray, flow,
  kind, dialogsActive, content, resolve, waiting, given, second, block,
  dialogsSeen, hiding, overlapped,
  privacyUser, privacyShown, settings, disabled, privacyVault, pending,
  choice, socket, online, late, crossed

Lists == INSTANCE Reconciliation WITH
  Peers <- People, vault <- listsVault
Hands == INSTANCE ContactHandshake WITH
  rec <- handsRec,
  listed <- handsListed, net <- handsNet, issued <- handsIssued,
  disturbed <- handsDisturbed
Group == INSTANCE GroupKeys WITH
  Users <- Members, MaxKeys <- MaxGroupKeys, net <- groupNet, issued <- groupIssued,
  disturbed <- groupDisturbed
Compose == INSTANCE Composer WITH
  Ids <- Things, Chats <- Rooms,
  active <- composeActive, shown <- composeShown, history <- composeHistory,
  rec <- composeRec, disturbed <- composeDisturbed
Once == INSTANCE ViewOnce WITH
  Images <- Things, Chats <- Rooms, Users <- People, user <- onceUser, active <- onceActive,
  timers <- onceTimers, seen <- onceSeen
Panel == INSTANCE ChatPanel WITH
  Contacts <- People, timers <- panelTimers,
  listed <- panelListed, history <- panelHistory
Dialog == INSTANCE ModalManager WITH
  active <- dialogsActive, seen <- dialogsSeen
Privacy == INSTANCE PrivacySettings WITH
  Users <- People, user <- privacyUser, shown <- privacyShown,
  vault <- privacyVault

ASSUME ChoicesAssumption == None \notin Privacy!Choices \cup Privacy!Settings

listsVars == <<open, list, listsVault, server, work, gone, lost, asked,
    answer, read, replaced, dialog, fresh>>
handsVars == <<handsRec, handsListed, key, blocked, sess, handsNet, pc, offer,
    handsIssued, unread, handsDisturbed>>
groupVars == <<groups, out, groupNet, groupIssued, circle, known,
    groupDisturbed>>
composeVars == <<composeActive, composeShown, composeHistory, disk, memory,
    once, composeRec, job, composeDisturbed>>
onceVars == <<onceUser, onceActive, store, locked, onceTimers, modal,
    detector, of, onceSeen, strangers, moved, left>>
panelVars == <<contact, group, clicks, header, messages, selected, typing,
    panelTimers, indicator, panelListed, panelHistory, stray, flow>>
dialogsVars == <<kind, dialogsActive, content, resolve, waiting, given,
    second, block, dialogsSeen, hiding, overlapped>>
privacyVars == <<privacyUser, privacyShown, settings, disabled, privacyVault,
    pending, choice, socket, online, late, crossed>>
vars == <<part, listsVars, handsVars, groupVars, composeVars, onceVars,
    panelVars, dialogsVars, privacyVars>>

Init ==
  /\ part \in {"lists", "hands", "group", "compose", "once", "panel",
              "dialogs", "privacy"}
  /\ Lists!Init /\ Hands!Init /\ Group!Init /\ Compose!Init /\ Once!Init
  /\ Panel!Init /\ Dialog!Init /\ Privacy!Init

Next ==
  /\ UNCHANGED part
  /\ \/ /\ part = "lists" /\ Lists!Next
        /\ UNCHANGED <<handsVars, groupVars, composeVars, onceVars, panelVars,
                       dialogsVars, privacyVars>>
     \/ /\ part = "hands" /\ Hands!Next
        /\ UNCHANGED <<listsVars, groupVars, composeVars, onceVars, panelVars,
                       dialogsVars, privacyVars>>
     \/ /\ part = "group" /\ Group!Next
        /\ UNCHANGED <<listsVars, handsVars, composeVars, onceVars, panelVars,
                       dialogsVars, privacyVars>>
     \/ /\ part = "compose" /\ Compose!Next
        /\ UNCHANGED <<listsVars, handsVars, groupVars, onceVars, panelVars,
                       dialogsVars, privacyVars>>
     \/ /\ part = "once" /\ Once!Next
        /\ UNCHANGED <<listsVars, handsVars, groupVars, composeVars,
                       panelVars, dialogsVars, privacyVars>>
     \/ /\ part = "panel" /\ Panel!Next
        /\ UNCHANGED <<listsVars, handsVars, groupVars, composeVars, onceVars,
                       dialogsVars, privacyVars>>
     \/ /\ part = "dialogs" /\ Dialog!Next
        /\ UNCHANGED <<listsVars, handsVars, groupVars, composeVars, onceVars,
                       panelVars, privacyVars>>
     \/ /\ part = "privacy" /\ Privacy!Next
        /\ UNCHANGED <<listsVars, handsVars, groupVars, composeVars, onceVars,
                       panelVars, dialogsVars>>

Spec == Init /\ [][Next]_vars

-----------------------------------------------------------------------------
(* The invariants of a part hold with its type invariant while it runs.      *)

(* What the server knows of, the device has stored.                          *)
KnownIsStored == part = "lists" => Lists!TypeOK /\ Lists!KnownIsStored

(* At rest both sides agree on being contacts.                               *)
HandshakeSettles == part = "hands" => Hands!TypeOK /\ Hands!HandshakeSettles

(* At rest the members agree, and a key is with those it was made for.       *)
GroupAgrees == part = "group" => Group!TypeOK /\ Group!GroupAgrees

(* What was sent is in its chat, without a trace of the sending.             *)
CopiesKept == part = "compose" => Compose!TypeOK /\ Compose!CopiesKept

(* What is shown once is watched and will be destroyed.                      *)
ViewIsWatched == part = "once" => Once!TypeOK /\ Once!ViewIsWatched

(* What is written, and who is seen typing, is of the chat the panel names.  *)
PanelIsActive == part = "panel" => Panel!TypeOK /\ Panel!PanelIsActive

(* Who asks is on the screen, alone, and the phrase is confirmed.            *)
DialogsInOrder == part = "dialogs" => Dialog!TypeOK /\ Dialog!DialogsInOrder

(* What is off stays off, here and on the server.                            *)
ChoiceIsKept == part = "privacy" => Privacy!TypeOK /\ Privacy!ChoiceIsKept

(* A dialog that speaks of a loss or of a deletion means what it names: what *)
(* is said to be missing is, and what is deleted is what was chosen.         *)
StepsNameTheRight ==
  /\ Lists!AlarmIsTrue
  /\ Panel!DeletesTheChosen

(* Nothing is left to say once two changes have crossed; typing and online   *)
(* status are chosen together; in the panel one chat has messages, one types,*)
(* and a deletion or a notification meets at most one click.                 *)
Bounds ==
  /\ part = "hands" => ~handsDisturbed
  /\ part = "group" => ~groupDisturbed
  /\ part = "privacy" => privacyShown = None \/ privacyShown.typing = privacyShown.online
  /\ part = "panel" =>
       /\ Cardinality(clicks) <= 2 /\ Cardinality(panelTimers) <= 1 /\ Cardinality(panelHistory) <= 1
       /\ Cardinality({c \in People \cup Groups : typing[c] # "no"}) <= 1
       /\ stray \/ flow.step # "no" => panelTimers = {} /\ Cardinality(clicks) <= 1

(* Every view-once message is in the direct chat.                            *)
InDirect == [m \in Things \cup Texts |-> "direct"]

Perms == Permutations(People) \cup Permutations(Things)
==============================================================================
