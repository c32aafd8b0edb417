------------------------------ MODULE ChatPanel ------------------------------
(* Which chat the page shows. The active chat is kept in the state, the       *)
(* selected one in the synchronisation, which marks and answers messages by   *)
(* it; the panel has a header, messages and the typing indicator. A click     *)
(* awaits the save of the read marks before it opens what is then active.     *)
EXTENDS Naturals
CONSTANTS Contacts, Groups, None, Null
VARIABLES
  contact, group,  \* activeContact and activeGroup
  clicks,          \* the clicks that await their save
  header,          \* the chat named in the panel: None, or Null for "@null"
  messages,        \* the chat whose messages are in the panel, or None
  selected,        \* activeChatId of the synchronisation
  typing,          \* typingState: chat -> "no", "plain", or "timed" by the panel
  timers,          \* the timers of typingState: <<"panel" or "badge", chat>>
  indicator,       \* the chat whose typing the panel shows, or None
  listed,          \* the contacts
  history,         \* the chats that have messages
  stray,           \* a notification made a chat active that nobody opened
  flow             \* the deletion under way: what, of whom, its next step

vars == <<contact, group, clicks, header, messages, selected, typing, timers,
          indicator, listed, history, flow, stray>>
panel == <<header, messages>>
typers == <<typing, timers, indicator>>
data == <<listed, history>>

Chats == Contacts \cup Groups
Active == IF contact # None THEN contact ELSE group
NoFlow == [what |-> "none", chat |-> None, step |-> "no", whole |-> TRUE]

Init ==
  /\ contact = None /\ group = None /\ clicks = {} /\ header = None /\ messages = None
  /\ selected = None /\ typing = [c \in Chats |-> "no"] /\ timers = {} /\ indicator = None
  /\ listed = Contacts /\ history = {} /\ flow = NoFlow /\ stray = FALSE

-----------------------------------------------------------------------------
Touched == flow' = IF flow.step = "no" THEN NoFlow ELSE [flow EXCEPT !.whole = FALSE]

(* A click in a list: active at once, then the read marks are saved, if there *)
(* were any (else the await is over at once, in Opened too).                  *)
Click(c) ==
  /\ c \in listed \cup Groups
  /\ contact' = (IF c \in Contacts THEN c ELSE None)
  /\ group' = (IF c \in Groups THEN c ELSE None)
  /\ clicks' = clicks \cup {c}
  /\ Touched
  /\ UNCHANGED <<stray, panel, selected, typers, data>>

(* The end of openChatWithContact and openGroupChat.                          *)
Shows(c) ==
  /\ header' = (IF c = None THEN Null ELSE c)
  /\ messages' = c /\ selected' = c
  /\ indicator' = IF c # None /\ typing[c] # "no" THEN c ELSE None

(* Mutant: what was clicked is shown, not what is active.                     *)
OpenedAsClicked(c) ==
  /\ c \in clicks /\ clicks' = clicks \ {c}
  /\ IF c \in Contacts THEN group' = None /\ UNCHANGED contact
                       ELSE group' = c /\ contact' = None
  /\ Shows(c)
  /\ Touched /\ stray' = FALSE
  /\ UNCHANGED <<typing, timers, data>>

(* After the await: a contact's click opens the contact that is active now, a *)
(* group's click its group.                                                   *)
Opened(c) ==
  /\ c \in clicks /\ clicks' = clicks \ {c}
  /\ IF c \in Contacts
     THEN group' = None /\ UNCHANGED contact /\ Shows(contact)
     ELSE group' = c /\ contact' = None /\ Shows(c)
  /\ Touched /\ stray' = FALSE
  /\ UNCHANGED <<typing, timers, data>>

(* The arrow: the button and closeChat. Neither tells the synchronisation.    *)
Back ==
  /\ Active # None
  /\ contact' = None /\ group' = None /\ header' = None /\ messages' = None
  /\ Touched
  /\ UNCHANGED <<stray, clicks, selected, typers, data>>

(* A new contact.                                                             *)
Added(c) ==
  /\ c \notin listed /\ listed' = listed \cup {c}
  /\ Touched
  /\ UNCHANGED <<stray, contact, group, clicks, panel, selected, typers, history>>

(* A click on a notification: active, and nobody opens it.                    *)
Notified(c) ==
  /\ c \in listed
  /\ contact' = c /\ group' = None /\ stray' = TRUE
  /\ Touched
  /\ UNCHANGED <<clicks, panel, selected, typers, data>>

-----------------------------------------------------------------------------
(* A message is stored (as read if its chat is selected); then the page is    *)
(* drawn anew: the messages of the active chat.                               *)
Message(c) ==
  /\ c \in listed \cup Groups
  /\ history' = history \cup {c}
  /\ messages' = IF Active = None THEN messages ELSE Active
  /\ UNCHANGED <<stray, contact, group, clicks, header, selected, typers, listed, flow>>

(* The typing of a contact or in a group. A new entry replaces the old one,   *)
(* whose timers go on.                                                        *)
Types(c) ==
  /\ typing' = [typing EXCEPT ![c] = IF Active = c THEN "timed" ELSE "plain"]
  /\ timers' = timers \cup (IF Active = c THEN {<<"panel", c>>} ELSE {})
                      \cup (IF c \in listed \cup Groups THEN {<<"badge", c>>} ELSE {})
  /\ indicator' = IF Active = c THEN c ELSE indicator
  /\ UNCHANGED <<stray, contact, group, clicks, panel, selected, data, flow>>

(* Four seconds later.                                                        *)
PanelTimer(c) ==
  /\ <<"panel", c>> \in timers
  /\ timers' = timers \ {<<"panel", c>>}
  /\ indicator' = None /\ typing' = [typing EXCEPT ![c] = "no"]
  /\ UNCHANGED <<stray, contact, group, clicks, panel, selected, data, flow>>

BadgeTimer(c) ==
  /\ <<"badge", c>> \in timers
  /\ timers' = timers \ {<<"badge", c>>}
  /\ typing' = [typing EXCEPT ![c] = IF @ = "plain" THEN "no" ELSE @]
  /\ UNCHANGED <<stray, contact, group, clicks, panel, selected, indicator, data, flow>>

-----------------------------------------------------------------------------
(* A confirmed deletion. The dialog names the active chat; the history is     *)
(* emptied of the chat it named, a contact is removed by what is active.      *)
Delete(what) ==
  /\ flow.step = "no" /\ Active # None /\ (what = "contact" => contact \in listed)
  /\ flow' = [what |-> what, chat |-> Active, step |-> "first", whole |-> TRUE]
  /\ UNCHANGED <<stray, contact, group, clicks, panel, selected, typers, data>>

Step(s) == flow' = [flow EXCEPT !.step = s]

EmptyHistory ==
  /\ flow.what = "history" /\ flow.step = "first" /\ Step("last")
  /\ history' = history \ {flow.chat}
  /\ UNCHANGED <<stray, contact, group, clicks, panel, selected, typers, listed>>

EmptyPanel ==
  /\ flow.what = "history" /\ flow.step = "last" /\ Step("no")
  /\ messages' = None
  /\ UNCHANGED <<stray, contact, group, clicks, header, selected, typers, data>>

RemoveContact ==
  /\ flow.what = "contact" /\ flow.step = "first" /\ Step("history")
  /\ listed' = listed \ {contact}
  /\ UNCHANGED <<stray, contact, group, clicks, panel, selected, typers, history>>

RemoveHistory ==
  /\ flow.what = "contact" /\ flow.step = "history" /\ Step("tell")
  /\ history' = history \ {contact}
  /\ UNCHANGED <<stray, contact, group, clicks, panel, selected, typers, listed>>

(* contact_reject is sent, to the chat that is active, or fails: no matter.   *)
TellContact ==
  /\ flow.what = "contact" /\ flow.step = "tell" /\ Step("last")
  /\ UNCHANGED <<stray, contact, group, clicks, panel, selected, typers, data>>

ClosePanel ==
  /\ flow.what = "contact" /\ flow.step = "last" /\ Step("no")
  /\ contact' = None /\ header' = None
  /\ UNCHANGED <<stray, group, clicks, messages, selected, typers, data>>

Next ==
  \/ \E c \in Chats : Click(c) \/ Opened(c) \/ Message(c) \/ Types(c)
                      \/ PanelTimer(c) \/ BadgeTimer(c)
  \/ \E c \in Contacts : Notified(c) \/ Added(c)
  \/ \E w \in {"history", "contact"} : Delete(w)
  \/ Back \/ EmptyHistory \/ EmptyPanel \/ RemoveContact \/ RemoveHistory \/ TellContact
  \/ ClosePanel

Spec == Init /\ [][Next]_vars

-----------------------------------------------------------------------------
TypeOK ==
  /\ contact \in Contacts \cup {None} /\ group \in Groups \cup {None}
  /\ contact = None \/ group = None
  /\ clicks \subseteq Chats /\ header \in Chats \cup {None, Null}
  /\ messages \in Chats \cup {None} /\ selected \in Chats \cup {None}
  /\ typing \in [Chats -> {"no", "plain", "timed"}]
  /\ timers \subseteq ({"panel", "badge"} \X Chats) /\ indicator \in Chats \cup {None}
  /\ listed \subseteq Contacts /\ history \subseteq Chats /\ stray \in BOOLEAN
  /\ flow \in [what : {"none", "history", "contact"}, chat : Chats \cup {None},
               step : {"no", "first", "history", "tell", "last"}, whole : BOOLEAN]

Quiet == clicks = {} /\ ~stray /\ header \in Chats

(* However fast the chats are clicked: when the clicks have settled, what is  *)
(* written goes to the chat the panel names, and its messages are that        *)
(* chat's.                                                                    *)
ShownIsActive == Quiet => Active = header /\ messages \in {None, header}

(* Nobody else's typing is shown in a chat.                                   *)
TypingOfTheChat == Quiet => indicator \in {None, header}

(* A deletion that nothing came between takes the contact of its dialog with *)
(* all its messages, and no other's.                                          *)
DeletesTheChosen ==
  [][flow.step # "no" /\ flow.whole =>
       /\ listed \ listed' \subseteq {flow.chat}
       /\ history \ history' \subseteq {flow.chat}
       /\ flow.what = "contact" /\ flow'.step = "no" => flow.chat \notin listed \cup history]_vars

(* Clicks, deletions and arrivals in any order leave the panel with the chat *)
(* it names.                                                                 *)
PanelIsActive == ShownIsActive /\ TypingOfTheChat

-----------------------------------------------------------------------------
(* What the repository says and the code does not keep: TLC refutes it.      *)

(* "Currently selected active chat ID in UI": the synchronisation marks and   *)
(* answers messages as read by the chat that is open. Not so after the arrow. *)
SelectedIsOpen == clicks = {} /\ ~stray => selected \in {None, Active}

(* "Click to dismiss and open chat": a notification opens the chat it makes   *)
(* active. Not so: the panel still names the other one.                       *)
NotifiedIsOpened == clicks = {} /\ header \in Chats => Active = header
=============================================================================
