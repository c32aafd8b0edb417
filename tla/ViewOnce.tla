------------------------------- MODULE ViewOnce -------------------------------
(* Showing the messages that may be seen once (ui/message_renderer.js), the   *)
(* watch for screenshots while an image is shown (screenshot_detector.js and  *)
(* its callback in auth_ui.js). Every view starts a timer that destroys the   *)
(* message ten seconds later, in whatever chat is open then; every message    *)
(* that arrives draws the chat again.                                         *)
EXTENDS Naturals
CONSTANTS
  Images, Texts,  \* messages; a text stands for an audio too, whose timer is its length
  Chats, ChatOf,  \* ChatOf[m] is the chat a message is in
  Users, None
VARIABLES
  user,       \* who is logged in
  active,     \* activeContact or activeGroup
  store,      \* ephemeralStore
  locked,     \* texts whose placeholder takes no more clicks, until it is drawn again
  timers,     \* message -> timers that will destroy it
  modal,      \* the image on the screen
  detector,   \* "none" without a session, "off", or the image it protects
  of,         \* message -> the user it was sent to
  seen,       \* message -> how often it was shown
  strangers,  \* messages shown to another user
  moved,      \* messages whose timer ran out in another chat
  left        \* the session was ended with an image on the screen

vars == <<user, active, store, locked, timers, modal, detector, of, seen,
          strangers, moved, left>>
history == <<of, seen, strangers>>
session == <<user, active>>

Messages == Images \cup Texts

Init ==
  /\ user = None /\ active = None /\ store = {} /\ locked = {}
  /\ timers = [m \in Messages |-> 0] /\ modal = None /\ detector = "none"
  /\ of = [m \in Messages |-> None] /\ seen = [m \in Messages |-> 0]
  /\ strangers = {} /\ moved = {} /\ left = FALSE

-----------------------------------------------------------------------------
(* The modal covers the page, so the chat changes only without it.            *)
OpenChat(c) ==
  /\ user # None /\ modal = None /\ active # c
  /\ active' = c /\ locked' = {}
  /\ UNCHANGED <<user, store, timers, modal, detector, history, moved, left>>

CloseChat ==
  /\ active # None /\ modal = None
  /\ active' = None /\ locked' = {}
  /\ UNCHANGED <<user, store, timers, modal, detector, history, moved, left>>

(* A message of this kind goes to the store in memory, and the open chat is   *)
(* drawn again, as after any other message or receipt.                        *)
Arrive(m) ==
  /\ user # None /\ of[m] = None
  /\ of' = [of EXCEPT ![m] = user]
  /\ store' = store \cup {m} /\ locked' = {}
  /\ UNCHANGED <<session, timers, modal, detector, seen, strangers, moved, left>>

Redraw ==
  /\ active # None /\ locked # {}
  /\ locked' = {}
  /\ UNCHANGED <<session, store, timers, modal, detector, history, moved, left>>

(* What is on the screen can be tapped; a new timer each time.                *)
Shown(m) ==
  /\ active = ChatOf[m] /\ m \in store /\ modal = None /\ seen[m] < 2
  /\ seen' = [seen EXCEPT ![m] = @ + 1]
  /\ strangers' = IF user = of[m] THEN strangers ELSE strangers \cup {m}
  /\ timers' = [timers EXCEPT ![m] = @ + 1]
  /\ UNCHANGED <<of, session, store>>

Tap(m) ==
  /\ m \notin locked /\ Shown(m)
  /\ locked' = locked \cup {m}
  /\ UNCHANGED <<modal, detector, moved, left>>

TapImage(m) ==
  /\ Shown(m)
  /\ modal' = m /\ detector' = m
  /\ UNCHANGED <<locked, moved, left>>

(* deleteRenderedMessage looks in the chat that is open now, then draws it.   *)
Delete(m) ==
  /\ store' = IF active = ChatOf[m] THEN store \ {m} ELSE store
  /\ moved' = IF active = ChatOf[m] THEN moved ELSE moved \cup {m}
  /\ locked' = {}

Expire(m) ==
  /\ timers[m] > 0
  /\ timers' = [timers EXCEPT ![m] = @ - 1]
  /\ Delete(m)
  /\ UNCHANGED <<session, modal, detector, history, left>>

Unprotected == IF detector = "none" THEN "none" ELSE "off"

(* destroyFn, by the timer or by the button of the modal: it closes the modal *)
(* whichever image is there. (What the sender is told of it is in             *)
(* Conversation.)                                                             *)
Destroy(m) ==
  /\ timers[m] > 0
  /\ timers' = [timers EXCEPT ![m] = @ - 1]
  /\ modal' = None /\ detector' = Unprotected
  /\ Delete(m)
  /\ UNCHANGED <<session, history, left>>

-----------------------------------------------------------------------------
(* Mutant: closing the image also stops its timer.                            *)
ScreenshotStopsTimer ==
  /\ detector \in Images
  /\ detector' = "off" /\ modal' = None
  /\ locked' = {}
  /\ timers' = [timers EXCEPT ![detector] = 0]
  /\ UNCHANGED <<session, store, history, moved, left>>

(* A key or a hidden tab while an image is protected: the modal is closed,    *)
(* the others are told and the chat drawn with the alert. The timer runs on.  *)
Screenshot ==
  /\ detector \in Images
  /\ detector' = "off" /\ modal' = None
  /\ locked' = {}
  /\ UNCHANGED <<session, store, timers, history, moved, left>>

(* executeWipeLogout, by the user or for another tab: neither the store nor   *)
(* the modal nor its timer belongs to what is cleared.                        *)
Logout ==
  /\ user # None
  /\ user' = None /\ active' = None /\ detector' = "none" /\ locked' = {}
  /\ left' = (left \/ modal # None)
  /\ UNCHANGED <<store, timers, modal, history, moved>>

Login(u) ==
  /\ user = None
  /\ user' = u /\ detector' = "off"
  /\ UNCHANGED <<active, store, locked, timers, modal, history, moved, left>>

Reload ==
  /\ active' = None /\ store' = {} /\ locked' = {} /\ modal' = None
  /\ timers' = [m \in Messages |-> 0]
  /\ detector' = Unprotected
  /\ UNCHANGED <<user, history, moved, left>>

Next ==
  \/ CloseChat \/ Redraw \/ Screenshot \/ Logout \/ Reload
  \/ \E c \in Chats : OpenChat(c)
  \/ \E u \in Users : Login(u)
  \/ \E m \in Messages : Arrive(m)
  \/ \E m \in Texts : Tap(m) \/ Expire(m)
  \/ \E m \in Images : TapImage(m) \/ Destroy(m)

Spec == Init /\ [][Next]_vars

-----------------------------------------------------------------------------
TypeOK ==
  /\ user \in Users \cup {None} /\ active \in Chats \cup {None}
  /\ store \subseteq Messages /\ locked \subseteq Texts
  /\ timers \in [Messages -> 0..2] /\ modal \in Images \cup {None}
  /\ detector \in {"none", "off"} \cup Images
  /\ of \in [Messages -> Users \cup {None}] /\ seen \in [Messages -> 0..2]
  /\ strangers \subseteq Messages /\ moved \subseteq Messages /\ left \in BOOLEAN

(* While an image is on the screen the watch for screenshots is on, and for   *)
(* this image, whichever earlier image's timer runs out meanwhile (a session  *)
(* ended under the image excepted).                                           *)
ProtectedWhileShown == modal # None /\ ~left => detector = modal

(* A message that was seen and is still in the store has a timer that will    *)
(* destroy it, however its view was ended, unless its timer ran out while     *)
(* another chat was open.                                                     *)
SeenIsDoomed ==
  \A m \in store : seen[m] > 0 /\ m \notin moved => timers[m] > 0

(* What is shown once is watched, and on its way to be destroyed.            *)
ViewIsWatched == ProtectedWhileShown /\ SeenIsDoomed

-----------------------------------------------------------------------------
(* What the repository says and the code does not keep: TLC refutes it.      *)

(* sync_manager.js:1146: a message of a single view is a guarantee about how  *)
(* often the receiver can see it. The chat that is drawn again within the ten *)
(* seconds offers the message again.                                          *)
SeenOnce == \A m \in Messages : seen[m] <= 1

(* memory_sanitizer.js:77: nothing is left of a session that was ended. The   *)
(* store in memory is, and the next user's chat with the same contact shows   *)
(* its messages.                                                              *)
SeenByReceiver == strangers = {}
=============================================================================
