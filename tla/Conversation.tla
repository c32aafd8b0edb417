------------------------------ MODULE Conversation ------------------------------
(* The life of one message between its author and those who receive it, in a  *)
(* direct chat or in a group: the branches of processIncomingBlob for chat,   *)
(* receipt, msg_edit, msg_delete and ephemeral_viewed, sendGroupBlob, the     *)
(* receipts of openChatWithContact, and the dialogs of message_renderer.js    *)
(* that edit, delete and view. Every blob to a member has an id of its own;   *)
(* the author keeps the id of the last one.                                   *)
EXTENDS Naturals, FiniteSets

CONSTANTS
  Others,      \* the receivers: one is a direct chat, more are a group
  MaxTexts,    \* bound: versions of the text
  None

VARIABLES
  eph,         \* the message is view-once
  phase,       \* "new", "sending" or "stored" by the author
  last,        \* whose blob gave the author's copy its id
  own,         \* the author has a copy
  status,      \* of the author's copy
  deliveredBy, readBy, viewedBy,
  text,        \* version of the author's text
  copy,        \* of each receiver: the version he has, or None
  chosen,      \* activeChatId of each receiver is this chat
  open,        \* the chat is open on his screen
  shown,       \* his client took the message for one he had before him
  net,         \* blobs on the way
  disturbed    \* a blob was lost, came twice or came before its message

vars == <<eph, phase, last, own, status, deliveredBy, readBy, viewedBy, text, copy,
          chosen, open, shown, net, disturbed>>
author == <<phase, last, own, status, deliveredBy, readBy, viewedBy, text>>
receivers == <<copy, chosen, open, shown>>

Group == Cardinality(Others) > 1
Blob(type, r, n) == [type |-> type, who |-> r, n |-> n]
Rank == [none |-> 0, sent |-> 1, delivered |-> 2, read |-> 3]

Init ==
  /\ eph \in BOOLEAN
  /\ phase = "new" /\ last = None /\ own = FALSE /\ status = "none"
  /\ deliveredBy = {} /\ readBy = {} /\ viewedBy = {} /\ text = 1
  /\ copy = [r \in Others |-> None] /\ shown = [r \in Others |-> FALSE]
  /\ chosen \in [Others -> BOOLEAN] /\ open = chosen
  /\ net = {} /\ disturbed = FALSE

-----------------------------------------------------------------------------
(* sendGroupBlob, or sendBlob: some of the members may fail, which is only    *)
(* warned about; with nobody reached a made-up id stands for the last.        *)
SendMessage(reached) ==
  /\ phase = "new" /\ phase' = "sending"
  /\ net' = {Blob("message", r, 1) : r \in reached}
  /\ last' \in IF reached = {} THEN {None} ELSE reached
  /\ disturbed' = (reached # Others)
  /\ UNCHANGED <<eph, own, status, deliveredBy, readBy, viewedBy, text, receivers>>

(* The answer: only now the author has a message with that id.                *)
Stored ==
  /\ phase = "sending" /\ phase' = "stored"
  /\ own' = TRUE /\ status' = "sent"
  /\ UNCHANGED <<eph, last, deliveredBy, readBy, viewedBy, text, receivers, net, disturbed>>

(* A blob is taken from the relay once, or meets its receiver again: a push   *)
(* and a poll can both bring it.                                              *)
Taken(b) == net' \in {net, net \ {b}}

(* Mutant: what arrives is taken for read, whatever chat is chosen.           *)
ReceiptsAlways(r) == {Blob("delivered", r, 0), Blob("read", r, 0)}

(* The message arrives: addMessage drops what is there already, and takes     *)
(* what was deleted for new; the receipts follow, a read one if the chat is   *)
(* the chosen one. A failure to send them is only logged.                     *)
Receipts(r) ==
  {Blob("delivered", r, 0)} \cup (IF chosen[r] THEN {Blob("read", r, 0)} ELSE {})

MessageArrives(b, sent, again) ==
  /\ b \in net /\ b.type = "message" /\ sent \subseteq Receipts(b.who)
  /\ copy' = [copy EXCEPT ![b.who] = IF @ = None THEN b.n ELSE @]
  /\ shown' = [shown EXCEPT ![b.who] = @ \/ chosen[b.who]]
  /\ net' = (IF again THEN net ELSE net \ {b}) \cup sent
  /\ disturbed' = (disturbed \/ again \/ sent # Receipts(b.who))
  /\ UNCHANGED <<eph, author, chosen, open>>

(* The receiver opens the chat: in a direct chat the read receipts of what    *)
(* is there are sent, in a group they are not.                                *)
OpenChat(r) ==
  /\ ~open[r]
  /\ open' = [open EXCEPT ![r] = TRUE] /\ chosen' = [chosen EXCEPT ![r] = TRUE]
  /\ shown' = [shown EXCEPT ![r] = @ \/ copy[r] # None]
  /\ net' = IF ~Group /\ copy[r] # None THEN net \cup {Blob("read", r, 0)} ELSE net
  /\ UNCHANGED <<eph, author, copy, disturbed>>

(* closeChat clears the chat of the screen, not activeChatId; another chat    *)
(* takes both.                                                                *)
CloseChat(r, other) ==
  /\ open[r]
  /\ open' = [open EXCEPT ![r] = FALSE]
  /\ chosen' = [chosen EXCEPT ![r] = ~other]
  /\ UNCHANGED <<eph, author, copy, shown, net, disturbed>>

-----------------------------------------------------------------------------
(* A receipt: looked up by the id in the author's copy.                       *)
Found(r) == own /\ r = last

(* Mutant: a late receipt of the delivery takes the message back from read.   *)
StatusAfterLast(d, v) ==
  CASE d = Others /\ d # deliveredBy -> "delivered"
    [] v = Others -> "read"
    [] OTHER -> status

(* In a group the status goes up when every other member has sent his.        *)
StatusAfter(d, v) ==
  CASE v = Others -> "read"
    [] v # Others /\ d = Others /\ status # "read" -> "delivered"
    [] OTHER -> status

ReceiptArrives(b, again) ==
  /\ b \in net /\ b.type \in {"delivered", "read"}
  /\ LET d == IF b.type = "delivered" THEN deliveredBy \cup {b.who} ELSE deliveredBy
         v == IF b.type = "read" THEN readBy \cup {b.who} ELSE readBy IN
     IF Found(b.who)
     THEN deliveredBy' = d /\ readBy' = v /\ status' = StatusAfter(d, v)
     ELSE UNCHANGED <<deliveredBy, readBy, status>>
  /\ net' = IF again THEN net ELSE net \ {b}
  /\ disturbed' = (disturbed \/ again \/ phase # "stored")
  /\ UNCHANGED <<eph, phase, last, own, viewedBy, text, receivers>>

(* The edit and the deletion for all are sent to the open chat: in a group    *)
(* that is the id of the group, which is nobody's address.                    *)
ToChat(type, n) == IF Group THEN {} ELSE {Blob(type, r, n) : r \in Others}

Edit ==
  /\ own /\ ~eph /\ text < MaxTexts
  /\ text' = text + 1
  /\ net' = net \cup ToChat("edit", text')
  /\ UNCHANGED <<eph, phase, last, own, status, deliveredBy, readBy, viewedBy, receivers, disturbed>>

DeleteForAll ==
  /\ own /\ own' = FALSE
  /\ net' = net \cup ToChat("delete", 0)
  /\ UNCHANGED <<eph, phase, last, status, deliveredBy, readBy, viewedBy, text, receivers, disturbed>>

(* An edit of a message that is not there is dropped, and so is a deletion;   *)
(* an edit is not compared with one that came before it.                      *)
EditArrives(b) ==
  /\ b \in net /\ b.type = "edit" /\ Taken(b)
  /\ copy' = [copy EXCEPT ![b.who] = IF @ = None THEN None ELSE b.n]
  /\ disturbed' = (disturbed \/ b \in net' \/ copy[b.who] # b.n - 1)
  /\ UNCHANGED <<eph, author, chosen, open, shown>>

(* A view-once message is not in the history, and msg_delete looks there.     *)
DeleteArrives(b) ==
  /\ b \in net /\ b.type = "delete" /\ Taken(b)
  /\ copy' = [copy EXCEPT ![b.who] = IF eph THEN @ ELSE None]
  /\ disturbed' = (disturbed \/ b \in net' \/ copy[b.who] = None \/ eph
                             \/ \E e \in net : e.type \in {"edit", "message"})
  /\ UNCHANGED <<eph, author, chosen, open, shown>>

(* The receiver looks at a view-once message: it is destroyed at the end of   *)
(* the view (here with the chat still open), and the author is told.          *)
View(r) ==
  /\ eph /\ open[r] /\ copy[r] # None
  /\ copy' = [copy EXCEPT ![r] = None]
  /\ net' = net \cup {Blob("viewed", r, 0)}
  /\ UNCHANGED <<eph, author, chosen, open, shown, disturbed>>

(* ephemeral_viewed is addressed to the author, so it is never taken for one  *)
(* of a group: the author's copy goes with the first who viewed it.           *)
ViewedArrives(b) ==
  /\ b \in net /\ b.type = "viewed" /\ Taken(b)
  /\ IF Found(b.who) THEN viewedBy' = viewedBy \cup {b.who} /\ own' = FALSE
                     ELSE UNCHANGED <<viewedBy, own>>
  /\ disturbed' = (disturbed \/ b \in net' \/ phase # "stored")
  /\ UNCHANGED <<eph, phase, last, status, deliveredBy, readBy, text, receivers>>

DeleteMine(r) ==
  /\ copy[r] # None
  /\ copy' = [copy EXCEPT ![r] = None]
  /\ disturbed' = TRUE
  /\ UNCHANGED <<eph, author, chosen, open, shown, net>>

Lost(b) ==
  /\ b \in net /\ net' = net \ {b}
  /\ disturbed' = TRUE
  /\ UNCHANGED <<eph, author, receivers>>

Next ==
  \/ \E reached \in SUBSET Others : SendMessage(reached)
  \/ Stored \/ Edit \/ DeleteForAll
  \/ \E r \in Others : OpenChat(r) \/ View(r) \/ DeleteMine(r)
                       \/ \E other \in BOOLEAN : CloseChat(r, other)
  \/ \E b \in net :
       \/ EditArrives(b) \/ DeleteArrives(b) \/ ViewedArrives(b) \/ Lost(b)
       \/ \E again \in BOOLEAN : ReceiptArrives(b, again)
       \/ \E again \in BOOLEAN : \E sent \in SUBSET Receipts(b.who) : MessageArrives(b, sent, again)

Spec == Init /\ [][Next]_vars

-----------------------------------------------------------------------------
TypeOK ==
  /\ eph \in BOOLEAN /\ phase \in {"new", "sending", "stored"} /\ last \in Others \cup {None}
  /\ own \in BOOLEAN /\ status \in DOMAIN Rank /\ text \in 1..MaxTexts
  /\ deliveredBy \subseteq Others /\ readBy \subseteq Others /\ viewedBy \subseteq Others
  /\ copy \in [Others -> (1..MaxTexts) \cup {None}]
  /\ chosen \in [Others -> BOOLEAN] /\ open \in [Others -> BOOLEAN] /\ shown \in [Others -> BOOLEAN]
  /\ net \subseteq [type : {"message", "delivered", "read", "edit", "delete", "viewed"},
                    who : Others, n : 0..MaxTexts]
  /\ disturbed \in BOOLEAN

AtRest == net = {} /\ phase = "stored"

(* The ticks of a message never go back, in whatever order its receipts come  *)
(* and however often.                                                         *)
TicksOnlyRise == [][Rank[status'] >= Rank[status]]_vars

(* In a direct chat, when everything has arrived, what the author did is what *)
(* the receiver has: an edited text, a deletion, the destruction of a         *)
(* view-once message; and the ticks say what happened on the other side.      *)
DirectInStep ==
  AtRest /\ ~disturbed /\ ~Group =>
    \A r \in Others :
      /\ own => (shown[r] => status = "read") /\ status # "sent"
      /\ own <=> copy[r] # None
      /\ own => copy[r] = text

(* A message counts as read only when every receiver had it and had the chat *)
(* chosen at a time, however the receipts travel.                             *)
ReadWasChosen == status = "read" => readBy = Others /\ \A r \in Others : shown[r]

(* The two sides of a direct chat agree once all has arrived, and read means *)
(* that the chat was chosen.                                                 *)
BothSidesAgree == DirectInStep /\ ReadWasChosen

-----------------------------------------------------------------------------
(* What the repository says and the code does not keep: TLC refutes it.      *)

(* A group message everybody has on his screen since it came counts as read:  *)
(* the ticks of groups exist because it "quedaba pegado en sent para siempre".*)
GroupReadIsShown ==
  AtRest /\ ~disturbed /\ Group /\ own /\ (\A r \in Others : open[r] /\ shown[r]) => status = "read"

(* The dialog asks whether to delete the message "para TODOS los              *)
(* participantes": once all has arrived, nobody has it.                       *)
DeletedForAll ==
  AtRest /\ ~disturbed /\ ~eph /\ ~own => \A r \in Others : copy[r] = None
=============================================================================
