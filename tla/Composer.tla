-------------------------------- MODULE Composer --------------------------------
(* Writing, photographing and recording in one client: chat_input.js,         *)
(* audio_recorder.js and the message list they share with the renderer        *)
(* (state.chatMessages, chat_manager.js, ephemeral_store.js). A send is in    *)
(* flight while the user goes on: he may change the chat, switch view-once,   *)
(* or a message may come in. The message list of a chat without view-once     *)
(* messages IS the array that is saved.                                       *)
EXTENDS Naturals, FiniteSets

CONSTANTS
  Chats, Groups,   \* the conversations, and those of them that are groups
  Ids,             \* bound: messages composed
  None

VARIABLES
  active,      \* the chat that is open, or None
  shown,       \* whose list chatMessages is, and whether it is the saved array
  history,     \* chat_manager: the messages of each chat in memory
  disk,        \* what the last save wrote
  memory,      \* ephemeral_store: the view-once messages of each chat
  once,        \* viewOnceEnabled
  rec,         \* the chat a recording was started in, or None
  job,         \* the send of each id: where it stands and what was sent
  disturbed    \* something below a send in flight was changed

vars == <<active, shown, history, disk, memory, once, rec, job, disturbed>>

NoJob == [at |-> "none", kind |-> "text", target |-> None, eph |-> FALSE]
Entry(id, temp) == [id |-> id, temp |-> temp]
InFlight == {i \in Ids : job[i].at = "sending"}
Eph(id) == job[id].eph

Init ==
  /\ active = None /\ shown = [of |-> None, live |-> FALSE]
  /\ history = [c \in Chats |-> {}] /\ disk = history /\ memory = history
  /\ once = FALSE /\ rec = None
  /\ job = [i \in Ids |-> NoJob]
  /\ disturbed = FALSE

(* getMessages: the array itself, or a copy when view-once messages are mixed *)
(* in. A chat is in the history once a message was exchanged (both are here). *)
Listed(c) == [of |-> c, live |-> memory'[c] = {}]

Disturbs == disturbed' = (disturbed \/ InFlight # {})

-----------------------------------------------------------------------------
(* Opening a chat, or closing it: the list is not cleared by chat_selector.   *)
OpenChat(c) ==
  /\ c # active /\ active' = c
  /\ shown' = [of |-> c, live |-> memory[c] = {}]
  /\ Disturbs
  /\ UNCHANGED <<history, disk, memory, once, rec, job>>

CloseChat ==
  /\ active # None /\ active' = None
  /\ Disturbs
  /\ UNCHANGED <<shown, history, disk, memory, once, rec, job>>

Toggle ==
  /\ once' = ~once
  /\ Disturbs
  /\ UNCHANGED <<active, shown, history, disk, memory, rec, job>>

(* A message comes in: addMessage saves every chat, the list is taken anew.   *)
Incoming ==
  /\ disk' = history
  /\ shown' = IF active = None THEN shown ELSE [of |-> active, live |-> memory[active] = {}]
  /\ Disturbs
  /\ UNCHANGED <<active, history, memory, once, rec, job>>

(* The other side takes a message back: the array is replaced and saved.      *)
TakenBack(c) ==
  /\ disk' = history
  /\ shown' = IF active = None THEN [shown EXCEPT !.live = @ /\ shown.of # c]
                               ELSE [of |-> active, live |-> memory[active] = {}]
  /\ Disturbs
  /\ UNCHANGED <<active, history, memory, once, rec, job>>

-----------------------------------------------------------------------------
Starts(i, kind, target) ==
  /\ job[i].at = "none"
  /\ \A j \in InFlight : job[j].kind # kind       \* the button is disabled
  /\ job' = [job EXCEPT ![i] = [at |-> "sending", kind |-> kind, target |-> target, eph |-> once]]

(* triggerSend: the optimistic message goes into the list that is shown.      *)
SendText(i) ==
  /\ active # None
  /\ Starts(i, "text", active)
  /\ history' = IF shown.live THEN [history EXCEPT ![shown.of] = @ \cup {Entry(i, TRUE)}]
                              ELSE history
  /\ UNCHANGED <<active, shown, disk, memory, once, rec, disturbed>>

(* The photo was read, the dialog confirmed.                                  *)
SendPhoto(i) ==
  /\ active # None
  /\ Starts(i, "photo", active)
  /\ UNCHANGED <<active, shown, history, disk, memory, once, rec, disturbed>>

Record ==
  /\ rec = None /\ active # None
  /\ rec' = active
  /\ UNCHANGED <<active, shown, history, disk, memory, once, job, disturbed>>

(* stopRecording: by the button, by the time limit, and by the button that    *)
(* cancels. The chat is that of the start; whether it is sent as to a group   *)
(* is asked of the chat that is open now: in a group, the id of a contact is  *)
(* no group, and the send throws.                                             *)
SendAudio(i) ==
  /\ rec # None /\ rec' = None
  /\ ~(active \in Groups /\ rec \notin Groups)
  /\ Starts(i, "audio", rec)
  /\ UNCHANGED <<active, shown, history, disk, memory, once, disturbed>>

AudioFails ==
  /\ rec # None /\ rec' = None
  /\ active \in Groups /\ rec \notin Groups
  /\ UNCHANGED <<active, shown, history, disk, memory, once, job, disturbed>>

-----------------------------------------------------------------------------
(* addMessage: nothing is saved if the id is there already.                   *)
AddMessage(c, i) ==
  IF \E e \in history[c] : e.id = i
  THEN UNCHANGED <<history, disk>>
  ELSE /\ history' = [history EXCEPT ![c] = @ \cup {Entry(i, FALSE)}]
       /\ disk' = history'

(* The copy of the sender: in memory only, or saved.                          *)
Keep(i, c, eph) ==
  IF eph THEN memory' = [memory EXCEPT ![c] = @ \cup {i}] /\ UNCHANGED <<history, disk>>
         ELSE AddMessage(c, i) /\ UNCHANGED memory

(* The end of a send that succeeded: the list becomes that of its chat, and   *)
(* view-once is switched off.                                                 *)
Ends(i, outcome) == job' = [job EXCEPT ![i].at = outcome]

(* The temporary message of a text gets its real id wherever it is, and is    *)
(* taken out if it is found in the list that is shown now.                    *)
Confirmed(i) ==
  [c \in Chats |->
     IF Entry(i, TRUE) \notin history[c] THEN history[c]
     ELSE (history[c] \ {Entry(i, TRUE)})
            \cup (IF shown.live /\ shown.of = c THEN {} ELSE {Entry(i, FALSE)})]

(* Mutant: a text is kept in the chat that is open when the answer comes.     *)
TextSentToActive(i) ==
  /\ job[i].at = "sending" /\ job[i].kind = "text"
  /\ LET h == Confirmed(i)
         t == IF active = None THEN job[i].target ELSE active IN
     IF Eph(i)
     THEN memory' = [memory EXCEPT ![t] = @ \cup {i}] /\ history' = h /\ UNCHANGED disk
     ELSE /\ history' = [h EXCEPT ![t] = @ \cup {Entry(i, FALSE)}]
          /\ disk' = history' /\ UNCHANGED memory
  /\ Ends(i, "sent") /\ once' = FALSE
  /\ shown' = Listed(job[i].target)
  /\ disturbed' = (disturbed \/ InFlight # {i})
  /\ UNCHANGED <<active, rec>>

TextSent(i) ==
  /\ job[i].at = "sending" /\ job[i].kind = "text"
  /\ LET h == Confirmed(i)
         t == job[i].target IN
     CASE Eph(i) ->
            memory' = [memory EXCEPT ![t] = @ \cup {i}] /\ history' = h /\ UNCHANGED disk
       [] ~Eph(i) /\ Entry(i, FALSE) \in h[t] ->
            history' = h /\ UNCHANGED <<disk, memory>>
       [] OTHER ->
            /\ history' = [h EXCEPT ![t] = @ \cup {Entry(i, FALSE)}]
            /\ disk' = history' /\ UNCHANGED memory
  /\ Ends(i, "sent") /\ once' = FALSE
  /\ shown' = Listed(job[i].target)
  /\ disturbed' = (disturbed \/ InFlight # {i})
  /\ UNCHANGED <<active, rec>>

(* The send throws: the text returns to the input, the temporary message is   *)
(* removed if the list still has it.                                          *)
TextFails(i) ==
  /\ job[i].at = "sending" /\ job[i].kind = "text"
  /\ history' = IF shown.live THEN [history EXCEPT ![shown.of] = @ \ {Entry(i, TRUE)}] ELSE history
  /\ Ends(i, "failed")
  /\ UNCHANGED <<active, shown, disk, memory, once, rec, disturbed>>

(* A photo is kept as what it was sent as.                                    *)
PhotoSent(i) ==
  /\ job[i].at = "sending" /\ job[i].kind = "photo"
  /\ Keep(i, job[i].target, Eph(i))
  /\ Ends(i, "sent") /\ once' = FALSE
  /\ shown' = Listed(job[i].target)
  /\ disturbed' = (disturbed \/ InFlight # {i})
  /\ UNCHANGED <<active, rec>>

(* A recording is kept as what view-once says when the send has ended.        *)
AudioSent(i) ==
  /\ job[i].at = "sending" /\ job[i].kind = "audio"
  /\ Keep(i, job[i].target, once)
  /\ Ends(i, "sent") /\ once' = FALSE
  /\ shown' = Listed(job[i].target)
  /\ disturbed' = (disturbed \/ InFlight # {i})
  /\ UNCHANGED <<active, rec>>

MediaFails(i) ==
  /\ job[i].at = "sending" /\ job[i].kind # "text"
  /\ Ends(i, "failed")
  /\ UNCHANGED <<active, shown, history, disk, memory, once, rec, disturbed>>

Next ==
  \/ \E c \in Chats : OpenChat(c) \/ TakenBack(c)
  \/ CloseChat \/ Toggle \/ Incoming \/ Record \/ AudioFails
  \/ \E i \in Ids :
       \/ SendText(i) \/ SendPhoto(i) \/ SendAudio(i)
       \/ TextSent(i) \/ TextFails(i) \/ PhotoSent(i) \/ AudioSent(i) \/ MediaFails(i)

Spec == Init /\ [][Next]_vars

-----------------------------------------------------------------------------
Entries == [id : Ids, temp : BOOLEAN]

TypeOK ==
  /\ active \in Chats \cup {None} /\ rec \in Chats \cup {None}
  /\ shown \in [of : Chats \cup {None}, live : BOOLEAN]
  /\ history \in [Chats -> SUBSET Entries] /\ disk \in [Chats -> SUBSET Entries]
  /\ memory \in [Chats -> SUBSET Ids] /\ once \in BOOLEAN /\ disturbed \in BOOLEAN
  /\ job \in [Ids -> [at : {"none", "sending", "sent", "failed"}, kind : {"text", "photo", "audio"},
                      target : Chats \cup {None}, eph : BOOLEAN]]

Sent(i) == job[i].at = "sent"

(* Whatever the user does while it is on its way, a message that was sent is  *)
(* among the messages of the chat it was written in, with its final id.       *)
OwnCopyKept ==
  \A i \in Ids : Sent(i) =>
    i \in memory[job[i].target] \/ Entry(i, FALSE) \in history[job[i].target]

(* When nothing is in flight, and nothing was touched while it was: no        *)
(* temporary message is left, no message is in a chat it was not written in,  *)
(* what was sent is on disk unless it was view-once, and what was view-once   *)
(* is not among what the next save will write.                                *)
SettledClean ==
  InFlight = {} /\ ~disturbed =>
    \A i \in Ids : \A c \in Chats :
      /\ Entry(i, TRUE) \notin history[c]
      /\ Entry(i, FALSE) \in history[c] => Sent(i) /\ ~Eph(i) /\ c = job[i].target
      /\ Sent(i) /\ ~Eph(i) /\ c = job[i].target => Entry(i, FALSE) \in disk[c]

(* Whatever the user does while a send is in flight, its message ends once in*)
(* its chat, with no trace of the sending.                                   *)
CopiesKept == OwnCopyKept /\ SettledClean

-----------------------------------------------------------------------------
(* What the repository says and the code does not keep: TLC refutes it.      *)

(* What ephemeral_store.js says of view-once messages: they live only in      *)
(* memory, they never touch the disk.                                         *)
NeverOnDisk == \A c \in Chats : \A e \in disk[c] : ~Eph(e.id)
=============================================================================
