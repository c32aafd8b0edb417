----------------------------- MODULE ClientOutbox -----------------------------
(* What one page does with a message of its user until the relay has it:      *)
(* sendBlob and flushOutbox (sync_manager.js), the outbox (hermes_store.js)   *)
(* and the chat history (chat_manager.js), both written to IndexedDB, the     *)
(* send button (chat_input.js), and the logins, registrations, logouts and    *)
(* reloads (auth_ui.js) between which requests stay in flight.                *)
(* IndexedDB completes its writes in the order they were asked for; whoever   *)
(* awaits a write resumes before the next event.                              *)
EXTENDS Naturals, Sequences

CONSTANTS
  Users, Msgs,
  Loops,          \* runs of flushOutbox in progress at the same time
  MaxEntries,     \* bound: logins and registrations
  None

VARIABLES
  user,           \* whose session the page holds, or None
  phase,          \* how far doLoginTransition has loaded: hist, box, open
  owner,          \* message -> the user who wrote it, or None
  outbox,         \* hermesStore.state.outbox
  history,        \* state.chats.history: message -> none, pending or sent
  box, hist,      \* user -> what IndexedDB holds of the two
  puts,           \* writes IndexedDB has not completed
  early,          \* users with something saved before it had been loaded
  send,           \* message -> where its sendBlob and addMessage are
  loop,           \* loop -> the messages it still has, and where it is
  claimed,        \* nonces the relay still remembers
  accepted,       \* message -> how often the relay accepted it (2: or more)
  cut,            \* messages whose sending a reload or a change of session cut
  known,          \* accounts that were registered on this device
  entries

vars == <<user, phase, owner, outbox, history, box, hist, puts, early, send, loop,
          claimed, accepted, cut, known, entries>>
disk == <<box, hist>>
saves == <<puts, early>>
relay == <<claimed, accepted>>
session == <<user, phase, owner, cut, known, entries>>

NoHistory == [m \in Msgs |-> "none"]
IdleLoop == [todo |-> <<>>, pc |-> "idle", token |-> FALSE]

Put(u, what, val, by) == [user |-> u, what |-> what, val |-> val, by |-> by]
InBox(seq) == {seq[i] : i \in 1..Len(seq)}
Unless(seq, m, x) == IF x = m THEN seq ELSE Append(seq, x)
Without(seq, m) ==
  LET kept[n \in 0..Len(seq)] == IF n = 0 THEN <<>> ELSE Unless(kept[n - 1], m, seq[n])
  IN kept[Len(seq)]

Init ==
  /\ user = None /\ phase = "open"
  /\ owner = [m \in Msgs |-> None]
  /\ outbox = <<>> /\ history = NoHistory
  /\ box = [u \in Users |-> <<>>] /\ hist = [u \in Users |-> NoHistory]
  /\ puts = <<>> /\ early = {}
  /\ send = [m \in Msgs |-> "idle"]
  /\ loop = [l \in Loops |-> IdleLoop]
  /\ claimed = {} /\ accepted = [m \in Msgs |-> 0] /\ cut = {}
  /\ known = {} /\ entries = 0

-----------------------------------------------------------------------------
(* IndexedDB. A save without an open vault writes nothing.                    *)
Written ==
  LET w == Head(puts) IN
  /\ box' = IF w.what = "box" /\ w.user # None THEN [box EXCEPT ![w.user] = w.val] ELSE box
  /\ hist' = IF w.what = "hist" /\ w.user # None THEN [hist EXCEPT ![w.user] = w.val] ELSE hist

(* A save is under the name of whoever is logged in by then, loaded or not.   *)
Save(what, val, by, rest) ==
  /\ puts' = Append(rest, Put(user, what, val, by))
  /\ early' = IF phase = "hist" \/ (phase = "box" /\ what = "box")
              THEN early \cup {user} ELSE early

(* A save that writes nothing is over before the user's next click.           *)
Aborting == \E i \in 1..Len(puts) : puts[i].user = None

Completes(by) == puts # <<>> /\ Head(puts).by = by /\ Written

(* /api/relay takes the message.                                              *)
Accepted(m) ==
  /\ m \notin claimed
  /\ claimed' = claimed \cup {m}
  /\ accepted' = [accepted EXCEPT ![m] = IF @ = 2 THEN 2 ELSE @ + 1]

(* No good answer comes: the relay took it and the answer was lost, or it     *)
(* refused (a replay, the rate limit), or never heard of it. Without the      *)
(* token of the sender it refuses.                                            *)
NotAnswered(m, token) ==
  \/ token /\ Accepted(m)
  \/ UNCHANGED relay

(* The relay forgets the nonce after a day or a restart.                      *)
ClaimEnds ==
  \E m \in claimed :
    /\ claimed' = claimed \ {m}
    /\ UNCHANGED <<session, outbox, history, disk, saves, send, loop, accepted>>

-----------------------------------------------------------------------------
(* The send button: the message is only shown until sendBlob has an answer.   *)
Send(m) ==
  /\ owner[m] = None /\ user # None /\ phase = "open"
  /\ owner' = [owner EXCEPT ![m] = user]
  /\ send' = [send EXCEPT ![m] = "posting"]
  /\ UNCHANGED <<user, phase, cut, known, entries, outbox, history, disk, saves, loop, relay>>

(* addMessage under the signature, unless it is there; awaits its save.       *)
Stored(m, status, rest) ==
  IF history[m] = "none"
  THEN /\ history' = [history EXCEPT ![m] = status]
       /\ Save("hist", history', m, rest)
       /\ send' = [send EXCEPT ![m] = "storing"]
  ELSE send' = [send EXCEPT ![m] = "idle"] /\ puts' = rest /\ UNCHANGED <<history, early>>

SendDone(m) ==
  /\ send[m] = "posting" /\ Accepted(m)
  /\ Stored(m, "sent", puts)
  /\ UNCHANGED <<session, outbox, disk, loop>>

(* OUTBOX_ADDED, awaited before the message is stored as pending.             *)
SendQueued(m) ==
  /\ send[m] = "posting" /\ NotAnswered(m, TRUE)
  /\ outbox' = Append(outbox, m)
  /\ Save("box", outbox', m, puts)
  /\ send' = [send EXCEPT ![m] = "queueing"]
  /\ UNCHANGED <<session, history, disk, loop>>

Queued(m) ==
  /\ Completes(m)
  /\ IF send[m] = "queueing"
     THEN Stored(m, "pending", Tail(puts))
     ELSE send' = [send EXCEPT ![m] = "idle"] /\ puts' = Tail(puts) /\ UNCHANGED <<history, early>>
  /\ UNCHANGED <<session, outbox, loop, relay>>

-----------------------------------------------------------------------------
(* A request with the token of the session that is open at that moment.       *)
Post(todo) == [todo |-> todo, pc |-> "posting", token |-> user = owner[Head(todo)]]

(* flushOutbox, started by the timer, by the online event of every manager    *)
(* there ever was, by auth_ok and by start; it goes through a copy.           *)
FlushStart(l) ==
  /\ user # None /\ loop[l].pc = "idle" /\ outbox # <<>>
  /\ loop' = [loop EXCEPT ![l] = Post(outbox)]
  /\ UNCHANGED <<session, outbox, history, disk, saves, send, relay>>

(* On to the next message of the copy.                                        *)
Onward(l) ==
  LET todo == Tail(loop[l].todo) IN
  loop' = [loop EXCEPT ![l] =
    IF todo = <<>> THEN IdleLoop ELSE Post(todo)]

(* Mutant: a message leaves the outbox whatever the answer was.               *)
KeptNot(l) ==
  /\ loop[l].pc = "posting" /\ NotAnswered(Head(loop[l].todo), loop[l].token)
  /\ outbox' = Without(outbox, Head(loop[l].todo))
  /\ Save("box", outbox', l, puts)
  /\ loop' = [loop EXCEPT ![l].pc = "removing"]
  /\ UNCHANGED <<session, history, disk, send>>

(* Mutant: a flush that meets a failure does not let the next one start.      *)
KeptForGood(l) ==
  /\ loop[l].pc = "posting" /\ NotAnswered(Head(loop[l].todo), loop[l].token)
  /\ loop' = [loop EXCEPT ![l].pc = "marking"]
  /\ UNCHANGED <<session, outbox, history, disk, saves, send>>

Kept(l) ==
  /\ loop[l].pc = "posting" /\ NotAnswered(Head(loop[l].todo), loop[l].token)
  /\ Onward(l)
  /\ UNCHANGED <<session, outbox, history, disk, saves, send>>

(* OUTBOX_REMOVED, awaited before the status changes.                         *)
Removing(l) ==
  /\ loop[l].pc = "posting" /\ loop[l].token /\ Accepted(Head(loop[l].todo))
  /\ outbox' = Without(outbox, Head(loop[l].todo))
  /\ Save("box", outbox', l, puts)
  /\ loop' = [loop EXCEPT ![l].pc = "removing"]
  /\ UNCHANGED <<session, history, disk, send>>

(* updateMessageStatusById, awaited, before the next message.                 *)
Removed(l) ==
  /\ Completes(l)
  /\ LET m == Head(loop[l].todo) IN
     IF loop[l].pc = "removing" /\ history[m] # "none"
     THEN /\ history' = [history EXCEPT ![m] = "sent"]
          /\ Save("hist", history', l, Tail(puts))
          /\ loop' = [loop EXCEPT ![l].pc = "marking"]
     ELSE puts' = Tail(puts) /\ Onward(l) /\ UNCHANGED <<history, early>>
  /\ UNCHANGED <<session, outbox, send, relay>>

-----------------------------------------------------------------------------
(* Messages whose sendBlob, or whose turn in a run of flushOutbox, is in     *)
(* progress.                                                                  *)
Unsettled ==
  {m \in Msgs : \/ send[m] # "idle"
                \/ \E l \in Loops : loop[l].todo # <<>> /\ Head(loop[l].todo) = m}

(* executeWipeLogout: the requests in flight, the outbox and the history in   *)
(* memory stay; fullClearCache empties state.chats.messages, which does not   *)
(* exist.                                                                     *)
Logout ==
  /\ user # None /\ phase = "open"
  /\ user' = None
  /\ cut' = cut \cup Unsettled
  /\ UNCHANGED <<phase, owner, known, entries, outbox, history, disk, saves, send, loop, relay>>

Login(u) ==
  /\ user = None /\ ~Aborting /\ entries < MaxEntries /\ u \in known
  /\ user' = u /\ phase' = "hist" /\ entries' = entries + 1
  /\ cut' = cut \cup Unsettled
  /\ UNCHANGED <<owner, known, outbox, history, disk, saves, send, loop, relay>>

(* A registration saves the history it finds in memory before it goes on as a *)
(* login.                                                                     *)
Register(u) ==
  /\ user = None /\ ~Aborting /\ entries < MaxEntries /\ u \notin known
  /\ known' = known \cup {u}
  /\ user' = u /\ phase' = "hist" /\ entries' = entries + 1
  /\ puts' = Append(puts, Put(u, "hist", history, None))
  /\ cut' = cut \cup Unsettled
  /\ UNCHANGED <<owner, early, outbox, history, disk, send, loop, relay>>

RegisterSaved ==
  /\ Completes(None)
  /\ puts' = Tail(puts)
  /\ UNCHANGED <<session, early, outbox, history, send, loop, relay>>

(* chats.load, then hermesStore.initialize: reads come after earlier writes.  *)
LoadHistory ==
  /\ user # None /\ phase = "hist" /\ puts = <<>>
  /\ history' = hist[user] /\ phase' = "box"
  /\ UNCHANGED <<user, owner, cut, known, entries, outbox, disk, saves, send, loop, relay>>

LoadOutbox ==
  /\ user # None /\ phase = "box" /\ puts = <<>>
  /\ outbox' = box[user] /\ phase' = "open"
  /\ UNCHANGED <<user, owner, cut, known, entries, history, disk, saves, send, loop, relay>>

(* The page is closed or reloaded: only what was written remains.             *)
Reload ==
  /\ user # None
  /\ user' = None /\ phase' = "open"
  /\ cut' = cut \cup Unsettled
  /\ outbox' = <<>> /\ history' = NoHistory /\ puts' = <<>>
  /\ send' = [m \in Msgs |-> "idle"] /\ loop' = [l \in Loops |-> IdleLoop]
  /\ UNCHANGED <<owner, known, entries, early, disk, relay>>

Next ==
  \/ Logout \/ Reload \/ LoadHistory \/ LoadOutbox \/ RegisterSaved \/ ClaimEnds
  \/ \E u \in Users : Login(u) \/ Register(u)
  \/ \E m \in Msgs :
       Send(m) \/ SendDone(m) \/ SendQueued(m) \/ Queued(m)
  \/ \E l \in Loops : FlushStart(l) \/ Kept(l) \/ Removing(l) \/ Removed(l)

LoopSteps(l) == Kept(l) \/ Removing(l) \/ Removed(l)

(* The timer flushes every 15 s, a request ends by its timeout, IndexedDB     *)
(* completes its writes, the relay forgets a nonce; and a request that is     *)
(* made again and again is some time answered.                                *)
Fairness ==
  /\ WF_vars(LoadHistory) /\ WF_vars(LoadOutbox) /\ WF_vars(RegisterSaved)
  /\ \A m \in Msgs :
       WF_vars(SendDone(m) \/ SendQueued(m)) /\ WF_vars(Queued(m))
  /\ \A l \in Loops : WF_vars(FlushStart(l)) /\ WF_vars(LoopSteps(l))
  /\ \A l \in Loops, m \in Msgs : SF_vars(Removing(l) /\ Head(loop[l].todo) = m)
  /\ WF_vars(ClaimEnds)

Spec == Init /\ [][Next]_vars /\ Fairness

-----------------------------------------------------------------------------
TypeOK ==
  /\ user \in Users \cup {None} /\ phase \in {"hist", "box", "open"}
  /\ owner \in [Msgs -> Users \cup {None}]
  /\ InBox(outbox) \subseteq Msgs
  /\ history \in [Msgs -> {"none", "pending", "sent"}]
  /\ \A u \in Users : InBox(box[u]) \subseteq Msgs
  /\ hist \in [Users -> [Msgs -> {"none", "pending", "sent"}]]
  /\ \A i \in 1..Len(puts) : puts[i].user \in Users \cup {None} /\ puts[i].what \in {"box", "hist"}
  /\ send \in [Msgs -> {"idle", "posting", "queueing", "storing"}]
  /\ \A l \in Loops : loop[l].pc \in {"idle", "posting", "removing", "marking"}
                      /\ loop[l].token \in BOOLEAN /\ InBox(loop[l].todo) \subseteq Msgs
  /\ claimed \subseteq Msgs /\ early \subseteq Users /\ cut \subseteq Msgs /\ known \subseteq Users
  /\ accepted \in [Msgs -> 0..2]

(* A message a chat shows as pending, on disk as well as on the screen, is in *)
(* an outbox on disk or already with the relay: no order of answers, writes,  *)
(* overlapping flushes, logouts, logins and reloads leaves it pending and     *)
(* forgotten. (Two exceptions: a logout between the click and the answer,     *)
(* which finds the vault closed when the message should be queued; and the    *)
(* answer of an earlier session that comes while the next login is loading.)  *)
PendingIsKept ==
  \A u \in Users \ early, m \in Msgs \ cut : hist[u][m] = "pending" /\ owner[m] = u =>
    accepted[m] > 0 \/ \E v \in Users : m \in InBox(box[v])

(* A chat says "sent" only of what the relay accepted.                        *)
SentIsAccepted ==
  \A m \in Msgs :
    (history[m] = "sent" \/ \E u \in Users : hist[u][m] = "sent") => accepted[m] > 0

(* A message that has left the outbox does not stay pending on the screen     *)
(* (the fear told in flushOutbox): its status is found, since the write that  *)
(* adds it to the outbox completes, and addMessage runs, before the write     *)
(* that removes it. Only a reload or a change of session between the answer   *)
(* and the last write leaves such a message, or a list saved before it was    *)
(* loaded.                                                                    *)
PendingIsQueued ==
  \A m \in Msgs \ cut :
    user \notin early \cup {None} /\ phase = "open" /\ history[m] = "pending" /\ owner[m] = user =>
      \/ m \in InBox(outbox)
      \/ \E l \in Loops : loop[l].pc = "removing" /\ Head(loop[l].todo) = m

(* Whatever waits in the outbox of a session that stays open leaves it: a     *)
(* lost answer makes the retries fail as replays only until the nonce is      *)
(* forgotten.                                                                 *)
OutboxDrains ==
  \A m \in Msgs :
    (user # None /\ owner[m] = user /\ m \in InBox(outbox))
      ~> (m \notin InBox(outbox) \/ owner[m] # user)

(* The chat history, the outbox and the relay agree on what has been sent,   *)
(* over logouts, reloads and overlapping flushes.                            *)
NothingForgotten == PendingIsKept /\ SentIsAccepted /\ PendingIsQueued

-----------------------------------------------------------------------------
(* What the repository says and the code does not keep: TLC refutes it.      *)

(* What MemorySanitizer.fullClearCache says it does ("Purga exhaustiva de     *)
(* todo estado residual al cerrar sesion") and what the store says it keeps   *)
(* ("namespaced por usuario"): nothing of one account is ever written under   *)
(* the name of another.                                                       *)
NothingOfOthers ==
  \A u \in Users, m \in Msgs :
    hist[u][m] # "none" \/ m \in InBox(box[u]) => owner[m] = u

(* What the login says when it loads the outbox ("Hidratar el outbox          *)
(* (namespaced por usuario) ahora que setUserId ya corrio"): by then an       *)
(* answer to a request of the previous session may have saved the list of     *)
(* that session under the new name, and what waited there is gone.            *)
LoadedBeforeSaved == early = {}
=============================================================================
