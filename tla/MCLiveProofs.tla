------------------------------- MODULE MCLiveProofs -------------------------------
(* The connections of the server, the preparation of the WASM module and one *)
(* message of a direct chat, for any sockets, users, callers and texts. A    *)
(* step is one of the part that runs, so that the invariants hold together.  *)
EXTENDS MCLive, FiniteSetTheorems, TLAPS

-----------------------------------------------------------------------------
(* The gateway: what it keeps of a connection is that of a live one.         *)

(* A registered socket is one of the user's whose handler is still inside    *)
(* its try block.                                                            *)
RegisteredAreServing ==
  \A u \in Users, s \in Sockets :
    s \in connections[u] => Owner[s] = u /\ phase[s] \in Serving

(* A user with a public status has a handler that will take it away.         *)
StatusIsServed ==
  \A u \in Users : status[u] # "absent" =>
    \E s \in Sockets : Owner[s] = u /\ phase[s] \in Serving

(* What AliveStaysRegistered says of an open socket holds from connect() on. *)
AliveAreRegistered ==
  \A s \in Sockets :
    phase[s] \in {"auth", "open"} /\ s \notin gone => s \in connections[Owner[s]]

(* A send that failed would fail again: what a send_blob drops at its end is *)
(* still dead then, however old its copy of the sockets is.                  *)
DeadStayDead ==
  \A f \in Fanouts : fanout[f] # NoFanout =>
    \A s \in fanout[f].dead : Fails(s)

GatewayInv ==
  /\ TypeOK /\ RegisteredAreServing /\ StatusIsServed
  /\ AliveAreRegistered /\ DeadStayDead

-----------------------------------------------------------------------------
LEMMA GatewayInit == Init => GatewayInv
  BY OwnerAssumption
  DEF Init, GatewayInv, TypeOK, Phases, NoFanout, Serving, RegisteredAreServing,
      StatusIsServed, AliveAreRegistered, DeadStayDead

LEMMA TypeStep == TypeOK /\ [Next]_vars => TypeOK'
<1> SUFFICES ASSUME TypeOK, [Next]_vars PROVE TypeOK'
  OBVIOUS
<1> USE OwnerAssumption DEF TypeOK, Phases, managerVars
<1>1. ASSUME NEW s \in Sockets, Open(s) PROVE TypeOK'
  BY <1>1 DEF Open
<1>2. ASSUME NEW s \in Sockets, AcceptFails(s) PROVE TypeOK'
  BY <1>2 DEF AcceptFails
<1>3. ASSUME NEW s \in Sockets, Connect(s) PROVE TypeOK'
  BY <1>3 DEF Connect
<1>4. ASSUME NEW s \in Sockets, NEW show \in BOOLEAN, AuthOk(s, show) PROVE TypeOK'
  BY <1>4 DEF AuthOk, Shown
<1>5. ASSUME NEW s \in Sockets, NEW show \in BOOLEAN, StatusUpdate(s, show)
      PROVE TypeOK'
  BY <1>5 DEF StatusUpdate, Shown
<1>6. ASSUME NEW s \in Sockets, AuthTimeout(s) PROVE TypeOK'
  BY <1>6 DEF AuthTimeout
<1>7. ASSUME NEW s \in Sockets, EndRejected(s) PROVE TypeOK'
  BY <1>7 DEF EndRejected, Disconnect, Release
<1>8. ASSUME NEW s \in Sockets, EndRejectedAbruptly(s) PROVE TypeOK'
  BY <1>8 DEF EndRejectedAbruptly, Disconnect, Release
<1>9. ASSUME NEW s \in Sockets, ServerCloses(s) PROVE TypeOK'
  BY <1>9 DEF ServerCloses
<1>10. ASSUME NEW s \in Sockets, End(s) PROVE TypeOK'
  BY <1>10 DEF End, Disconnect, Release
<1>11. ASSUME NEW s \in Sockets, PeerGone(s) PROVE TypeOK'
  BY <1>11 DEF PeerGone
<1>12. ASSUME NEW f \in Fanouts, NEW u \in Users, FanoutStart(f, u) PROVE TypeOK'
  BY <1>12 DEF FanoutStart
<1>13. ASSUME NEW f \in Fanouts, NEW s \in Sockets, FanoutSend(f, s) PROVE TypeOK'
  <2>1. [fanout[f] EXCEPT !.left = @ \ {s}, !.sent = @ \/ ~Fails(s),
                          !.dead = IF Fails(s) THEN @ \cup {s} ELSE @]
          \in [user : Users, left : SUBSET Sockets, sent : BOOLEAN,
               dead : SUBSET Sockets]
    BY <1>13 DEF FanoutSend, Fails
  <2> QED
    BY <1>13, <2>1 DEF FanoutSend
<1>14. ASSUME NEW f \in Fanouts, FanoutEnd(f) PROVE TypeOK'
  BY <1>14 DEF FanoutEnd
<1>16. CASE UNCHANGED vars
  BY <1>16 DEF vars
<1> QED
  BY <1>1, <1>2, <1>3, <1>4, <1>5, <1>6, <1>7, <1>8, <1>9, <1>10, <1>11, <1>12,
     <1>13, <1>14, <1>16 DEF Next

(* Nothing but send_blob's own steps adds to what it will drop, and a socket *)
(* on which sends fail never works again.                                    *)
LEMMA FailingForGood ==
  ASSUME TypeOK, [Next]_vars, NEW s \in Sockets, Fails(s)
  PROVE  Fails(s)'
<1> USE DEF TypeOK, Phases, managerVars, Fails
<1>1. ASSUME NEW r \in Sockets, Open(r) PROVE Fails(s)'
  BY <1>1 DEF Open
<1>2. ASSUME NEW r \in Sockets, AcceptFails(r) PROVE Fails(s)'
  BY <1>2 DEF AcceptFails
<1>3. ASSUME NEW r \in Sockets, Connect(r) PROVE Fails(s)'
  BY <1>3 DEF Connect
<1>4. ASSUME NEW r \in Sockets, NEW show \in BOOLEAN, AuthOk(r, show) PROVE Fails(s)'
  BY <1>4 DEF AuthOk
<1>5. ASSUME NEW r \in Sockets, AuthTimeout(r) PROVE Fails(s)'
  BY <1>5 DEF AuthTimeout
<1>6. ASSUME NEW r \in Sockets, EndRejected(r) PROVE Fails(s)'
  BY <1>6 DEF EndRejected
<1>7. ASSUME NEW r \in Sockets, EndRejectedAbruptly(r) PROVE Fails(s)'
  BY <1>7 DEF EndRejectedAbruptly
<1>8. ASSUME NEW r \in Sockets, ServerCloses(r) PROVE Fails(s)'
  BY <1>8 DEF ServerCloses
<1>9. ASSUME NEW r \in Sockets, End(r) PROVE Fails(s)'
  BY <1>9 DEF End
<1>10. ASSUME NEW r \in Sockets, PeerGone(r) PROVE Fails(s)'
  BY <1>10 DEF PeerGone
<1>11. ASSUME UNCHANGED <<phase, gone>> PROVE Fails(s)'
  BY <1>11
<1> QED
  BY <1>1, <1>2, <1>3, <1>4, <1>5, <1>6, <1>7, <1>8, <1>9, <1>10, <1>11
  DEF Next, vars, StatusUpdate, FanoutStart, FanoutSend, FanoutEnd

(* The steps of a handler leave the calls of send_blob alone.                *)
LEMMA DeadKept ==
  ASSUME GatewayInv, [Next]_vars, UNCHANGED fanout
  PROVE  DeadStayDead'
<1> SUFFICES ASSUME NEW f \in Fanouts, fanout[f] # NoFanout, NEW s \in fanout[f].dead
             PROVE  Fails(s)'
  BY DEF DeadStayDead
<1>1. s \in Sockets /\ Fails(s)
  BY DEF GatewayInv, TypeOK, DeadStayDead, NoFanout
<1> QED
  BY <1>1, FailingForGood DEF GatewayInv

(* A handler leaves its try block: whatever it did, or send_blob before it,  *)
(* its user keeps no registration of it and no status without another socket.*)
LEMMA DisconnectStep ==
  ASSUME GatewayInv, NEW s \in Sockets, phase[s] \in Serving, Disconnect(s),
         phase' = [phase EXCEPT ![s] = "closed"], UNCHANGED gone
  PROVE  RegisteredAreServing' /\ StatusIsServed' /\ AliveAreRegistered'
<1> USE OwnerAssumption DEF GatewayInv, TypeOK, Serving
<1>1. RegisteredAreServing'
  BY DEF RegisteredAreServing, Disconnect
<1>2. StatusIsServed'
  <2> SUFFICES ASSUME NEW u \in Users, status'[u] # "absent"
               PROVE  \E r \in Sockets : Owner[r] = u /\ phase'[r] \in Serving
    BY DEF StatusIsServed
  <2>1. CASE u = Owner[s]
    <3>1. PICK r \in Sockets \ {s} : r \in connections[u]
      BY <2>1 DEF Disconnect
    <3> QED
      BY <2>1, <3>1 DEF RegisteredAreServing
  <2>2. CASE u # Owner[s]
    BY <2>2 DEF StatusIsServed, Disconnect
  <2> QED
    BY <2>1, <2>2
<1>3. AliveAreRegistered'
  BY DEF AliveAreRegistered, Disconnect
<1> QED
  BY <1>1, <1>2, <1>3

LEMMA GatewayStep == GatewayInv /\ [Next]_vars => GatewayInv'
<1> SUFFICES ASSUME GatewayInv, [Next]_vars PROVE GatewayInv'
  OBVIOUS
<1> DEFINE Kept == RegisteredAreServing' /\ StatusIsServed' /\ AliveAreRegistered'
<1> USE DEF GatewayInv, RegisteredAreServing, StatusIsServed, AliveAreRegistered
<1>t. TypeOK'
  BY TypeStep
<1>1. ASSUME NEW s \in Sockets, Open(s) PROVE Kept
  BY <1>1 DEF Open, managerVars, TypeOK, Serving
<1>2. ASSUME NEW s \in Sockets, AcceptFails(s) PROVE Kept
  BY <1>2 DEF AcceptFails, managerVars, TypeOK, Serving
<1>3. ASSUME NEW s \in Sockets, Connect(s) PROVE Kept
  <2> USE <1>3, OwnerAssumption DEF Connect, TypeOK, Serving
  <2>1. RegisteredAreServing'
    OBVIOUS
  <2>2. StatusIsServed'
    <3>1. phase'[s] \in Serving /\ \A r \in Sockets \ {s} : phase'[r] = phase[r]
      OBVIOUS
    <3>2. \A u \in Users \ {Owner[s]} : status'[u] = status[u]
      OBVIOUS
    <3> QED
      BY <3>1, <3>2
  <2>3. AliveAreRegistered'
    <3>1. s \in connections'[Owner[s]]
      OBVIOUS
    <3>2. \A u \in Users : connections[u] \subseteq connections'[u]
      OBVIOUS
    <3>3. \A r \in Sockets \ {s} : phase'[r] = phase[r]
      OBVIOUS
    <3> QED
      BY <3>1, <3>2, <3>3
  <2> QED
    BY <2>1, <2>2, <2>3
<1>4. ASSUME NEW s \in Sockets, NEW show \in BOOLEAN, AuthOk(s, show) PROVE Kept
  BY <1>4, OwnerAssumption DEF AuthOk, TypeOK, Serving
<1>5. ASSUME NEW s \in Sockets, NEW show \in BOOLEAN, StatusUpdate(s, show)
      PROVE  Kept
  BY <1>5, OwnerAssumption DEF StatusUpdate, TypeOK, Serving
<1>6. ASSUME NEW s \in Sockets, AuthTimeout(s) PROVE Kept
  BY <1>6 DEF AuthTimeout, managerVars, TypeOK, Serving
<1>7. ASSUME NEW s \in Sockets, EndRejected(s) PROVE Kept
  BY <1>7, DisconnectStep DEF EndRejected, Serving
<1>8. ASSUME NEW s \in Sockets, EndRejectedAbruptly(s) PROVE Kept
  BY <1>8, DisconnectStep DEF EndRejectedAbruptly, Serving
<1>9. ASSUME NEW s \in Sockets, ServerCloses(s) PROVE Kept
  BY <1>9 DEF ServerCloses, managerVars, TypeOK, Serving
<1>10. ASSUME NEW s \in Sockets, End(s) PROVE Kept
  BY <1>10, DisconnectStep DEF End, Serving
<1>11. ASSUME NEW s \in Sockets, PeerGone(s) PROVE Kept
  BY <1>11 DEF PeerGone, managerVars
<1>12. ASSUME NEW f \in Fanouts, NEW u \in Users, FanoutStart(f, u)
       PROVE  Kept /\ DeadStayDead'
  <2>1. Kept
    BY <1>12 DEF FanoutStart, managerVars
  <2>2. DeadStayDead'
    BY <1>12 DEF FanoutStart, TypeOK, DeadStayDead, Fails
  <2> QED
    BY <2>1, <2>2
<1>13. ASSUME NEW f \in Fanouts, NEW s \in Sockets, FanoutSend(f, s)
       PROVE  Kept /\ DeadStayDead'
  <2>1. Kept
    BY <1>13 DEF FanoutSend, managerVars
  <2>2. DeadStayDead'
    BY <1>13 DEF FanoutSend, TypeOK, DeadStayDead, Fails
  <2> QED
    BY <2>1, <2>2
<1>14. ASSUME NEW f \in Fanouts, FanoutEnd(f) PROVE Kept /\ DeadStayDead'
  <2>1. Kept
    BY <1>14 DEF FanoutEnd, TypeOK, DeadStayDead, Fails
  <2>2. DeadStayDead'
    BY <1>14 DEF FanoutEnd, TypeOK, DeadStayDead, Fails
  <2> QED
    BY <2>1, <2>2
<1>15. ASSUME UNCHANGED fanout PROVE DeadStayDead'
  BY <1>15, DeadKept
<1>16. ASSUME UNCHANGED vars PROVE Kept /\ DeadStayDead'
  BY <1>16, <1>15 DEF vars
<1>17. ASSUME \E s \in Sockets :
              \/ Open(s) \/ AcceptFails(s) \/ Connect(s)
              \/ \E show \in BOOLEAN : AuthOk(s, show) \/ StatusUpdate(s, show)
              \/ AuthTimeout(s) \/ EndRejected(s) \/ EndRejectedAbruptly(s)
              \/ ServerCloses(s) \/ End(s) \/ PeerGone(s)
      PROVE Kept /\ DeadStayDead'
  <2>1. UNCHANGED fanout
    BY <1>17 DEF Open, AcceptFails, Connect, AuthOk, StatusUpdate, AuthTimeout,
                 EndRejected, EndRejectedAbruptly, ServerCloses, End, PeerGone
  <2>2. Kept
    BY <1>1, <1>2, <1>3, <1>4, <1>5, <1>6, <1>7, <1>8, <1>9, <1>10, <1>11, <1>17
  <2> QED
    BY <1>15, <2>1, <2>2
<1> HIDE DEF Kept
<1>18. Kept /\ DeadStayDead'
  BY <1>12, <1>13, <1>14, <1>16, <1>15, <1>17 DEF Next, vars
<1> QED
  BY <1>18, <1>t DEF Kept

-----------------------------------------------------------------------------
(* The bridge. An attempt past the check of its hash works on genuine bytes; *)
(* once ready no other attempt begins, and only then something is computed.  *)
WasmInv ==
  /\ Wasm!TypeOK
  /\ initPromise \in {"load", "selftest"} => bytes = "genuine"
  /\ initPromise = "selftest" => loaded = "genuine"
  /\ ready => initPromise = None /\ mode = "wasm_active" /\ loaded = "genuine"
  /\ \A c \in Callers : outcome[c] = "executed" => ready

LEMMA WasmInit == Wasm!Init => WasmInv
  BY NoneAssumption DEF Wasm!Init, WasmInv, Wasm!TypeOK

LEMMA WasmStep == WasmInv /\ [Wasm!Next]_wasmVars => WasmInv'
<1> SUFFICES ASSUME WasmInv, [Wasm!Next]_wasmVars PROVE WasmInv'
  OBVIOUS
<1> USE NoneAssumption DEF WasmInv, Wasm!TypeOK
<1>1. ASSUME NEW c \in Callers, Wasm!InitCall(c) PROVE WasmInv'
  BY <1>1 DEF Wasm!InitCall
<1>2. ASSUME NEW c \in Callers,
             NEW m \in Wasm!Implemented \cup Wasm!NotImplemented, Wasm!Invoke(c, m)
      PROVE  WasmInv'
  <2>1. outcome' \in [Callers -> {None, "ready", "rejected", "executed",
                                  "not ready", "not implemented"}]
    BY <1>2 DEF Wasm!Invoke
  <2>2. \A d \in Callers : outcome'[d] = "executed" => ready
    BY <1>2 DEF Wasm!Invoke, Wasm!AssertReady
  <2> QED
    BY <1>2, <2>1, <2>2 DEF Wasm!Invoke
<1>3. ASSUME NEW b \in {"genuine", "altered"}, Wasm!Fetched(b) PROVE WasmInv'
  BY <1>3 DEF Wasm!Fetched
<1>4. ASSUME Wasm!HashChecked PROVE WasmInv'
  BY <1>4 DEF Wasm!HashChecked
<1>5. ASSUME Wasm!Loaded PROVE WasmInv'
  BY <1>5 DEF Wasm!Loaded
<1>6. ASSUME Wasm!SelfTestPassed PROVE WasmInv'
  BY <1>6 DEF Wasm!SelfTestPassed, Wasm!Answered
<1>7. ASSUME Wasm!AttemptFailed PROVE WasmInv'
  <2>1. ~ready
    BY <1>7 DEF Wasm!AttemptFailed
  <2> QED
    BY <1>7, <2>1 DEF Wasm!AttemptFailed, Wasm!Answered
<1>8. CASE UNCHANGED wasmVars
  BY <1>8 DEF wasmVars
<1> QED
  BY <1>1, <1>2, <1>3, <1>4, <1>5, <1>6, <1>7, <1>8 DEF Wasm!Next

-----------------------------------------------------------------------------
(* One message of a direct chat. Nothing is known of it before it is sent;   *)
(* what was not disturbed by a loss, a repetition or a crossing is on its    *)
(* way: a message that arrives is followed by its receipts, an edit by those *)
(* after it, a deletion or a view by the word of it.                         *)
Way(type) == Talk!Blob(type, User, 0) \in net

TheMessage == Talk!Blob("message", User, 1)

Edited(n) == Talk!Blob("edit", User, n) \in net

TalkNet ==
  \A b \in net :
    /\ b.type = "message" => b = TheMessage
    /\ b.type \notin {"message", "edit"} => b.n = 0
    /\ b.type = "edit" => b.n \in 2..text

(* Read says that the chat was chosen when the message was there.            *)
TalkRead ==
  /\ Way("read") => shown[User]
  /\ readBy # {} => shown[User]
  /\ talkStatus = "read" => readBy = {User}

TalkBefore ==
  /\ talkPhase = "new" =>
       /\ net = {} /\ copy[User] = None /\ text = 1
       /\ ~shown[User]
  /\ talkPhase # "stored" => ~own /\ talkStatus = "none"
  /\ eph => text = 1

(* The author has his copy, or will have it with the answer.                 *)
Standing == own \/ talkPhase = "sending"

(* Where the message is: on its way, or at its receiver, or looked at.       *)
TalkCopy ==
  ~disturbed /\ talkPhase # "new" =>
    /\ last = User
    /\ TheMessage \in net => copy[User] = None /\ ~Way("viewed") /\ ~shown[User]
    /\ Way("viewed") => copy[User] = None
    /\ Standing => /\ ~Way("delete")
                   /\ copy[User] = None => TheMessage \in net \/ Way("viewed")
    /\ talkPhase = "stored" /\ ~own =>
         \/ Way("delete")
         \/ copy[User] = None /\ TheMessage \notin net

(* Every edit after the version of the receiver is on its way.               *)
TalkEdits ==
  ~disturbed =>
    /\ copy[User] # None =>
         copy[User] <= text /\ \A n \in (copy[User] + 1)..text : Edited(n)
    /\ TheMessage \in net => \A n \in 2..text : Edited(n)

(* And so are the receipts.                                                  *)
TalkTicks ==
  ~disturbed =>
    /\ shown[User] /\ Standing => Way("read") \/ talkStatus = "read"
    /\ Standing => \/ talkStatus \in {"delivered", "read"}
                   \/ TheMessage \in net \/ Way("delivered")

TalkInv ==
  /\ Talk!TypeOK /\ TalkNet /\ TalkRead /\ TalkBefore
  /\ TalkCopy /\ TalkEdits /\ TalkTicks

LEMMA TalkDirect == ~Talk!Group
<1>1. Cardinality({User}) = 1
  BY FS_Singleton
<1>2. Talk!Cardinality({User}) = Cardinality({User})
  BY DEF Talk!Cardinality, Cardinality
<1> QED
  BY <1>1, <1>2 DEF Talk!Group

LEMMA BlobsDiffer ==
  \A t1, t2, m, n : Talk!Blob(t1, User, m) = Talk!Blob(t2, User, n) <=> t1 = t2 /\ m = n
  BY DEF Talk!Blob

LEMMA BlobOf ==
  \A t, n : LET b == Talk!Blob(t, User, n) IN b.type = t /\ b.n = n /\ b.who = User
  BY DEF Talk!Blob

LEMMA TalkInit == Talk!Init => TalkInv
<1> SUFFICES ASSUME Talk!Init PROVE TalkInv
  OBVIOUS
<1> USE NoneAssumption, TextsAssumption DEF Talk!Init
<1>1. Talk!TypeOK
  <2>1. talkStatus \in DOMAIN Talk!Rank
    BY DEF Talk!Rank
  <2>2. chosen \in [{User} -> BOOLEAN] /\ talkOpen \in [{User} -> BOOLEAN]
    OBVIOUS
  <2>3. copy \in [{User} -> (1..MaxTexts) \cup {None}] /\ shown \in [{User} -> BOOLEAN]
    OBVIOUS
  <2>4. text \in 1..MaxTexts
    OBVIOUS
  <2> QED
    BY <2>1, <2>2, <2>3, <2>4 DEF Talk!TypeOK
<1>2. TalkNet /\ TalkRead /\ TalkBefore
  BY DEF TalkNet, TalkRead, TalkBefore, Way
<1>3. TalkCopy /\ TalkEdits /\ TalkTicks
  BY DEF TalkCopy, TalkEdits, TalkTicks, Standing, TheMessage, Way
<1> QED
  BY <1>1, <1>2, <1>3 DEF TalkInv

LEMMA TalkDisturbed == ASSUME disturbed' PROVE TalkCopy' /\ TalkEdits' /\ TalkTicks'
  BY DEF TalkCopy, TalkEdits, TalkTicks

(* What is on the way is one of these.                                       *)
LEMMA TalkBlobs ==
  ASSUME TalkInv, NEW b \in net
  PROVE  /\ b = Talk!Blob(b.type, User, b.n)
         /\ b.type \in {"message", "delivered", "read", "edit", "delete", "viewed"}
         /\ b.n \in 0..MaxTexts
         /\ b.type \in {"delivered", "read", "delete", "viewed"} =>
              b = Talk!Blob(b.type, User, 0)
         /\ b.type = "message" => b = TheMessage /\ b.n = 1
  BY DEF TalkInv, Talk!TypeOK, TalkNet, Talk!Blob, TheMessage

LEMMA SendStep ==
  ASSUME TalkInv, NEW reached \in SUBSET {User}, Talk!SendMessage(reached)
  PROVE  TalkInv'
<1> USE NoneAssumption, TextsAssumption, BlobsDiffer, BlobOf DEF Talk!SendMessage, TalkInv
<1>1. reached = {} \/ reached = {User}
  OBVIOUS
<1>2. net' = IF reached = {} THEN {} ELSE {TheMessage}
  BY <1>1 DEF TheMessage
<1>3. last' \in {None, User}
  BY <1>1
<1>4. Talk!TypeOK'
  <2>1. net' \subseteq [type : {"message", "delivered", "read", "edit", "delete", "viewed"},
                    who : {User}, n : 0..MaxTexts]
    BY <1>2 DEF TheMessage, Talk!Blob
  <2>2. disturbed' \in BOOLEAN
    OBVIOUS
  <2> QED
    BY <1>3, <2>1, <2>2 DEF Talk!TypeOK, Talk!receivers
<1>n. TalkNet'
  BY <1>2 DEF TalkNet, TheMessage
<1>5. TalkRead' /\ TalkBefore'
  BY <1>2 DEF TalkRead, TalkBefore, Way, TheMessage, Talk!receivers
<1>6. CASE disturbed'
  BY <1>6, <1>4, <1>n, <1>5 DEF TalkCopy, TalkEdits, TalkTicks
<1>7. CASE ~disturbed'
  <2>r. reached = {User}
    BY <1>1, <1>7
  <2>1. net' = {TheMessage} /\ last' = User
    BY <2>r, <1>2
  <2>3. ~Way("viewed")' /\ ~Way("delete")'
    BY <2>1, BlobsDiffer DEF Way, TheMessage
  <2>2. copy' = copy /\ copy[User] = None /\ text' = 1 /\ ~own' /\ shown' = shown /\ ~shown[User]
    BY DEF TalkBefore, Talk!receivers
  <2>6. TalkCopy'
    BY <2>1, <2>2, <2>3 DEF TalkCopy
  <2>4. TalkEdits'
    BY <2>2 DEF TalkEdits
  <2>5. TalkTicks'
    BY <2>1, <2>2 DEF TalkTicks
  <2> QED
    BY <1>4, <1>n, <1>5, <2>6, <2>4, <2>5
<1> QED
  BY <1>6, <1>7

LEMMA StoredStep ==
  ASSUME TalkInv, Talk!Stored
  PROVE  TalkInv'
<1> USE NoneAssumption, TextsAssumption DEF Talk!Stored, TalkInv
<1>4. Talk!TypeOK'
  <2>1. talkStatus' \in DOMAIN Talk!Rank
    BY DEF Talk!Rank
  <2> QED
    BY <2>1 DEF Talk!TypeOK, Talk!receivers
<1>n. TalkNet'
  BY DEF TalkNet, TheMessage
<1>5. TalkRead' /\ TalkBefore'
  BY DEF TalkRead, TalkBefore, Way, TheMessage, Talk!receivers
<1>6. TalkCopy'
  BY DEF TalkCopy, Standing, Way, TheMessage, Talk!receivers
<1>8. TalkEdits'
  BY DEF TalkEdits, Way, TheMessage, Edited, Talk!receivers
<1>7. TalkTicks'
  BY DEF TalkTicks, TalkBefore, Standing, Way, TheMessage, Talk!receivers
<1> QED
  BY <1>4, <1>n, <1>5, <1>6, <1>7, <1>8

(* The receiver takes a blob, or its copy.                                   *)
LEMMA ReceiptStep ==
  ASSUME TalkInv, NEW b \in net, NEW again \in BOOLEAN, Talk!ReceiptArrives(b, again)
  PROVE  TalkInv'
<1> USE NoneAssumption, TextsAssumption DEF TalkInv
<1> DEFINE d == IF b.type = "delivered" THEN deliveredBy \cup {b.who} ELSE deliveredBy
           v == IF b.type = "read" THEN readBy \cup {b.who} ELSE readBy
<1>1. /\ b.who = User /\ b.type \in {"delivered", "read"}
      /\ b = Talk!Blob(b.type, User, 0)
  BY TalkBlobs DEF Talk!ReceiptArrives, Talk!TypeOK
<1>2. /\ UNCHANGED <<eph, talkPhase, last, own, viewedBy, text, copy, chosen, talkOpen, shown>>
      /\ net' \in {net, net \ {b}}
      /\ disturbed' = (disturbed \/ again \/ talkPhase # "stored")
      /\ ~again => net' = net \ {b}
  BY DEF Talk!ReceiptArrives, Talk!receivers
<1>3. deliveredBy \subseteq {User} /\ readBy \subseteq {User} /\ talkStatus \in {"none", "sent", "delivered", "read"}
  BY DEF Talk!TypeOK, Talk!Rank
<1>4. \/ UNCHANGED <<deliveredBy, readBy, talkStatus>> /\ ~(own /\ last = User)
      \/ /\ own /\ last = User
         /\ deliveredBy' = d /\ readBy' = v
         /\ talkStatus' = IF v = {User} THEN "read"
                          ELSE IF d = {User} THEN "delivered" ELSE talkStatus
  <2>1. CASE ~(own /\ last = User)
    BY <1>1, <2>1 DEF Talk!ReceiptArrives, Talk!Found
  <2>2. CASE own /\ last = User
    <3>1. deliveredBy' = d /\ readBy' = v /\ talkStatus' = Talk!StatusAfter(d, v)
      BY <1>1, <2>2 DEF Talk!ReceiptArrives, Talk!Found
    <3>2. v # {User} => talkStatus # "read"
      BY <1>1, <1>3 DEF TalkRead
    <3> HIDE DEF d, v
    <3>3. talkStatus' = IF v = {User} THEN "read"
                          ELSE IF d = {User} THEN "delivered" ELSE talkStatus
      BY <3>1, <3>2 DEF Talk!StatusAfter
    <3> QED
      BY <2>2, <3>1, <3>3
  <2> QED
    BY <2>1, <2>2
<1>5. d \subseteq {User} /\ v \subseteq {User}
  BY <1>1, <1>3
<1>6. Talk!TypeOK'
  <2>1. talkStatus' \in DOMAIN Talk!Rank
    BY <1>4, <1>3 DEF Talk!Rank
  <2>2. deliveredBy' \subseteq {User} /\ readBy' \subseteq {User}
    BY <1>3, <1>4, <1>5
  <2>3. disturbed' \in BOOLEAN
    BY <1>2
  <2> QED
    BY <1>2, <2>1, <2>2, <2>3 DEF Talk!TypeOK
<1>7. TalkNet'
  BY <1>2 DEF TalkNet, TheMessage
<1>8. TalkRead'
  <2>1. b.type = "read" => shown[User]
    BY <1>1 DEF TalkRead, Way
  <2>2. readBy' # {} => shown'[User]
    BY <1>1, <1>2, <1>4, <2>1 DEF TalkRead
  <2>3. talkStatus' = "read" => readBy' = {User}
    BY <1>3, <1>4, <1>5 DEF TalkRead
  <2>4. Way("read")' => shown'[User]
    BY <1>2 DEF TalkRead, Way
  <2> QED
    BY <2>2, <2>3, <2>4 DEF TalkRead
<1>9. TalkBefore'
  BY <1>2, <1>4 DEF TalkBefore
<1>10. CASE disturbed'
  BY <1>10, <1>6, <1>7, <1>8, <1>9 DEF TalkCopy, TalkEdits, TalkTicks
<1>11. CASE ~disturbed'
  <2>1. net' = net \ {b} /\ ~disturbed /\ talkPhase = "stored"
    BY <1>2, <1>11
  <2>2. TheMessage \in net' <=> TheMessage \in net
    BY <1>1, <2>1, BlobsDiffer DEF TheMessage
  <2>3. /\ Way("viewed")' <=> Way("viewed")
        /\ Way("delete")' <=> Way("delete")
    BY <1>1, <2>1, BlobsDiffer DEF Way
  <2>4. \A n : Talk!Blob("edit", User, n) \in net' <=> Talk!Blob("edit", User, n) \in net
    BY <1>1, <2>1, BlobsDiffer
  <2>5. TalkCopy'
    BY <1>2, <2>1, <2>2, <2>3 DEF TalkCopy, Standing
  <2>6. TalkEdits'
    BY <1>2, <2>1, <2>2, <2>4 DEF TalkEdits, Edited
  <2>7. TalkTicks'
    <3> SUFFICES ASSUME own PROVE TalkTicks'
      BY <1>2, <2>1 DEF TalkTicks, Standing
    <3>1. last = User
      BY <2>1 DEF TalkCopy
    <3>2. /\ b.type # "read" /\ Way("read") => Way("read")'
          /\ b.type # "delivered" /\ Way("delivered") => Way("delivered")'
      BY <1>1, <2>1, BlobsDiffer DEF Way
    <3>3. b.type = "read" => talkStatus' = "read"
      BY <1>1, <1>3, <1>4, <3>1
    <3>4. b.type = "delivered" => talkStatus' \in {"delivered", "read"}
      BY <1>1, <1>3, <1>4, <3>1
    <3>5. talkStatus = "read" => talkStatus' = "read"
      BY <1>1, <1>3, <1>4, <3>1 DEF TalkRead
    <3>6. talkStatus = "delivered" => talkStatus' \in {"delivered", "read"}
      BY <1>1, <1>3, <1>4, <3>1
    <3> QED
      BY <1>1, <1>2, <2>1, <2>2, <3>2, <3>3, <3>4, <3>5, <3>6 DEF TalkTicks, Standing
  <2> QED
    BY <1>6, <1>7, <1>8, <1>9, <2>5, <2>6, <2>7
<1> QED
  BY <1>10, <1>11

LEMMA MessageStep ==
  ASSUME TalkInv, NEW b \in net, NEW sent \in SUBSET Talk!Receipts(b.who),
         NEW again \in BOOLEAN, Talk!MessageArrives(b, sent, again)
  PROVE  TalkInv'
<1> USE NoneAssumption, TextsAssumption DEF TalkInv
<1> DEFINE deliveredBlob == Talk!Blob("delivered", User, 0)
           readBlob == Talk!Blob("read", User, 0)
<1>1. b.who = User /\ b = TheMessage /\ b.n = 1
  BY TalkBlobs DEF Talk!MessageArrives, Talk!TypeOK
<1>2. /\ Talk!Receipts(User) = {deliveredBlob} \cup (IF chosen[User] THEN {readBlob} ELSE {})
      /\ sent \subseteq Talk!Receipts(User)
  BY <1>1 DEF Talk!Receipts
<1>3. /\ UNCHANGED <<eph, talkPhase, last, own, talkStatus, deliveredBy, readBy, viewedBy, text, chosen, talkOpen>>
      /\ copy' = [copy EXCEPT ![User] = IF @ = None THEN 1 ELSE @]
      /\ shown' = [shown EXCEPT ![User] = @ \/ chosen[User]]
      /\ net' = (IF again THEN net ELSE net \ {TheMessage}) \cup sent
      /\ disturbed' = (disturbed \/ again \/ sent # Talk!Receipts(User))
  BY <1>1 DEF Talk!MessageArrives, Talk!author
<1>4. /\ copy'[User] = IF copy[User] = None THEN 1 ELSE copy[User]
      /\ shown'[User] = (shown[User] \/ chosen[User])
  BY <1>3 DEF Talk!TypeOK
<1>5. Talk!TypeOK'
  <2>1. net' \subseteq [type : {"message", "delivered", "read", "edit", "delete", "viewed"},
                    who : {User}, n : 0..MaxTexts]
    BY <1>2, <1>3 DEF Talk!Blob, Talk!TypeOK
  <2>2. copy' \in [{User} -> (1..MaxTexts) \cup {None}]
    BY <1>3 DEF Talk!TypeOK
  <2>3. shown' \in [{User} -> BOOLEAN]
    BY <1>3 DEF Talk!TypeOK
  <2>4. disturbed' \in BOOLEAN
    BY <1>3
  <2> QED
    BY <1>3, <2>1, <2>2, <2>3, <2>4 DEF Talk!TypeOK
<1>6. TalkNet'
  <2> SUFFICES ASSUME NEW e \in net' \ net
               PROVE e.type \in {"delivered", "read"} /\ e.n = 0
    BY <1>3 DEF TalkNet, TheMessage
  <2>1. e \in {deliveredBlob, readBlob}
    BY <1>2, <1>3
  <2> QED
    BY <2>1, BlobOf
<1>7. TalkRead'
  <2>1. Way("read")' => Way("read") \/ chosen[User]
    BY <1>2, <1>3, BlobsDiffer DEF Way
  <2> QED
    BY <1>3, <1>4, <2>1 DEF TalkRead
<1>8. TalkBefore'
  BY <1>3 DEF TalkBefore
<1>9. CASE disturbed'
  BY <1>9, <1>5, <1>6, <1>7, <1>8, TalkDisturbed
<1>10. CASE ~disturbed'
  <2>1. /\ ~disturbed /\ talkPhase # "new"
        /\ net' = (net \ {TheMessage}) \cup {deliveredBlob} \cup (IF chosen[User] THEN {readBlob} ELSE {})
    BY <1>1, <1>2, <1>3, <1>10 DEF TalkBefore
  <2>2. TheMessage \notin net'
    BY <2>1, BlobsDiffer DEF TheMessage
  <2>3. /\ Way("viewed")' <=> Way("viewed")
        /\ Way("delete")' <=> Way("delete")
    BY <2>1, BlobsDiffer DEF Way, TheMessage
  <2>4. \A n : Edited(n) => Edited(n)'
    BY <2>1, BlobsDiffer DEF Edited, TheMessage
  <2>5. Way("delivered")' /\ (chosen[User] => Way("read")')
    BY <2>1 DEF Way
  <2>6. copy[User] = None /\ copy'[User] = 1 /\ ~shown[User] /\ ~Way("viewed")
    BY <1>1, <1>4, <2>1 DEF TalkCopy
  <2>7. TalkCopy'
    BY <1>1, <1>3, <2>1, <2>2, <2>3, <2>6 DEF TalkCopy, Standing
  <2>8. TalkEdits'
    <3>1. text \in Nat \ {0} /\ copy'[User] + 1 = 2
      BY <2>6 DEF Talk!TypeOK
    <3> QED
      BY <1>1, <1>3, <2>1, <2>2, <2>4, <2>6, <3>1 DEF TalkEdits
  <2>9. TalkTicks'
    BY <1>4, <2>5, <2>6 DEF TalkTicks
  <2> QED
    BY <1>5, <1>6, <1>7, <1>8, <2>7, <2>8, <2>9
<1> QED
  BY <1>9, <1>10

LEMMA OpenStep ==
  ASSUME TalkInv, Talk!OpenChat(User)
  PROVE  TalkInv'
<1> USE NoneAssumption, TextsAssumption DEF TalkInv
<1> DEFINE readBlob == Talk!Blob("read", User, 0)
<1>1. /\ UNCHANGED <<eph, talkPhase, last, own, talkStatus, deliveredBy, readBy, viewedBy, text, copy, disturbed>>
      /\ talkOpen' = [talkOpen EXCEPT ![User] = TRUE] /\ chosen' = [chosen EXCEPT ![User] = TRUE]
      /\ shown' = [shown EXCEPT ![User] = @ \/ copy[User] # None]
      /\ net' = IF copy[User] # None THEN net \cup {readBlob} ELSE net
  BY TalkDirect DEF Talk!OpenChat, Talk!author
<1>2. shown'[User] = (shown[User] \/ copy[User] # None)
  BY <1>1 DEF Talk!TypeOK
<1>3. Talk!TypeOK'
  <2>1. net' \subseteq [type : {"message", "delivered", "read", "edit", "delete", "viewed"},
                    who : {User}, n : 0..MaxTexts]
    BY <1>1 DEF Talk!Blob, Talk!TypeOK
  <2>2. /\ talkOpen' \in [{User} -> BOOLEAN] /\ chosen' \in [{User} -> BOOLEAN]
        /\ shown' \in [{User} -> BOOLEAN]
    BY <1>1 DEF Talk!TypeOK
  <2> QED
    BY <1>1, <2>1, <2>2 DEF Talk!TypeOK
<1>4. TalkNet'
  <2> SUFFICES ASSUME NEW e \in net' \ net PROVE e.type = "read" /\ e.n = 0
    BY <1>1 DEF TalkNet, TheMessage
  <2>1. e = readBlob
    BY <1>1
  <2> QED
    BY <2>1, BlobOf
<1>5. TalkRead' /\ TalkBefore'
  <2>1. Way("read")' => Way("read") \/ copy[User] # None
    BY <1>1 DEF Way
  <2> QED
    BY <1>1, <1>2, <2>1 DEF TalkRead, TalkBefore
<1>6. /\ TheMessage \in net' <=> TheMessage \in net
      /\ Way("viewed")' <=> Way("viewed")
      /\ Way("delete")' <=> Way("delete")
  BY <1>1, BlobsDiffer DEF Way, TheMessage
<1>7. /\ \A n : Edited(n) => Edited(n)'
      /\ Way("read") => Way("read")'
      /\ Way("delivered") => Way("delivered")'
      /\ copy[User] # None => Way("read")'
  BY <1>1 DEF Way, Edited
<1>8. TalkCopy'
  BY <1>1, <1>2, <1>6 DEF TalkCopy, Standing
<1>9. TalkEdits'
  BY <1>1, <1>6, <1>7 DEF TalkEdits
<1>10. TalkTicks'
  BY <1>1, <1>2, <1>6, <1>7 DEF TalkTicks, Standing
<1> QED
  BY <1>3, <1>4, <1>5, <1>8, <1>9, <1>10

LEMMA CloseStep ==
  ASSUME TalkInv, NEW other \in BOOLEAN, Talk!CloseChat(User, other)
  PROVE  TalkInv'
<1>1. /\ UNCHANGED <<eph, talkPhase, last, own, talkStatus, deliveredBy, readBy, viewedBy, text, copy, shown, net, disturbed>>
      /\ talkOpen' \in [{User} -> BOOLEAN] /\ chosen' \in [{User} -> BOOLEAN]
  BY DEF Talk!CloseChat, Talk!author, TalkInv, Talk!TypeOK
<1>2. Talk!TypeOK'
  BY <1>1 DEF TalkInv, Talk!TypeOK
<1>3. TalkNet' /\ TalkRead' /\ TalkBefore' /\ TalkCopy'
  BY <1>1 DEF TalkInv, TalkNet, TalkRead, TalkBefore, TalkCopy, Standing, Way, TheMessage
<1>4. TalkEdits' /\ TalkTicks'
  BY <1>1 DEF TalkInv, TalkEdits, TalkTicks, Standing, Way, TheMessage, Edited
<1> QED
  BY <1>2, <1>3, <1>4 DEF TalkInv

(* The author edits or deletes: in a direct chat the blob is sent.           *)
LEMMA ToTheChat ==
  ASSUME NEW type, NEW n
  PROVE  Talk!ToChat(type, n) = {Talk!Blob(type, User, n)}
<1>1. Talk!ToChat(type, n) = {Talk!Blob(type, r, n) : r \in {User}}
  BY TalkDirect DEF Talk!ToChat
<1> QED
  BY <1>1

LEMMA EditStep ==
  ASSUME TalkInv, Talk!Edit
  PROVE  TalkInv'
<1> USE NoneAssumption, TextsAssumption DEF TalkInv
<1> DEFINE edit == Talk!Blob("edit", User, text + 1)
<1>1. /\ own /\ ~eph /\ text < MaxTexts /\ text' = text + 1
      /\ UNCHANGED <<eph, talkPhase, last, own, talkStatus, deliveredBy, readBy, viewedBy, copy, chosen, talkOpen, shown, disturbed>>
      /\ net' = net \cup {edit}
  BY ToTheChat DEF Talk!Edit, Talk!receivers
<1>2. text \in Nat \ {0} /\ text' \in 1..MaxTexts
  BY <1>1 DEF Talk!TypeOK
<1>3. Talk!TypeOK'
  <2>1. net' \subseteq [type : {"message", "delivered", "read", "edit", "delete", "viewed"},
                    who : {User}, n : 0..MaxTexts]
    BY <1>1, <1>2 DEF Talk!Blob, Talk!TypeOK
  <2> QED
    BY <1>1, <1>2, <2>1 DEF Talk!TypeOK
<1>4. TalkNet'
  <2> SUFFICES ASSUME NEW e \in net'
               PROVE  /\ e.type = "message" => e = TheMessage
                      /\ e.type \notin {"message", "edit"} => e.n = 0
                      /\ e.type = "edit" => e.n \in 2..(text + 1)
    BY <1>1 DEF TalkNet, TheMessage
  <2>1. CASE e = edit
    <3>1. e.type = "edit" /\ e.n = text + 1
      BY <2>1, BlobOf
    <3> QED
      BY <1>2, <3>1
  <2>2. CASE e \in net
    <3>1. e.type = "edit" => e.n \in 2..text
      BY <2>2 DEF TalkNet
    <3>2. 2..text \subseteq 2..(text + 1)
      BY <1>2
    <3> QED
      BY <2>2, <3>1, <3>2 DEF TalkNet
  <2> QED
    BY <1>1, <2>1, <2>2
<1>5. \A t \in {"message", "read", "delivered", "viewed", "delete"} : \A n :
        Talk!Blob(t, User, n) \in net' <=> Talk!Blob(t, User, n) \in net
  BY <1>1, BlobsDiffer
<1>6. TalkRead' /\ TalkBefore'
  BY <1>1, <1>5 DEF TalkRead, TalkBefore, Way
<1>7. TalkCopy'
  BY <1>1, <1>5 DEF TalkCopy, Standing, Way, TheMessage
<1>8. TalkTicks'
  BY <1>1, <1>5 DEF TalkTicks, Standing, Way, TheMessage
<1>9. TalkEdits'
  <2>1. \A n : Edited(n) => Edited(n)'
    BY <1>1 DEF Edited
  <2>0. PICK t : t = text + 1
    OBVIOUS
  <2>2. Edited(t)'
    BY <1>1, <2>0 DEF Edited
  <2>3. TheMessage \in net' <=> TheMessage \in net
    BY <1>5 DEF TheMessage
  <2>4. copy[User] # None => copy[User] \in Nat
    BY DEF Talk!TypeOK
  <2>5. \A k \in Nat : \A n \in k..text' : n \in k..text \/ n = t
    BY <1>1, <1>2, <2>0
  <2> HIDE DEF edit
  <2>6. ~disturbed /\ copy[User] # None =>
          copy[User] <= text' /\ \A n \in (copy[User] + 1)..text' : Edited(n)'
    BY <1>1, <1>2, <2>1, <2>2, <2>4, <2>5 DEF TalkEdits
  <2>7. ~disturbed /\ TheMessage \in net => \A n \in 2..text' : Edited(n)'
    BY <1>1, <1>2, <2>1, <2>2, <2>5 DEF TalkEdits
  <2> QED
    BY <1>1, <2>3, <2>6, <2>7 DEF TalkEdits
<1> QED
  BY <1>3, <1>4, <1>6, <1>7, <1>8, <1>9

LEMMA DeleteStep ==
  ASSUME TalkInv, Talk!DeleteForAll
  PROVE  TalkInv'
<1> USE NoneAssumption, TextsAssumption DEF TalkInv
<1> DEFINE delete == Talk!Blob("delete", User, 0)
<1>1. /\ own /\ ~own'
      /\ UNCHANGED <<eph, talkPhase, last, talkStatus, deliveredBy, readBy, viewedBy, text, copy, chosen, talkOpen, shown, disturbed>>
      /\ net' = net \cup {delete}
  BY ToTheChat DEF Talk!DeleteForAll, Talk!receivers
<1>2. talkPhase = "stored"
  BY <1>1 DEF TalkBefore
<1>3. Talk!TypeOK'
  <2>1. net' \subseteq [type : {"message", "delivered", "read", "edit", "delete", "viewed"},
                    who : {User}, n : 0..MaxTexts]
    BY <1>1 DEF Talk!Blob, Talk!TypeOK
  <2>2. own' \in BOOLEAN
    BY DEF Talk!DeleteForAll
  <2> QED
    BY <1>1, <2>1, <2>2 DEF Talk!TypeOK
<1>4. TalkNet'
  <2> SUFFICES ASSUME NEW e \in net' \ net PROVE e.type = "delete" /\ e.n = 0
    BY <1>1 DEF TalkNet, TheMessage
  <2>1. e = delete
    BY <1>1
  <2> QED
    BY <2>1, BlobOf
<1>5. \A t \in {"message", "read", "delivered", "viewed", "edit"} : \A n :
        Talk!Blob(t, User, n) \in net' <=> Talk!Blob(t, User, n) \in net
  BY <1>1, BlobsDiffer
<1>6. TalkRead' /\ TalkBefore'
  BY <1>1, <1>2, <1>5 DEF TalkRead, TalkBefore, Way
<1>7. TalkCopy'
  <2>1. Way("delete")'
    BY <1>1 DEF Way
  <2> QED
    BY <1>1, <1>2, <1>5, <2>1 DEF TalkCopy, Standing, Way, TheMessage
<1>8. TalkTicks'
  BY <1>1, <1>2 DEF TalkTicks, Standing
<1>9. TalkEdits'
  BY <1>1, <1>5 DEF TalkEdits, Edited, TheMessage
<1> QED
  BY <1>3, <1>4, <1>6, <1>7, <1>8, <1>9

(* Blobs the receiver or the author takes.                                   *)
LEMMA EditArrivesStep ==
  ASSUME TalkInv, NEW b \in net, Talk!EditArrives(b)
  PROVE  TalkInv'
<1> USE NoneAssumption, TextsAssumption DEF TalkInv
<1>1. /\ b.who = User /\ b.type = "edit" /\ b.n \in 2..text
      /\ b = Talk!Blob("edit", User, b.n)
  BY TalkBlobs DEF Talk!EditArrives, Talk!TypeOK, TalkNet
<1>2. /\ UNCHANGED <<eph, talkPhase, last, own, talkStatus, deliveredBy, readBy, viewedBy, text, chosen, talkOpen, shown>>
      /\ net' \in {net, net \ {b}}
      /\ copy' = [copy EXCEPT ![User] = IF @ = None THEN None ELSE b.n]
      /\ disturbed' = (disturbed \/ b \in net' \/ copy[User] # b.n - 1)
  BY <1>1 DEF Talk!EditArrives, Talk!Taken, Talk!author
<1>3. text \in 1..MaxTexts /\ copy'[User] = IF copy[User] = None THEN None ELSE b.n
  BY <1>2 DEF Talk!TypeOK
<1>4. Talk!TypeOK'
  <2>1. copy' \in [{User} -> (1..MaxTexts) \cup {None}]
    BY <1>1, <1>2, <1>3 DEF Talk!TypeOK
  <2>2. disturbed' \in BOOLEAN
    BY <1>2
  <2> QED
    BY <1>2, <2>1, <2>2 DEF Talk!TypeOK
<1>5. TalkNet' /\ TalkRead' /\ TalkBefore'
  BY <1>2 DEF TalkNet, TalkRead, TalkBefore, Way, TheMessage
<1>6. CASE disturbed'
  BY <1>4, <1>5, <1>6, TalkDisturbed
<1>7. CASE ~disturbed'
  <2>1. ~disturbed /\ net' = net \ {b} /\ copy[User] = b.n - 1
    BY <1>2, <1>7
  <2>2. copy[User] # None /\ copy'[User] = b.n /\ b.n # None
    BY <1>1, <1>3, <2>1
  <2>3. \A t \in {"message", "read", "delivered", "viewed", "delete"} : \A n :
          Talk!Blob(t, User, n) \in net' <=> Talk!Blob(t, User, n) \in net
    BY <1>1, <2>1, BlobsDiffer
  <2>4. TheMessage \notin net'
    BY <1>2, <2>1, <2>2, <2>3 DEF TalkCopy, TalkBefore, TheMessage
  <2>5. TalkCopy'
    BY <1>2, <2>1, <2>2, <2>3, <2>4 DEF TalkCopy, Standing, Way, TheMessage
  <2>6. TalkTicks'
    BY <1>2, <2>1, <2>3 DEF TalkTicks, Standing, Way, TheMessage
  <2>7. TalkEdits'
    <3>1. \A n : Edited(n) /\ n # b.n => Edited(n)'
      BY <1>1, <2>1, BlobsDiffer DEF Edited
    <3>2. \A n \in (b.n + 1)..text : n \in (copy[User] + 1)..text /\ n # b.n
      BY <1>1, <1>3, <2>1
    <3>3. b.n <= text
      BY <1>1, <1>3
    <3>4. \A n \in (copy[User] + 1)..text : Edited(n)
      BY <2>1, <2>2 DEF TalkEdits
    <3>5. \A n \in (b.n + 1)..text : Edited(n)'
      BY <3>1, <3>2, <3>4
    <3> QED
      BY <1>2, <2>2, <2>4, <3>3, <3>5 DEF TalkEdits
  <2> QED
    BY <1>4, <1>5, <2>5, <2>6, <2>7
<1> QED
  BY <1>6, <1>7

LEMMA DeleteArrivesStep ==
  ASSUME TalkInv, NEW b \in net, Talk!DeleteArrives(b)
  PROVE  TalkInv'
<1> USE NoneAssumption, TextsAssumption DEF TalkInv
<1>1. b.who = User /\ b.type = "delete" /\ b = Talk!Blob("delete", User, 0)
  BY TalkBlobs DEF Talk!DeleteArrives, Talk!TypeOK
<1>2. /\ UNCHANGED <<eph, talkPhase, last, own, talkStatus, deliveredBy, readBy, viewedBy, text, chosen, talkOpen, shown>>
      /\ net' \in {net, net \ {b}}
      /\ copy' = [copy EXCEPT ![User] = IF eph THEN @ ELSE None]
      /\ disturbed' = (disturbed \/ b \in net' \/ copy[User] = None \/ eph
                             \/ \E e \in net : e.type \in {"edit", "message"})
  BY <1>1 DEF Talk!DeleteArrives, Talk!Taken, Talk!author
<1>3. copy'[User] = IF eph THEN copy[User] ELSE None
  BY <1>2 DEF Talk!TypeOK
<1>4. Talk!TypeOK'
  <2>1. copy' \in [{User} -> (1..MaxTexts) \cup {None}]
    BY <1>2 DEF Talk!TypeOK
  <2>2. disturbed' \in BOOLEAN
    BY <1>2
  <2> QED
    BY <1>2, <2>1, <2>2 DEF Talk!TypeOK
<1>5. TalkNet' /\ TalkRead' /\ TalkBefore'
  BY <1>2 DEF TalkNet, TalkRead, TalkBefore, Way, TheMessage
<1>6. CASE disturbed'
  BY <1>4, <1>5, <1>6, TalkDisturbed
<1>7. CASE ~disturbed'
  <2>1. ~disturbed /\ net' = net \ {b} /\ ~eph /\ copy'[User] = None
    BY <1>2, <1>3, <1>7
  <2>2. TheMessage \notin net
    <3>1. TheMessage.type = "message"
      BY BlobOf DEF TheMessage
    <3> QED
      BY <1>2, <1>7, <3>1
  <2>3. Way("delete") /\ talkPhase # "new"
    BY <1>1 DEF Way, TalkBefore
  <2>4. ~Standing /\ talkPhase = "stored" /\ ~own
    BY <2>1, <2>3 DEF TalkCopy, Standing, Talk!TypeOK
  <2> QED
    BY <1>2, <1>4, <1>5, <2>1, <2>2, <2>3, <2>4 DEF TalkCopy, TalkEdits, TalkTicks, Standing
<1> QED
  BY <1>6, <1>7

LEMMA ViewStep ==
  ASSUME TalkInv, Talk!View(User)
  PROVE  TalkInv'
<1> USE NoneAssumption, TextsAssumption DEF TalkInv
<1> DEFINE viewed == Talk!Blob("viewed", User, 0)
<1>1. /\ eph /\ copy[User] # None
      /\ UNCHANGED <<eph, talkPhase, last, own, talkStatus, deliveredBy, readBy, viewedBy, text, chosen, talkOpen, shown, disturbed>>
      /\ copy' = [copy EXCEPT ![User] = None]
      /\ net' = net \cup {viewed}
  BY DEF Talk!View, Talk!author
<1>2. copy'[User] = None /\ talkPhase # "new"
  BY <1>1 DEF Talk!TypeOK, TalkBefore
<1>3. Talk!TypeOK'
  <2>1. net' \subseteq [type : {"message", "delivered", "read", "edit", "delete", "viewed"},
                    who : {User}, n : 0..MaxTexts]
    BY <1>1 DEF Talk!Blob, Talk!TypeOK
  <2>2. copy' \in [{User} -> (1..MaxTexts) \cup {None}]
    BY <1>1 DEF Talk!TypeOK
  <2> QED
    BY <1>1, <2>1, <2>2 DEF Talk!TypeOK
<1>4. TalkNet'
  <2> SUFFICES ASSUME NEW e \in net' \ net PROVE e.type = "viewed" /\ e.n = 0
    BY <1>1 DEF TalkNet, TheMessage
  <2>1. e = viewed
    BY <1>1
  <2> QED
    BY <2>1, BlobOf
<1>5. \A t \in {"message", "read", "delivered", "delete", "edit"} : \A n :
        Talk!Blob(t, User, n) \in net' <=> Talk!Blob(t, User, n) \in net
  BY <1>1, BlobsDiffer
<1>6. TalkRead' /\ TalkBefore'
  BY <1>1, <1>2, <1>5 DEF TalkRead, TalkBefore, Way
<1>7. TalkCopy'
  <2>1. Way("viewed")'
    BY <1>1 DEF Way
  <2> QED
    BY <1>1, <1>2, <1>5, <2>1 DEF TalkCopy, Standing, Way, TheMessage
<1>8. TalkTicks'
  BY <1>1, <1>5 DEF TalkTicks, Standing, Way, TheMessage
<1>9. TalkEdits'
  BY <1>1, <1>2, <1>5 DEF TalkEdits, Edited, TheMessage
<1> QED
  BY <1>3, <1>4, <1>6, <1>7, <1>8, <1>9

LEMMA ViewedArrivesStep ==
  ASSUME TalkInv, NEW b \in net, Talk!ViewedArrives(b)
  PROVE  TalkInv'
<1> USE NoneAssumption, TextsAssumption DEF TalkInv
<1>1. b.who = User /\ b.type = "viewed" /\ b = Talk!Blob("viewed", User, 0)
  BY TalkBlobs DEF Talk!ViewedArrives, Talk!TypeOK
<1>2. /\ UNCHANGED <<eph, talkPhase, last, talkStatus, deliveredBy, readBy, text, copy, chosen, talkOpen, shown>>
      /\ net' \in {net, net \ {b}}
      /\ IF own /\ last = User THEN viewedBy' = viewedBy \cup {User} /\ own' = FALSE
                               ELSE UNCHANGED <<viewedBy, own>>
      /\ disturbed' = (disturbed \/ b \in net' \/ talkPhase # "stored")
  BY <1>1 DEF Talk!ViewedArrives, Talk!Taken, Talk!receivers, Talk!Found
<1>3. own' \in BOOLEAN /\ viewedBy' \subseteq {User} /\ (own' => own)
  BY <1>2 DEF Talk!TypeOK
<1>4. Talk!TypeOK'
  <2>2. disturbed' \in BOOLEAN
    BY <1>2
  <2> QED
    BY <1>2, <1>3, <2>2 DEF Talk!TypeOK
<1>5. TalkNet' /\ TalkRead' /\ TalkBefore'
  BY <1>2, <1>3 DEF TalkNet, TalkRead, TalkBefore, Way, TheMessage
<1>6. CASE disturbed'
  BY <1>4, <1>5, <1>6, TalkDisturbed
<1>7. CASE ~disturbed'
  <2>1. ~disturbed /\ net' = net \ {b} /\ talkPhase = "stored"
    BY <1>2, <1>7
  <2>2. Way("viewed") /\ last = User /\ copy[User] = None /\ TheMessage \notin net
    BY <1>1, <2>1 DEF Way, TalkCopy
  <2>3. ~own'
    BY <1>2, <2>2 DEF Talk!TypeOK
  <2>4. TalkCopy' /\ TalkTicks'
    BY <1>2, <2>1, <2>2, <2>3 DEF TalkCopy, TalkTicks, Standing, Way, TheMessage
  <2>5. TalkEdits'
    BY <1>2, <2>1, <2>2 DEF TalkEdits, TheMessage
  <2> QED
    BY <1>4, <1>5, <2>4, <2>5
<1> QED
  BY <1>6, <1>7

(* A loss, or a message its receiver deletes.                                *)
LEMMA DisturbedStep ==
  ASSUME TalkInv, Talk!DeleteMine(User) \/ \E b \in net : Talk!Lost(b)
  PROVE  TalkInv'
<1>1. /\ UNCHANGED <<eph, talkPhase, last, own, talkStatus, deliveredBy, readBy, viewedBy, text, chosen, talkOpen, shown>>
      /\ net' \subseteq net /\ disturbed' /\ talkPhase # "new"
      /\ copy' \in {copy, [copy EXCEPT ![User] = None]}
  BY DEF Talk!DeleteMine, Talk!Lost, Talk!author, Talk!receivers, TalkInv, TalkBefore
<1>2. Talk!TypeOK'
  <2>1. copy' \in [{User} -> (1..MaxTexts) \cup {None}]
    BY <1>1 DEF TalkInv, Talk!TypeOK
  <2>2. disturbed' \in BOOLEAN
    BY DEF Talk!DeleteMine, Talk!Lost
  <2> QED
    BY <1>1, <2>1, <2>2 DEF TalkInv, Talk!TypeOK
<1>3. TalkNet' /\ TalkRead' /\ TalkBefore'
  BY <1>1 DEF TalkInv, TalkNet, TalkRead, TalkBefore, Way, TheMessage
<1> QED
  BY <1>1, <1>2, <1>3, TalkDisturbed DEF TalkInv

LEMMA TalkStep == TalkInv /\ [Talk!Next]_talkVars => TalkInv'
<1> SUFFICES ASSUME TalkInv, [Talk!Next]_talkVars PROVE TalkInv'
  OBVIOUS
<1>1. CASE UNCHANGED talkVars
  <2> USE <1>1 DEF talkVars, TalkInv
  <2>1. Talk!TypeOK'
    BY DEF Talk!TypeOK
  <2>2. TalkNet' /\ TalkRead' /\ TalkBefore' /\ TalkCopy'
    BY DEF TalkNet, TalkRead, TalkBefore, TalkCopy, Standing, Way, TheMessage
  <2>3. TalkEdits' /\ TalkTicks'
    BY DEF TalkEdits, TalkTicks, Standing, Way, TheMessage, Edited
  <2> QED
    BY <2>1, <2>2, <2>3
<1>2. CASE \E reached \in SUBSET {User} : Talk!SendMessage(reached)
  BY <1>2, SendStep
<1>3. CASE Talk!Stored \/ Talk!Edit \/ Talk!DeleteForAll
  BY <1>3, StoredStep, EditStep, DeleteStep
<1>4. CASE Talk!OpenChat(User) \/ Talk!View(User) \/ Talk!DeleteMine(User)
           \/ \E other \in BOOLEAN : Talk!CloseChat(User, other)
  BY <1>4, OpenStep, ViewStep, DisturbedStep, CloseStep
<1>5. ASSUME NEW b \in net, Talk!EditArrives(b) \/ Talk!DeleteArrives(b) \/ Talk!ViewedArrives(b) \/ Talk!Lost(b)
      PROVE  TalkInv'
  BY <1>5, EditArrivesStep, DeleteArrivesStep, ViewedArrivesStep, DisturbedStep
<1>6. ASSUME NEW b \in net, NEW again \in BOOLEAN, Talk!ReceiptArrives(b, again)
      PROVE  TalkInv'
  BY <1>6, ReceiptStep
<1>7. ASSUME NEW b \in net, NEW again \in BOOLEAN, NEW sent \in SUBSET Talk!Receipts(b.who),
             Talk!MessageArrives(b, sent, again)
      PROVE  TalkInv'
  BY <1>7, MessageStep
<1> QED
  BY <1>1, <1>2, <1>3, <1>4, <1>5, <1>6, <1>7 DEF Talk!Next

LEMMA TalkAgrees == TalkInv => Talk!BothSidesAgree
<1> SUFFICES ASSUME TalkInv PROVE Talk!DirectInStep /\ Talk!ReadWasChosen
  BY DEF Talk!BothSidesAgree
<1> USE DEF TalkInv
<1>1. Talk!ReadWasChosen
  BY DEF Talk!ReadWasChosen, TalkRead
<1>2. ASSUME Talk!AtRest, ~disturbed
      PROVE  /\ own => (shown[User] => talkStatus = "read") /\ talkStatus # "sent"
             /\ own <=> copy[User] # None
             /\ own => copy[User] = text
  <2> USE <1>2 DEF Talk!AtRest
  <2>1. own => (shown[User] => talkStatus = "read") /\ talkStatus # "sent"
    BY DEF TalkTicks, Standing, Way
  <2>2. own <=> copy[User] # None
    BY DEF TalkCopy, Standing, Way
  <2>3. own => copy[User] = text
    <3> SUFFICES ASSUME own PROVE copy[User] = text
      OBVIOUS
    <3>1. copy[User] \in Nat /\ text \in Nat /\ copy[User] # None
      BY <2>2, TextsAssumption DEF Talk!TypeOK
    <3>2. copy[User] <= text /\ \A n \in (copy[User] + 1)..text : n \notin Nat
      BY <3>1 DEF TalkEdits, Edited
    <3> QED
      BY <3>1, <3>2
  <2> QED
    BY <2>1, <2>2, <2>3
<1>3. Talk!DirectInStep
  BY <1>2 DEF Talk!DirectInStep
<1> QED
  BY <1>1, <1>3

(* A late or repeated receipt leaves the ticks where they are.               *)
LEMMA TicksStep ==
  TalkInv /\ [Talk!Next]_talkVars => Talk!Rank[talkStatus'] >= Talk!Rank[talkStatus]
<1> SUFFICES ASSUME TalkInv, [Talk!Next]_talkVars
             PROVE  Talk!Rank[talkStatus'] >= Talk!Rank[talkStatus]
  OBVIOUS
<1>1. talkStatus \in {"none", "sent", "delivered", "read"}
  BY DEF TalkInv, Talk!TypeOK, Talk!Rank
<1>2. /\ Talk!Rank["none"] = 0 /\ Talk!Rank["sent"] = 1
      /\ Talk!Rank["delivered"] = 2 /\ Talk!Rank["read"] = 3
  BY DEF Talk!Rank
<1>3. CASE UNCHANGED talkStatus
  BY <1>1, <1>2, <1>3
<1>4. CASE Talk!Stored
  BY <1>1, <1>2, <1>4 DEF Talk!Stored, TalkInv, TalkBefore
<1>5. ASSUME NEW b \in net, NEW again \in BOOLEAN, Talk!ReceiptArrives(b, again),
             talkStatus' # talkStatus
      PROVE  talkStatus' = "read" \/ (talkStatus' = "delivered" /\ talkStatus # "read")
  <2>1. PICK d, v : talkStatus' = Talk!StatusAfter(d, v)
    BY <1>5 DEF Talk!ReceiptArrives
  <2> QED
    BY <1>5, <2>1 DEF Talk!StatusAfter
<1>6. CASE \E b \in net, again \in BOOLEAN : Talk!ReceiptArrives(b, again)
  BY <1>1, <1>2, <1>3, <1>5, <1>6
<1>7. UNCHANGED talkStatus \/ Talk!Stored
      \/ \E b \in net, again \in BOOLEAN : Talk!ReceiptArrives(b, again)
  <2> SUFFICES ASSUME ~Talk!Stored,
                      ~\E b \in net, again \in BOOLEAN : Talk!ReceiptArrives(b, again)
               PROVE  UNCHANGED talkStatus
    OBVIOUS
  <2>1. CASE UNCHANGED talkVars
    BY <2>1 DEF talkVars
  <2>2. CASE Talk!Next
    BY <2>2 DEF Talk!Next, Talk!SendMessage, Talk!Edit, Talk!DeleteForAll,
      Talk!OpenChat, Talk!View, Talk!DeleteMine, Talk!CloseChat, Talk!EditArrives,
      Talk!DeleteArrives, Talk!ViewedArrives, Talk!Lost, Talk!MessageArrives, Talk!author
  <2> QED
    BY <2>1, <2>2
<1> QED
  BY <1>3, <1>4, <1>6, <1>7

-----------------------------------------------------------------------------
LiveInv == GatewayInv /\ WasmInv /\ TalkInv

LEMMA PartSteps ==
  ASSUME [PartNext]_partVars
  PROVE  [Next]_vars /\ [Wasm!Next]_wasmVars /\ [Talk!Next]_talkVars
<1>1. CASE UNCHANGED partVars
  BY <1>1 DEF partVars, clientVars
<1>2. CASE PartNext
  BY <1>2 DEF PartNext, clientVars
<1> QED
  BY <1>1, <1>2

LEMMA LiveInit == PartInit => LiveInv
  BY GatewayInit, WasmInit, TalkInit DEF PartInit, LiveInv

LEMMA LiveStep == LiveInv /\ [PartNext]_partVars => LiveInv'
  BY PartSteps, GatewayStep, WasmStep, TalkStep DEF LiveInv

(* The strengthening: registrations are of serving handlers and what is      *)
(* dropped stays dead; only checked bytes are loaded; what was done in a chat *)
(* is either there or on its way.                                            *)
THEOREM Inductive == PartSpec => []LiveInv
  BY LiveInit, LiveStep, PTL DEF PartSpec

(* The tables of the gateway keep their types.                               *)
THEOREM TypeCorrect == PartSpec => []TypeOK
<1>1. LiveInv => TypeOK
  BY DEF LiveInv, GatewayInv
<1> QED
  BY <1>1, Inductive, PTL

(* Registrations and statuses match live connections in every order of       *)
(* disconnect(), release() and the two halves of send_blob.                  *)
THEOREM RegistrationsCorrect == PartSpec => []RegistrationsMatch
<1>1. GatewayInv => NothingLeftBehind
  BY DEF GatewayInv, RegisteredAreServing, StatusIsServed, NothingLeftBehind, TypeOK
<1>2. GatewayInv => AliveStaysRegistered
  BY DEF GatewayInv, AliveAreRegistered, AliveStaysRegistered
<1>3. LiveInv => RegistrationsMatch
  BY <1>1, <1>2 DEF LiveInv, RegistrationsMatch
<1> QED
  BY <1>3, Inductive, PTL

(* crypto_wasm_bridge.js: for any number of callers of init and attempts that *)
(* fail and are made again, a method of the API runs in a module whose hash   *)
(* and self test have passed.                                                *)
THEOREM ComputedByChecked == PartSpec => []OnlyVerified
<1>1. LiveInv => OnlyVerified
  BY DEF LiveInv, WasmInv, OnlyVerified, Wasm!OnlyVerified
<1> QED
  BY <1>1, Inductive, PTL

(* sync_manager.js, processIncomingBlob: in a direct chat in which nothing    *)
(* was lost, repeated or crossed, both sides have the same text, or none, once*)
(* all has arrived; and whatever happened, read means that the chat was       *)
(* chosen while the message was there.                                       *)
THEOREM SidesAgree == PartSpec => []BothSidesAgree
<1>1. LiveInv => BothSidesAgree
  BY TalkAgrees DEF LiveInv, TalkInv, BothSidesAgree
<1> QED
  BY <1>1, Inductive, PTL

(* The ticks of a message never go back, in whatever order and however often  *)
(* its receipts come.                                                        *)
THEOREM NeverBack == PartSpec => TicksOnlyRise
<1>1. LiveInv /\ [PartNext]_partVars =>
        [Talk!Rank[talkStatus'] >= Talk!Rank[talkStatus]]_Talk!vars
  BY PartSteps, TicksStep DEF LiveInv
<1> QED
  BY <1>1, Inductive, PTL DEF PartSpec, TicksOnlyRise, Talk!TicksOnlyRise
=============================================================================
