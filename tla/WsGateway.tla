------------------------------ MODULE WsGateway ------------------------------
(* The WebSocket side of the relay: websocket_endpoint's connection life     *)
(* cycle, BlindWSManager (who is registered, who is shown online, the fan-   *)
(* out of send_blob) and ConnectionLimiter (load_balancer.py). Every await   *)
(* of the code is a point where another coroutine may run; the code between  *)
(* two awaits is one step. The limit on new connections per second only      *)
(* refuses more, which changes no state, and is left out.                    *)
EXTENDS Naturals, FiniteSets

CONSTANTS
  Sockets,          \* connections; a connection is used once
  Users,            \* id_hash of the accounts
  Owner,            \* socket -> the client_id in its path
  Fanouts,          \* calls of send_blob in progress
  MaxConnections    \* MAX_WS_CONNECTIONS

ASSUME OwnerAssumption == Owner \in [Sockets -> Users]
ASSUME MaxAssumption == MaxConnections \in Nat \ {0}

VARIABLES
  phase,         \* socket -> where its handler is
  gone,          \* sockets whose peer is gone: a send on them raises
  accepted,      \* ConnectionLimiter._active
  connections,   \* active_connections; {} is a user without an entry
  status,        \* public_status; "absent" is a user without an entry
  fanout         \* send_blob call -> its local variables

vars == <<phase, gone, accepted, connections, status, fanout>>
managerVars == <<connections, status>>

Phases == {"new", "accepting", "auth", "rejected", "open", "closing", "closed"}
Serving == {"auth", "rejected", "open", "closing"}   \* the try block is running
Shown(show) == IF show THEN "shown" ELSE "hidden"
NoFanout == [user |-> "none"]

Init ==
  /\ phase = [s \in Sockets |-> "new"]
  /\ gone = {}
  /\ accepted = 0
  /\ connections = [u \in Users |-> {}]
  /\ status = [u \in Users |-> "absent"]
  /\ fanout = [f \in Fanouts |-> NoFanout]

-----------------------------------------------------------------------------
(* can_accept_new and accept: checked and counted without an await between.  *)
Open(s) ==
  /\ phase[s] = "new" /\ accepted < MaxConnections
  /\ phase' = [phase EXCEPT ![s] = "accepting"]
  /\ accepted' = accepted + 1
  /\ UNCHANGED <<gone, managerVars, fanout>>

(* websocket.accept() raises: the exception leaves the handler before its    *)
(* try block, and the slot is not given back.                                *)
AcceptFails(s) ==
  /\ phase[s] = "accepting"
  /\ phase' = [phase EXCEPT ![s] = "closed"]
  /\ UNCHANGED <<gone, accepted, managerVars, fanout>>

(* connect(): registered, and shown online, before the client authenticates. *)
Connect(s) ==
  /\ phase[s] = "accepting"
  /\ phase' = [phase EXCEPT ![s] = "auth"]
  /\ connections' = [connections EXCEPT ![Owner[s]] = @ \cup {s}]
  /\ status' = [status EXCEPT ![Owner[s]] = "shown"]
  /\ UNCHANGED <<gone, accepted, fanout>>

(* A valid "auth" message.                                                   *)
AuthOk(s, show) ==
  /\ phase[s] = "auth"
  /\ phase' = [phase EXCEPT ![s] = "open"]
  /\ status' = [status EXCEPT ![Owner[s]] = Shown(show)]
  /\ UNCHANGED <<gone, accepted, connections, fanout>>

(* Mutant: the first message is awaited without a timeout.                   *)
AuthFailureOnlyIfGone(s) ==
  /\ phase[s] = "auth" /\ s \in gone
  /\ phase' = [phase EXCEPT ![s] = "rejected"]
  /\ UNCHANGED <<gone, accepted, managerVars, fanout>>

(* asyncio.wait_for runs out after WS_AUTH_TIMEOUT_SECONDS, or what came is  *)
(* not a valid "auth": the handler awaits websocket.close() next.            *)
AuthTimeout(s) ==
  /\ phase[s] = "auth"
  /\ phase' = [phase EXCEPT ![s] = "rejected"]
  /\ UNCHANGED <<gone, accepted, managerVars, fanout>>

(* Mutant: nothing to do for a user without an entry.                        *)
DisconnectEarlyReturn(s) ==
  LET u == Owner[s] IN
  /\ connections' = [connections EXCEPT ![u] = @ \ {s}]
  /\ status' = [status EXCEPT ![u] = IF connections[u] = {s} THEN "absent" ELSE @]

(* disconnect(): the socket leaves the set, and the user's public status     *)
(* goes with the last socket.                                                *)
Disconnect(s) ==
  LET u == Owner[s] IN
  /\ connections' = [connections EXCEPT ![u] = @ \ {s}]
  /\ status' = [status EXCEPT ![u] = IF connections[u] \ {s} = {} THEN "absent" ELSE @]

(* Mutant: without max(0, ...).                                              *)
ReleaseBelowZero(n) == accepted' = accepted - n

(* release(), called n times.                                                *)
Release(n) == accepted' = IF accepted >= n THEN accepted - n ELSE 0

(* The authentication failure branch cleans up and returns, and `finally`    *)
(* cleans up once more.                                                      *)
EndRejected(s) ==
  /\ phase[s] = "rejected"
  /\ phase' = [phase EXCEPT ![s] = "closed"]
  /\ Disconnect(s)
  /\ Release(2)
  /\ UNCHANGED <<gone, fanout>>

(* close() raises what the branch does not catch (the transport is gone):    *)
(* only `finally` runs.                                                      *)
EndRejectedAbruptly(s) ==
  /\ phase[s] = "rejected" /\ s \in gone
  /\ phase' = [phase EXCEPT ![s] = "closed"]
  /\ Disconnect(s)
  /\ Release(1)
  /\ UNCHANGED <<gone, fanout>>

(* The server closes the channel (oversized or malformed frame, rate limit): *)
(* the handler awaits websocket.close() and then leaves the try block.       *)
ServerCloses(s) ==
  /\ phase[s] \in {"auth", "open"}
  /\ phase' = [phase EXCEPT ![s] = "closing"]
  /\ UNCHANGED <<gone, accepted, managerVars, fanout>>

(* Every way out of the try block but the one above runs only `finally`: a   *)
(* close of the server's, or a client that went away.                        *)
End(s) ==
  /\ phase[s] \in {"auth", "open", "closing"}
  /\ phase' = [phase EXCEPT ![s] = "closed"]
  /\ Disconnect(s)
  /\ Release(1)
  /\ UNCHANGED <<gone, fanout>>

(* status_update on the active channel.                                      *)
StatusUpdate(s, show) ==
  /\ phase[s] = "open"
  /\ status' = [status EXCEPT ![Owner[s]] = Shown(show)]
  /\ UNCHANGED <<phase, gone, accepted, connections, fanout>>

(* The peer vanishes; its handler finds out later, or a send_blob does.      *)
PeerGone(s) ==
  /\ phase[s] \in Serving /\ s \notin gone
  /\ gone' = gone \cup {s}
  /\ UNCHANGED <<phase, accepted, managerVars, fanout>>

-----------------------------------------------------------------------------
(* send_blob: the user's sockets are copied under the lock...                *)
FanoutStart(f, u) ==
  /\ fanout[f] = NoFanout
  /\ connections[u] # {}
  /\ fanout' = [fanout EXCEPT ![f] = [user |-> u, left |-> connections[u],
                                      sent |-> FALSE, dead |-> {}]]
  /\ UNCHANGED <<phase, gone, accepted, managerVars>>

Fails(s) == s \in gone \/ phase[s] \in {"rejected", "closing", "closed"}

(* ... each is sent the blob without the lock, in the order of the copy...   *)
FanoutSend(f, s) ==
  /\ fanout[f] # NoFanout /\ s \in fanout[f].left
  /\ fanout' = [fanout EXCEPT ![f].left = @ \ {s},
                              ![f].sent = @ \/ ~Fails(s),
                              ![f].dead = IF Fails(s) THEN @ \cup {s} ELSE @]
  /\ UNCHANGED <<phase, gone, accepted, managerVars>>

(* ... and those that failed are dropped, with the user's status if none is  *)
(* left, under the lock again.                                               *)
FanoutEnd(f) ==
  /\ fanout[f] # NoFanout /\ fanout[f].left = {}
  /\ LET u == fanout[f].user
         left == connections[u] \ fanout[f].dead
         drop == fanout[f].dead # {} /\ connections[u] # {}
     IN /\ connections' = IF drop THEN [connections EXCEPT ![u] = left] ELSE connections
        /\ status' = IF drop /\ left = {} THEN [status EXCEPT ![u] = "absent"] ELSE status
  /\ fanout' = [fanout EXCEPT ![f] = NoFanout]
  /\ UNCHANGED <<phase, gone, accepted>>

-----------------------------------------------------------------------------
Next ==
  \/ \E s \in Sockets :
       \/ Open(s) \/ AcceptFails(s) \/ Connect(s)
       \/ \E show \in BOOLEAN : AuthOk(s, show) \/ StatusUpdate(s, show)
       \/ AuthTimeout(s) \/ EndRejected(s) \/ EndRejectedAbruptly(s)
       \/ ServerCloses(s) \/ End(s) \/ PeerGone(s)
  \/ \E f \in Fanouts :
       \/ \E u \in Users : FanoutStart(f, u)
       \/ \E s \in Sockets : FanoutSend(f, s)
       \/ FanoutEnd(f)

(* The event loop runs every ready coroutine: a timer that has expired is    *)
(* served, a handler past its close() goes on, and a send completes.         *)
Fairness ==
  /\ \A s \in Sockets : WF_vars(Connect(s) \/ AcceptFails(s))
                        /\ WF_vars(AuthTimeout(s)) /\ WF_vars(EndRejected(s))
                        /\ WF_vars(phase[s] = "closing" /\ End(s))
  /\ \A f \in Fanouts : WF_vars(FanoutEnd(f))
                        /\ \A s \in Sockets : WF_vars(FanoutSend(f, s))

Spec == Init /\ [][Next]_vars /\ Fairness

-----------------------------------------------------------------------------
TypeOK ==
  /\ phase \in [Sockets -> Phases]
  /\ gone \subseteq Sockets
  /\ accepted \in Nat
  /\ connections \in [Users -> SUBSET Sockets]
  /\ status \in [Users -> {"absent", "shown", "hidden"}]
  /\ fanout \in [Fanouts -> {NoFanout} \cup
                   [user : Users, left : SUBSET Sockets, sent : BOOLEAN,
                    dead : SUBSET Sockets]]

(* Whatever send_blob drops and whichever handlers end, in any order, a user *)
(* none of whose sockets is being served has neither a registration nor a    *)
(* public status left behind (a user would be shown online for ever).        *)
NothingLeftBehind ==
  \A u \in Users :
    (\A s \in Sockets : Owner[s] = u => phase[s] \notin Serving)
      => connections[u] = {} /\ status[u] = "absent"

(* An authenticated socket whose peer is alive stays registered: neither the *)
(* end of another socket of the user nor a send_blob working on an old copy  *)
(* takes it out (messages would go to the queue while the user is online).   *)
AliveStaysRegistered ==
  \A s \in Sockets : phase[s] = "open" /\ s \notin gone => s \in connections[Owner[s]]

(* A connection does not stay unauthenticated: it is let in or closed.       *)
HandshakeEnds ==
  \A s \in Sockets : phase[s] = "accepting" ~> phase[s] \in {"open", "closed"}

(* load_balancer.py:25, README.md:31: the number of simultaneous WebSocket   *)
(* connections is limited.                                                   *)
ConnectionsLimited ==
  Cardinality({s \in Sockets : phase[s] \in Serving}) <= MaxConnections

(* The registered sockets and statuses are those of live connections, in     *)
(* every order of clean-up.                                                  *)
RegistrationsMatch == NothingLeftBehind /\ AliveStaysRegistered
=============================================================================
