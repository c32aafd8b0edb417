-------------------------- MODULE MCConnectionProofs --------------------------
(* The keys of a vault are those the server has, for any number of accounts,  *)
(* of logins on the page (managers) and of requests of each in progress, in   *)
(* whatever order they are answered: but for the vaults that were given keys  *)
(* registered for another account.                                            *)
EXTENDS MCConnection, TLAPS

(* A request is of the user the storage had when it began; before the first   *)
(* login there is none, and nothing that could begin one.                     *)
RequestsOfUsers ==
  /\ \A c \in Calls : calls[c] # Idle => calls[c].pc # "idle" /\ calls[c].of \in Users
  /\ open => sid \in Users
  /\ sid \notin Users =>
       /\ \A m \in Managers : boot[m] = "new" /\ ~poll[m] /\ socket[m] = "none"
       /\ \A c \in Calls : calls[c] = Idle

ConnectionInv == TypeOK /\ RequestsOfUsers /\ AdoptedAreRegistered

Requests == [pc : {"idle", "keys", "login", "fetch", "first", "again"},
             of : Users \cup {None}, key : 0..MaxKeys,
             then : {"login", "fetch", "first"}]
Boots == {"new", "logs in", "polls", "first", "on"}
Sockets == {"none", "opening", "open", "closing", "waiting"}

-----------------------------------------------------------------------------
LEMMA InitInv == Init => ConnectionInv
<1> SUFFICES ASSUME Init PROVE ConnectionInv
  OBVIOUS
<1> USE KeysAssumption DEF Init
<1>1. Idle \in Requests
  BY DEF Idle, Requests
<1>4. disk \in [Users -> 0..MaxKeys] /\ server \in [Users -> 0..MaxKeys]
  <2>1. 0 \in 0..MaxKeys /\ 1 \in 0..MaxKeys /\ 1 \in 1..MaxKeys
    OBVIOUS
  <2>2. \A u \in Users : disk[u] \in 0..MaxKeys
    BY <2>1
  <2> QED
    BY <2>2
<1>2. TypeOK
  <2>1. calls \in [Calls -> Requests] /\ token \in [of : Users \cup {None}, valid : BOOLEAN]
    BY <1>1 DEF NoToken
  <2>2. /\ mem \in 0..MaxKeys /\ keys \in 1..MaxKeys /\ pending \subseteq Users
        /\ boot \in [Managers -> Boots] /\ poll \in [Managers -> BOOLEAN]
        /\ socket \in [Managers -> Sockets]
    BY DEF Boots, Sockets
  <2> QED
    BY <1>4, <2>1, <2>2 DEF TypeOK, Requests, Boots, Sockets
<1>3. RequestsOfUsers
  BY DEF RequestsOfUsers, Idle
<1> QED
  BY <1>2, <1>3 DEF ConnectionInv, AdoptedAreRegistered

(* The managers of a call and the keys there are.                             *)
LEMMA Typed ==
  ASSUME TypeOK, RequestsOfUsers, NEW c \in Calls
  PROVE  /\ c[1] \in Managers /\ calls[c] \in Requests /\ Keys \in 0..MaxKeys
         /\ DOMAIN calls = Calls /\ Idle \in Requests
<1>1. c[1] \in Managers
  BY DEF Calls
<1>2. calls[c] \in Requests /\ DOMAIN calls = Calls
  BY DEF TypeOK, Requests
<1>3. Keys \in 0..MaxKeys
  BY DEF Keys, TypeOK, RequestsOfUsers
<1> QED
  BY <1>1, <1>2, <1>3, KeysAssumption DEF Idle, Requests

(* What a step leaves of the requests and of the managers: each has its type, *)
(* a request is of a user, and before the first login there is none.          *)
RequestsKept ==
  /\ calls' \in [Calls -> Requests] /\ boot' \in [Managers -> Boots]
  /\ poll' \in [Managers -> BOOLEAN] /\ socket' \in [Managers -> Sockets]
  /\ RequestsOfUsers'

LEMMA BeginKeeps ==
  ASSUME TypeOK, RequestsOfUsers, NEW c \in Calls, sid \in Users,
         NEW then \in {"fetch", "first"}, Begin(c, then), UNCHANGED session,
         boot' \in [Managers -> Boots], poll' \in [Managers -> BOOLEAN],
         socket' \in [Managers -> Sockets]
  PROVE  RequestsKept
<1>1. [pc |-> IF Keys = 0 THEN "keys" ELSE then, of |-> sid, key |-> Keys, then |-> then]
        \in Requests
  BY Typed DEF Requests
<1>2. calls' \in [Calls -> Requests]
  BY <1>1, Typed DEF Begin
<1>3. \A d \in Calls : calls'[d] # Idle => calls'[d].pc # "idle" /\ calls'[d].of \in Users
  BY Typed DEF Begin, RequestsOfUsers
<1> QED
  BY <1>2, <1>3 DEF RequestsKept, RequestsOfUsers, session

LEMMA FollowKeeps ==
  ASSUME TypeOK, RequestsOfUsers, NEW c \in Calls, calls[c] # Idle, Follow(c),
         UNCHANGED session,
         poll' \in [Managers -> BOOLEAN], socket' \in [Managers -> Sockets]
  PROVE  RequestsKept
<1>1. calls' = [calls EXCEPT ![c] = Idle] /\ sid \in Users
  BY DEF Follow, RequestsOfUsers
<1>2. calls' \in [Calls -> Requests]
  BY <1>1, Typed
<1>3. \A d \in Calls : calls'[d] # Idle => calls'[d].pc # "idle" /\ calls'[d].of \in Users
  BY <1>1, Typed DEF RequestsOfUsers
<1>4. boot' \in [Managers -> Boots]
  BY Typed DEF Follow, TypeOK, Boots
<1> QED
  BY <1>1, <1>2, <1>3, <1>4 DEF RequestsKept, RequestsOfUsers, session

(* A request that goes on is of the same user.                                *)
LEMMA ContinueKeeps ==
  ASSUME TypeOK, RequestsOfUsers, NEW c \in Calls, calls[c] # Idle, UNCHANGED session,
         NEW r \in Requests, calls' = [calls EXCEPT ![c] = r],
         r.pc # "idle", r.of = calls[c].of, UNCHANGED managers
  PROVE  RequestsKept
<1>1. calls' \in [Calls -> Requests] /\ sid \in Users
  BY Typed DEF RequestsOfUsers
<1>2. \A d \in Calls : calls'[d] # Idle => calls'[d].pc # "idle" /\ calls'[d].of \in Users
  BY Typed DEF RequestsOfUsers
<1> QED
  BY <1>1, <1>2 DEF RequestsKept, RequestsOfUsers, session, managers, TypeOK, Boots, Sockets

(* What a step leaves of the rest, if it adopts and registers nothing.        *)
RestKept ==
  /\ user' \in Users \cup {None} /\ open' \in BOOLEAN /\ sid' \in Users \cup {None}
  /\ sync' \in Managers \cup {None}
  /\ token' \in [of : Users \cup {None}, valid : BOOLEAN]
  /\ mem' \in 0..MaxKeys /\ pending' \subseteq Users
  /\ told' \in BOOLEAN /\ forgot' \in BOOLEAN

LEMMA NothingAdopted ==
  ASSUME ConnectionInv, RequestsKept, RestKept,
         UNCHANGED <<disk, keys, crossed>>, forgot' = forgot, UNCHANGED server
  PROVE  ConnectionInv'
  BY DEF ConnectionInv, RequestsKept, RestKept, TypeOK, AdoptedAreRegistered, Requests, Boots,
         Sockets

-----------------------------------------------------------------------------
LEMMA KeysAnsweredKeeps ==
  ASSUME ConnectionInv, NEW c \in Calls, KeysAnswered(c)
  PROVE  ConnectionInv'
<1> DEFINE of == calls[c].of
<1>1. calls[c] # Idle /\ of \in Users /\ sid \in Users /\ calls[c] \in Requests
  BY Typed DEF ConnectionInv, RequestsOfUsers, KeysAnswered, Idle
<1>2. CASE server[of] = 0
  <2> DEFINE r == [calls[c] EXCEPT !.pc = calls[c].then, !.key = keys']
  <2>1. /\ keys' = keys + 1 /\ mem' = keys' /\ server' = [server EXCEPT ![of] = keys']
        /\ Kept(c) /\ calls' = [calls EXCEPT ![c].pc = calls[c].then, ![c].key = keys']
        /\ keys < MaxKeys
    BY <1>2 DEF KeysAnswered
  <2>2. /\ UNCHANGED <<session, managers, token, pending, told, forgot>>
    BY <1>2 DEF KeysAnswered, managers
  <2>3. keys' \in 1..MaxKeys /\ keys' \in 0..MaxKeys /\ keys' # 0
    <3>1. keys \in 1..MaxKeys
      BY DEF ConnectionInv, TypeOK
    <3> QED
      BY <2>1, <3>1, KeysAssumption
  <2>4. r \in Requests /\ r.pc # "idle" /\ r.of = of
    BY <1>1, <2>3 DEF Requests
  <2>5. calls' = [calls EXCEPT ![c] = r]
    BY <2>1
  <2> HIDE DEF r
  <2>6. RequestsKept
    BY <1>1, <2>2, <2>4, <2>5, ContinueKeeps DEF ConnectionInv
  <2>7. /\ disk' \in [Users -> 0..MaxKeys] /\ server' \in [Users -> 0..MaxKeys]
        /\ crossed' \subseteq Users
    BY <1>1, <2>1, <2>3 DEF ConnectionInv, TypeOK, Kept
  <2>8. TypeOK'
    BY <2>1, <2>2, <2>3, <2>6, <2>7
    DEF ConnectionInv, RequestsKept, TypeOK, Requests, Boots, Sockets, session
  <2>9. ASSUME ~forgot', NEW u \in Users \ crossed' PROVE disk'[u] \in {0, server'[u]}
    <3>1. ~forgot /\ u \in Users \ crossed /\ disk[u] \in {0, server[u]}
      BY <2>1, <2>2, <2>9 DEF ConnectionInv, AdoptedAreRegistered, Kept
    <3>2. DOMAIN disk = Users /\ DOMAIN server = Users
      BY DEF ConnectionInv, TypeOK
    <3>3. CASE open /\ u = sid
      <4>1. u = of
        BY <2>1, <2>9, <3>3 DEF Kept
      <4> QED
        BY <2>1, <3>2, <3>3, <4>1 DEF Kept
    <3>4. CASE ~(open /\ u = sid)
      <4>1. disk'[u] = disk[u]
        BY <2>1, <3>2, <3>4 DEF Kept
      <4> QED
        BY <1>2, <2>1, <3>1, <3>2, <4>1
    <3> QED
      BY <3>3, <3>4
  <2> QED
    BY <2>6, <2>8, <2>9 DEF ConnectionInv, RequestsKept, AdoptedAreRegistered
<1>3. CASE server[of] # 0
  <2>1. /\ Follow(c) /\ told' = TRUE
        /\ UNCHANGED <<adopted, server, session, token, pending, poll, socket, forgot>>
    BY <1>3 DEF KeysAnswered
  <2>2. RequestsKept
    BY <1>1, <2>1, FollowKeeps DEF ConnectionInv, TypeOK, Sockets
  <2>3. RestKept
    BY <2>1 DEF RestKept, ConnectionInv, TypeOK, session, adopted
  <2> QED
    BY <2>1, <2>2, <2>3, NothingAdopted DEF adopted
<1> QED
  BY <1>2, <1>3
(* A login begins with the keys of its vault.                                 *)
LEMMA LoginKeeps ==
  ASSUME ConnectionInv, NEW m \in Managers, NEW s \in Slots, NEW u \in Users, Login(m, s, u)
  PROVE  ConnectionInv'
<1> DEFINE c == <<m, s>>
           r == [pc |-> IF disk[u] = 0 THEN "keys" ELSE "login", of |-> u, key |-> disk[u],
                 then |-> "login"]
<1>1. c \in Calls
  BY DEF Calls
<1>2. disk[u] \in 0..MaxKeys
  BY DEF ConnectionInv, TypeOK
<1>3. r \in Requests /\ r.pc # "idle" /\ r.of = u
  BY <1>2 DEF Requests
<1>4. /\ user' = u /\ open' = TRUE /\ sid' = u /\ sync' = m /\ mem' = disk[u]
      /\ boot' = [boot EXCEPT ![m] = "logs in"] /\ calls' = [calls EXCEPT ![c] = r]
      /\ told' = FALSE
      /\ UNCHANGED <<token, disk, server, pending, poll, socket, keys, forgot, crossed>>
  BY DEF Login
<1> HIDE DEF c, r
<1>5. calls' \in [Calls -> Requests]
  BY <1>1, <1>3, <1>4, Typed DEF ConnectionInv, TypeOK, Requests
<1>6. \A d \in Calls : calls'[d] # Idle => calls'[d].pc # "idle" /\ calls'[d].of \in Users
  BY <1>1, <1>3, <1>4, Typed DEF ConnectionInv, RequestsOfUsers
<1>7. RequestsKept
  BY <1>4, <1>5, <1>6
  DEF ConnectionInv, TypeOK, RequestsKept, RequestsOfUsers, Boots, Sockets
<1>8. RestKept
  BY <1>2, <1>4 DEF ConnectionInv, TypeOK, RestKept
<1> QED
  BY <1>4, <1>7, <1>8, NothingAdopted

LEMMA AgainKeeps ==
  ASSUME ConnectionInv, NEW c \in Calls, AgainAnswered(c)
  PROVE  ConnectionInv'
<1> DEFINE of == calls[c].of
<1>1. calls[c] # Idle /\ of \in Users /\ calls[c] \in Requests /\ c[1] \in Managers
  BY Typed DEF ConnectionInv, RequestsOfUsers, AgainAnswered, Idle
<1>2. Follow(c) /\ UNCHANGED <<session, token, adopted, pending, forgot>>
  BY DEF AgainAnswered
<1>3. CASE server[of] = 0
  <2>1. server' = [server EXCEPT ![of] = calls[c].key] /\ UNCHANGED <<poll, socket, told>>
    BY <1>3 DEF AgainAnswered
  <2>2. RequestsKept
    BY <1>1, <1>2, <2>1, FollowKeeps DEF ConnectionInv, TypeOK, Sockets
  <2>3. server' \in [Users -> 0..MaxKeys]
    BY <1>1, <2>1 DEF ConnectionInv, TypeOK, Requests
  <2>4. ASSUME ~forgot', NEW u \in Users \ crossed' PROVE disk'[u] \in {0, server'[u]}
    BY <1>1, <1>2, <1>3, <2>1, <2>4 DEF ConnectionInv, TypeOK, AdoptedAreRegistered, adopted
  <2>5. TypeOK'
    BY <1>2, <2>1, <2>2, <2>3
    DEF ConnectionInv, RequestsKept, TypeOK, Requests, Boots, Sockets, session, adopted
  <2> QED
    BY <2>2, <2>4, <2>5 DEF ConnectionInv, RequestsKept, AdoptedAreRegistered
<1>4. CASE server[of] # 0
  <2>1. Stopped(c[1]) /\ told' = TRUE /\ UNCHANGED server
    BY <1>4 DEF AgainAnswered
  <2>2. poll' \in [Managers -> BOOLEAN] /\ socket' \in [Managers -> Sockets]
    BY <2>1 DEF Stopped, ConnectionInv, TypeOK, Sockets
  <2>3. RequestsKept
    BY <1>1, <1>2, <2>2, FollowKeeps DEF ConnectionInv
  <2>4. RestKept
    BY <1>2, <2>1 DEF RestKept, ConnectionInv, TypeOK, session, adopted
  <2> QED
    BY <1>2, <2>1, <2>3, <2>4, NothingAdopted DEF adopted
<1> QED
  BY <1>3, <1>4

(* The other answers end a request, or let it try again.                      *)
LEMMA AnswersKeep ==
  ASSUME ConnectionInv, NEW c \in Calls,
         LoginAnswered(c) \/ Fetched(c) \/ Fails(c) \/ Refused(c)
  PROVE  ConnectionInv'
<1>1. calls[c] # Idle /\ calls[c].of \in Users /\ calls[c] \in Requests
  BY Typed
  DEF ConnectionInv, RequestsOfUsers, LoginAnswered, Fetched, Fetching, Fails, Refused, Idle
<1>2. UNCHANGED <<session, adopted, server, poll, socket, told, forgot>>
  BY DEF LoginAnswered, Fetched, Fails, Refused, managers
<1>3. token' \in [of : Users \cup {None}, valid : BOOLEAN] /\ pending' \subseteq Users
  <2>1. token' = token \/ token' = [of |-> calls[c].of, valid |-> TRUE]
    BY DEF LoginAnswered, Fetched, Fails, Refused
  <2>2. pending' \subseteq pending
    BY DEF LoginAnswered, Fetched, Fails, Refused
  <2>3. token \in [of : Users \cup {None}, valid : BOOLEAN] /\ pending \subseteq Users
    BY DEF ConnectionInv, TypeOK
  <2>4. [of |-> calls[c].of, valid |-> TRUE] \in [of : Users \cup {None}, valid : BOOLEAN]
    BY <1>1
  <2> QED
    BY <2>1, <2>2, <2>3, <2>4
<1>4. RestKept
  BY <1>2, <1>3 DEF RestKept, ConnectionInv, TypeOK, session, adopted
<1>5. CASE Follow(c)
  <2>1. RequestsKept
    BY <1>1, <1>2, <1>5, FollowKeeps DEF ConnectionInv, TypeOK, Sockets
  <2> QED
    BY <1>2, <1>4, <2>1, NothingAdopted DEF adopted
<1>6. CASE Refused(c)
  <2> DEFINE r == [calls[c] EXCEPT !.pc = "again"]
  <2>1. r \in Requests /\ r.pc # "idle" /\ r.of = calls[c].of
    BY <1>1 DEF Requests
  <2>2. calls' = [calls EXCEPT ![c] = r] /\ UNCHANGED managers
    BY <1>6 DEF Refused
  <2> HIDE DEF r
  <2>3. RequestsKept
    BY <1>1, <1>2, <2>1, <2>2, ContinueKeeps DEF ConnectionInv
  <2> QED
    BY <1>2, <1>4, <2>3, NothingAdopted DEF adopted
<1> QED
  BY <1>5, <1>6 DEF LoginAnswered, Fetched, Fails

(* A poll, and the one after a socket has opened, is of the user there is.    *)
LEMMA BeginningsKeep ==
  ASSUME ConnectionInv, NEW c \in Calls, Polls(c) \/ Poll(c) \/ AuthOk(c)
  PROVE  ConnectionInv'
<1>1. c[1] \in Managers
  BY DEF Calls
<1>2. sid \in Users
  BY <1>1 DEF Polls, Poll, AuthOk, ConnectionInv, RequestsOfUsers
<1>3. PICK then \in {"fetch", "first"} : Begin(c, then)
  BY DEF Polls, Poll, AuthOk
<1>4. UNCHANGED <<session, token, adopted, server, pending, told, forgot>>
  BY DEF Polls, Poll, AuthOk
<1>5. /\ boot' \in [Managers -> Boots] /\ poll' \in [Managers -> BOOLEAN]
      /\ socket' \in [Managers -> Sockets]
  BY DEF Polls, Poll, AuthOk, managers, ConnectionInv, TypeOK, Boots, Sockets
<1>6. RequestsKept
  BY <1>2, <1>3, <1>4, <1>5, BeginKeeps DEF ConnectionInv
<1>7. RestKept
  BY <1>4 DEF RestKept, ConnectionInv, TypeOK, session, adopted
<1> QED
  BY <1>4, <1>6, <1>7, NothingAdopted DEF adopted

(* Sockets, logouts, reloads and what the server does begin no request.       *)
LEMMA OthersKeep ==
  ASSUME ConnectionInv,
         \/ \E m \in Managers : Connect(m) \/ Closed(m)
         \/ \E reached \in BOOLEAN : Logout(reached)
         \/ \E u \in Users : BlobArrives(u)
         \/ Mistyped \/ Reload \/ TokenExpires \/ UNCHANGED vars
  PROVE  ConnectionInv'
<1>1. ASSUME NEW m \in Managers, Connect(m) \/ Closed(m) PROVE ConnectionInv'
  <2>1. /\ UNCHANGED <<session, token, adopted, server, pending, boot, poll, calls, told, forgot>>
        /\ socket' \in [Managers -> Sockets] /\ sid \in Users
    BY <1>1 DEF Connect, Closed, ConnectionInv, TypeOK, RequestsOfUsers, Sockets
  <2>2. RequestsKept /\ RestKept
    BY <2>1 DEF RequestsKept, RestKept, ConnectionInv, TypeOK, RequestsOfUsers, Requests, Boots,
                session, adopted
  <2> QED
    BY <2>1, <2>2, NothingAdopted DEF adopted
<1>2. ASSUME NEW reached \in BOOLEAN, Logout(reached) PROVE ConnectionInv'
  <2>1. /\ UNCHANGED <<sid, sync, disk, server, pending, boot, calls, keys, forgot, told, crossed>>
        /\ open' = FALSE /\ user' = None /\ mem' = 0
        /\ token' \in [of : Users \cup {None}, valid : BOOLEAN]
    BY <1>2 DEF Logout, ConnectionInv, TypeOK, NoToken
  <2>2. Stopped(sync)
    BY <1>2 DEF Logout
  <2>3. poll' \in [Managers -> BOOLEAN] /\ socket' \in [Managers -> Sockets]
    BY <2>2 DEF Stopped, ConnectionInv, TypeOK, Sockets
  <2>4. \A m \in Managers : (~poll[m] => ~poll'[m]) /\ (socket[m] = "none" => socket'[m] = "none")
    BY <2>2 DEF Stopped, ConnectionInv, TypeOK
  <2>5. RequestsKept
    BY <2>1, <2>3, <2>4 DEF RequestsKept, ConnectionInv, TypeOK, RequestsOfUsers, Requests, Boots
  <2>6. RestKept
    <3>1. 0 \in 0..MaxKeys
      BY KeysAssumption
    <3> QED
      BY <2>1, <3>1 DEF RestKept, ConnectionInv, TypeOK
  <2> QED
    BY <2>1, <2>5, <2>6, NothingAdopted
<1>3. ASSUME NEW u \in Users, BlobArrives(u) PROVE ConnectionInv'
  <2>1. /\ UNCHANGED <<session, token, adopted, server, managers, calls, told, forgot>>
        /\ pending' \subseteq Users
    BY <1>3 DEF BlobArrives, ConnectionInv, TypeOK
  <2>2. RequestsKept /\ RestKept
    BY <2>1 DEF RequestsKept, RestKept, ConnectionInv, TypeOK, RequestsOfUsers, Requests, Boots,
                Sockets, session, adopted, managers
  <2> QED
    BY <2>1, <2>2, NothingAdopted DEF adopted
<1>4. ASSUME Mistyped PROVE ConnectionInv'
  <2>1. /\ UNCHANGED <<user, sid, sync, token, adopted, server, pending, managers, calls, told,
                       forgot>>
        /\ open' = FALSE
    BY <1>4 DEF Mistyped
  <2>2. RequestsKept /\ RestKept
    BY <2>1 DEF RequestsKept, RestKept, ConnectionInv, TypeOK, RequestsOfUsers, Requests, Boots,
                Sockets, adopted, managers
  <2> QED
    BY <2>1, <2>2, NothingAdopted DEF adopted
<1>5. ASSUME Reload PROVE ConnectionInv'
  <2>1. /\ UNCHANGED <<sid, token, disk, server, pending, keys, told, forgot, crossed>>
        /\ user' = None /\ open' = FALSE /\ mem' = 0 /\ sync' = None
        /\ boot' = [m \in Managers |-> "new"] /\ poll' = [m \in Managers |-> FALSE]
        /\ socket' = [m \in Managers |-> "none"] /\ calls' = [c \in Calls |-> Idle]
    BY <1>5 DEF Reload
  <2>2. Idle \in Requests
    BY KeysAssumption DEF Idle, Requests
  <2>3. RequestsKept
    BY <2>1, <2>2 DEF RequestsKept, RequestsOfUsers, Boots, Sockets
  <2>4. RestKept
    <3>1. 0 \in 0..MaxKeys
      BY KeysAssumption
    <3> QED
      BY <2>1, <3>1 DEF RestKept, ConnectionInv, TypeOK
  <2> QED
    BY <2>1, <2>3, <2>4, NothingAdopted
<1>6. ASSUME TokenExpires PROVE ConnectionInv'
  <2>1. /\ UNCHANGED <<session, adopted, server, pending, managers, calls, told, forgot>>
        /\ token' \in [of : Users \cup {None}, valid : BOOLEAN]
    BY <1>6 DEF TokenExpires, ConnectionInv, TypeOK
  <2>2. RequestsKept /\ RestKept
    BY <2>1 DEF RequestsKept, RestKept, ConnectionInv, TypeOK, RequestsOfUsers, Requests, Boots,
                Sockets, session, adopted, managers
  <2> QED
    BY <2>1, <2>2, NothingAdopted DEF adopted
<1>7. ASSUME UNCHANGED vars PROVE ConnectionInv'
  <2>1. RequestsKept /\ RestKept
    BY <1>7 DEF vars, RequestsKept, RestKept, ConnectionInv, TypeOK, RequestsOfUsers, Requests,
                Boots, Sockets
  <2> QED
    BY <1>7, <2>1, NothingAdopted DEF vars
<1> QED
  BY <1>1, <1>2, <1>3, <1>4, <1>5, <1>6, <1>7

(* A server that has lost its users has lost their keys: nothing is claimed.  *)
LEMMA ForgettingKeeps ==
  ASSUME ConnectionInv, ServerForgets
  PROVE  ConnectionInv'
<1>1. /\ forgot' = TRUE /\ server' = [u \in Users |-> 0] /\ pending' = {}
      /\ UNCHANGED <<session, token, adopted, managers, calls, told>>
  BY DEF ServerForgets
<1>2. server' \in [Users -> 0..MaxKeys]
  BY <1>1, KeysAssumption
<1>3. TypeOK'
  BY <1>1, <1>2 DEF ConnectionInv, TypeOK, session, adopted, managers
<1>4. RequestsOfUsers'
  BY <1>1 DEF ConnectionInv, RequestsOfUsers, session, managers
<1> QED
  BY <1>1, <1>3, <1>4 DEF ConnectionInv, AdoptedAreRegistered

LEMMA InvStep == ConnectionInv /\ [Next]_vars => ConnectionInv'
<1> SUFFICES ASSUME ConnectionInv, [Next]_vars PROVE ConnectionInv'
  OBVIOUS
<1>1. ASSUME NEW m \in Managers, NEW s \in Slots, NEW u \in Users, Login(m, s, u)
      PROVE  ConnectionInv'
  BY <1>1, LoginKeeps
<1>2. ASSUME NEW c \in Calls, KeysAnswered(c) PROVE ConnectionInv'
  BY <1>2, KeysAnsweredKeeps
<1>3. ASSUME NEW c \in Calls, LoginAnswered(c) \/ Fetched(c) \/ Fails(c) \/ Refused(c)
      PROVE  ConnectionInv'
  BY <1>3, AnswersKeep
<1>4. ASSUME NEW c \in Calls, Polls(c) \/ Poll(c) \/ AuthOk(c) PROVE ConnectionInv'
  BY <1>4, BeginningsKeep
<1>5. ASSUME NEW c \in Calls, AgainAnswered(c) PROVE ConnectionInv'
  BY <1>5, AgainKeeps
<1>6. CASE ServerForgets
  BY <1>6, ForgettingKeeps
<1> QED
  BY <1>1, <1>2, <1>3, <1>4, <1>5, <1>6, OthersKeep DEF Next

(* The strengthening: a request in progress is of a user, and before the first *)
(* login nothing runs that could begin one.                                   *)
THEOREM Inductive == Spec => []ConnectionInv
  BY InitInv, InvStep, PTL DEF Spec

(* sync_manager.js:136-142: the keys of a vault are those the server has for  *)
(* its user, whatever is refused, unanswered or answered after others have    *)
(* logged in, but for a vault that was given the keys of another account.     *)
THEOREM KeysStayRegistered == Spec => []KeysAreRegistered
  BY Inductive, PTL DEF ConnectionInv, KeysAreRegistered
=============================================================================
