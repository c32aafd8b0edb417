---------------------------- MODULE MCChatProofs -----------------------------
(* Contacts and chats, for any users, groups, messages, dialogs and bounds.  *)
(* Each part has an inductive invariant of its own; one part runs and the    *)
(* others keep still, so that all hold together.                             *)
EXTENDS MCChat, SequenceTheorems, TLAPS

-----------------------------------------------------------------------------
(* The lists compared with the server's. While a session is open, what is    *)
(* stored and not in memory was removed; what is about to be saved is in     *)
(* memory or was removed, what is about to be told has been stored; and only *)
(* a list that was replaced is not the live one.                             *)
ListsInv ==
  /\ Lists!TypeOK
  /\ Lists!KnownIsStored
  /\ open => listsVault \subseteq list \cup gone \cup lost
  /\ ~open => \A w \in work : w[1] = "tell"
  /\ \A p \in People : <<"save", p>> \in work => p \in list \cup gone
  /\ \A p \in People : <<"tell", p>> \in work => p \in listsVault \cup gone \cup lost
  /\ ~replaced => read.live

(* Before the first login nothing is known.                                  *)
LEMMA ListsInit == Lists!Init => ListsInv
<1> SUFFICES ASSUME Lists!Init PROVE ListsInv
  OBVIOUS
<1>1. /\ open = FALSE /\ list = {} /\ listsVault = {} /\ server = {} /\ work = {}
      /\ gone = {} /\ lost = {} /\ asked = "no" /\ answer = {}
      /\ read = [live |-> TRUE, copy |-> {}] /\ replaced = FALSE /\ dialog = {} /\ fresh = "no"
  BY DEF Lists!Init, Lists!Live
<1>2. read \in [live : BOOLEAN, copy : SUBSET People] /\ read.live
  BY <1>1
<1>3. Lists!TypeOK BY <1>1, <1>2 DEF Lists!TypeOK
<1>4. Lists!KnownIsStored BY <1>1 DEF Lists!KnownIsStored
<1> QED BY <1>1, <1>2, <1>3, <1>4 DEF ListsInv

(* What the dialog newly names is not in the list.                           *)
AlarmStep == dialog' # dialog /\ dialog' # {} /\ ~replaced => dialog' \cap list = {}

(* Logins, handshakes, removals, answers of the server and losses of storage *)
(* keep it, and raise no false alarm.                                        *)
LEMMA ListsStep ==
  ListsInv /\ [Lists!Next]_listsVars => ListsInv' /\ [AlarmStep]_listsVars
<1> SUFFICES ASSUME ListsInv, [Lists!Next]_listsVars
             PROVE  ListsInv' /\ [AlarmStep]_listsVars
  OBVIOUS
<1>0. /\ open \in BOOLEAN /\ list \subseteq People /\ listsVault \subseteq People
      /\ server \subseteq People /\ gone \subseteq People /\ lost \subseteq People
      /\ work \subseteq ({"save", "tell", "drop"} \X People)
      /\ asked \in {"no", "asking", "answered"} /\ answer \subseteq People
      /\ read \in [live : BOOLEAN, copy : SUBSET People] /\ replaced \in BOOLEAN
      /\ dialog \subseteq People /\ fresh \in {"no", "sent", "done", "answered"}
      /\ server \subseteq listsVault \cup gone \cup lost
      /\ open => listsVault \subseteq list \cup gone \cup lost
      /\ ~open => \A w \in work : w[1] = "tell"
      /\ \A p \in People : <<"save", p>> \in work => p \in list \cup gone
      /\ \A p \in People : <<"tell", p>> \in work => p \in listsVault \cup gone \cup lost
      /\ ~replaced => read.live
  BY DEF ListsInv, Lists!TypeOK, Lists!KnownIsStored
<1> USE DEF ListsInv, Lists!TypeOK, Lists!KnownIsStored, AlarmStep, Lists!Live, listsVars,
            Lists!check, Lists!held, Lists!absent
<1>1. CASE UNCHANGED listsVars BY <1>1
<1>2. CASE Lists!Login BY <1>0, <1>2 DEF Lists!Login
<1>3. CASE Lists!ServerReads BY <1>0, <1>3 DEF Lists!ServerReads
<1>4. CASE Lists!Compared BY <1>0, <1>4 DEF Lists!Compared, Lists!Held
<1>5. CASE Lists!NoAnswer BY <1>0, <1>5 DEF Lists!NoAnswer
<1>6. ASSUME NEW p \in People, Lists!Accept(p)
      PROVE  ListsInv' /\ [AlarmStep]_listsVars
  BY <1>0, <1>6 DEF Lists!Accept
<1>7. ASSUME NEW p \in People, Lists!Saved(p)
      PROVE  ListsInv' /\ [AlarmStep]_listsVars
  BY <1>0, <1>7 DEF Lists!Saved, Lists!Stored
<1>8. ASSUME NEW p \in People, Lists!Remove(p)
      PROVE  ListsInv' /\ [AlarmStep]_listsVars
  <2>1. /\ open' = open /\ list' = list \ {p} /\ listsVault' = listsVault /\ server' = server
        /\ work' = work \cup {<<"drop", p>>} /\ gone' = gone \cup {p} /\ lost' = lost
        /\ asked' = asked /\ answer' = answer /\ dialog' = dialog /\ fresh' = fresh
        /\ replaced' = TRUE /\ open /\ p \in list
    BY <1>8 DEF Lists!Remove, Lists!Replaced
  <2>2. read' \in [live : BOOLEAN, copy : SUBSET People]
    BY <1>0, <1>8 DEF Lists!Remove, Lists!Replaced
  <2>3. <<"drop", p>> \in {"save", "tell", "drop"} \X People
    OBVIOUS
  <2>4. \A q \in People : /\ <<"tell", q>> \in work' => <<"tell", q>> \in work
                         /\ <<"save", q>> \in work' => <<"save", q>> \in work
    BY <2>1
  <2>5. Lists!TypeOK'
    BY <1>0, <2>1, <2>2, <2>3
  <2> QED BY <1>0, <2>1, <2>4, <2>5
<1>9. ASSUME NEW p \in People, Lists!RemovalSaved(p)
      PROVE  ListsInv' /\ [AlarmStep]_listsVars
  BY <1>0, <1>9 DEF Lists!RemovalSaved, Lists!Stored
<1>10. ASSUME NEW p \in People, NEW b \in BOOLEAN, Lists!Told(p, b)
       PROVE  ListsInv' /\ [AlarmStep]_listsVars
  BY <1>0, <1>10 DEF Lists!Told
<1>11. CASE Lists!ChooseOther BY <1>0, <1>11 DEF Lists!ChooseOther
<1>12. CASE Lists!Purged BY <1>0, <1>12 DEF Lists!Purged
<1>13. CASE Lists!PurgeAnswered BY <1>0, <1>13 DEF Lists!PurgeAnswered
<1>14. CASE Lists!PurgeLost BY <1>0, <1>14 DEF Lists!PurgeLost
<1>15. CASE Lists!Forget BY <1>0, <1>15 DEF Lists!Forget, Lists!Replaced
<1>16. ASSUME NEW b \in BOOLEAN, Lists!ChooseFresh(b)
       PROVE  ListsInv' /\ [AlarmStep]_listsVars
  BY <1>0, <1>16 DEF Lists!ChooseFresh
<1>17. CASE Lists!Reload BY <1>0, <1>17 DEF Lists!Reload
<1>18. CASE Lists!StorageLost BY <1>0, <1>18 DEF Lists!StorageLost
<1> HIDE DEF ListsInv, Lists!TypeOK, Lists!KnownIsStored, AlarmStep, Lists!Live, listsVars
<1> QED
  BY <1>1, <1>2, <1>3, <1>4, <1>5, <1>6, <1>7, <1>8, <1>9, <1>10, <1>11, <1>12,
     <1>13, <1>14, <1>15, <1>16, <1>17, <1>18 DEF Lists!Next

-----------------------------------------------------------------------------
(* The handshake of two contacts. What a queue carries, the key of the       *)
(* accept no other answer follows, and what comes last.                      *)
Carries(s, ty) == \E i \in 1..Len(s) : s[i].type = ty
Accepts(s, k) ==
  \E i \in 1..Len(s) :
    /\ s[i].type = "accept" /\ s[i].key = k
    /\ \A j \in 1..Len(s) : j > i => s[j].type \notin {"accept", "reject"}
Ends(s, ty) == s # <<>> /\ s[Len(s)].type = ty

AcceptDue(p, q) == pc[q] = "accepting" \/ Carries(handsNet[p], "accept")
AnswerDue(p, q) ==
  \/ pc[q] \in {"accepting", "rejecting"}
  \/ Carries(handsNet[p], "accept") \/ Carries(handsNet[p], "reject")

HandsTyped ==
  /\ handsRec \in [Parties -> {"none", "sent", "received", "accepted"}]
  /\ handsListed \in [Parties -> BOOLEAN] /\ blocked \in [Parties -> BOOLEAN]
  /\ key \in [Parties -> Hands!Keys \cup {None}] /\ sess \in [Parties -> Hands!Keys \cup {None}]
  /\ handsNet \in [Parties -> Seq(Hands!Messages)] /\ \A p \in Parties : Len(handsNet[p]) <= MaxFlight
  /\ pc \in [Parties -> {"idle", "requesting", "accepting", "rejecting"}]
  /\ offer \in [Parties -> Hands!Keys \cup {None}]
  /\ handsIssued \in 0..MaxKeys /\ unread \in Hands!Types \cup {None} /\ handsDisturbed \in BOOLEAN
  /\ Hands!AcceptedIsListed

(* Without crossings one accept is under way at a time, and its key is the   *)
(* sender's; when no answer is under way the keys are the same.              *)
OneAccept(p, q) == ~(AcceptDue(p, q) /\ AcceptDue(q, p))
SendersKey(p, q) ==
  /\ pc[p] = "accepting" => key[p] \in {offer[p], None}
  /\ pc[q] \notin {"accepting", "rejecting"} =>
       \A k \in Hands!Keys \cup {None} : Accepts(handsNet[p], k) => key[q] \in {k, None}
SameKey(p, q) ==
  ~AnswerDue(p, q) /\ ~AnswerDue(q, p) /\ key[p] # None /\ key[q] # None => key[p] = key[q]

(* Whoever waits has his request on the way, received, or answered.          *)
Waits(p) == handsRec[p] = "sent" \/ pc[p] = "requesting"
Heard(p, q) ==
  \/ Ends(handsNet[q], "request")
  \/ handsRec[q] = "received" /\ handsNet[q] = <<>>
  \/ AnswerDue(p, q)
Asking(p, q) ==
  /\ handsRec[p] = "sent" => pc[p] = "idle"
  /\ pc[p] = "requesting" => handsRec[p] = "none"
  /\ handsRec[p] \in {"none", "sent"} => ~handsListed[p]
  /\ Waits(p) => Heard(p, q)

Calm(p, q) == OneAccept(p, q) /\ SendersKey(p, q) /\ SameKey(p, q) /\ Asking(p, q)

HandsInv ==
  /\ HandsTyped
  /\ ~handsDisturbed => \A p \in Parties : Calm(p, Hands!Other(p))

(* It is stronger than the types of the handshake.                           *)
LEMMA HandsTypes == HandsTyped => Hands!TypeOK
<1> SUFFICES ASSUME HandsTyped PROVE Hands!TypeOK
  OBVIOUS
<1>1. ASSUME NEW p \in Parties, NEW i \in 1..Len(handsNet[p]) PROVE handsNet[p][i] \in Hands!Messages
  <2>1. handsNet[p] \in Seq(Hands!Messages) BY DEF HandsTyped
  <2> QED BY <2>1, ElementOfSeq
<1> QED BY <1>1 DEF HandsTyped, Hands!TypeOK

(* There are two, and each is the other of the other.                        *)
LEMMA TheOther ==
  \A p \in Parties : /\ Hands!Other(p) \in Parties /\ Hands!Other(p) # p /\ Hands!Other(Hands!Other(p)) = p
                     /\ \A r \in Parties : r = p \/ r = Hands!Other(p)
<1>1. PICK p, q \in Parties : p # q /\ Parties = {p, q} BY PartiesAssumption
<1>2. Hands!Other(p) = q /\ Hands!Other(q) = p BY <1>1 DEF Hands!Other
<1> QED BY <1>1, <1>2

(* Before the first request neither knows of the other.                      *)
LEMMA HandsInit == Hands!Init => HandsInv
<1> SUFFICES ASSUME Hands!Init PROVE HandsInv
  OBVIOUS
<1>1. /\ handsRec = [p \in Parties |-> "none"] /\ handsListed = [p \in Parties |-> FALSE]
      /\ key = [p \in Parties |-> None] /\ sess = [p \in Parties |-> None]
      /\ blocked = [p \in Parties |-> FALSE] /\ handsNet = [p \in Parties |-> <<>>]
      /\ pc = [p \in Parties |-> "idle"] /\ offer = [p \in Parties |-> None]
      /\ handsIssued = 0 /\ unread = None /\ handsDisturbed = FALSE
  BY DEF Hands!Init
<1>2. <<>> \in Seq(Hands!Messages) /\ Len(<<>>) = 0 BY EmptySeq
<1>3. HandsTyped
  <2>1. handsIssued \in 0..MaxKeys /\ \A p \in Parties : Len(handsNet[p]) <= MaxFlight
    BY <1>1, <1>2, LimitsAssumption
  <2>2. handsNet \in [Parties -> Seq(Hands!Messages)] BY <1>1, <1>2
  <2>3. Hands!AcceptedIsListed BY <1>1 DEF Hands!AcceptedIsListed
  <2> QED BY <1>1, <2>1, <2>2, <2>3 DEF HandsTyped
<1>4. \A p \in Parties : handsNet[p] = <<>> /\ handsNet[Hands!Other(p)] = <<>> /\ pc[p] = "idle"
                         /\ pc[Hands!Other(p)] = "idle" /\ handsRec[p] = "none" /\ key[p] = None
                         /\ handsListed[p] = FALSE
  BY <1>1, TheOther
<1>5. \A ty, k : ~Carries(<<>>, ty) /\ ~Accepts(<<>>, k) BY <1>2 DEF Carries, Accepts
<1>6. ASSUME NEW p \in Parties PROVE Calm(p, Hands!Other(p))
  BY <1>4, <1>5 DEF Calm, OneAccept, AcceptDue, SendersKey, SameKey, Asking, Waits
<1> QED BY <1>3, <1>6 DEF HandsInv

(* A message more, and the first one less.                                   *)
LEMMA Appended ==
  ASSUME NEW S, NEW s \in Seq(S), NEW m \in S
  PROVE  /\ Append(s, m) \in Seq(S) /\ Len(Append(s, m)) = Len(s) + 1 /\ Len(s) \in Nat
         /\ \A ty : Carries(Append(s, m), ty) <=> Carries(s, ty) \/ m.type = ty
         /\ \A k : Accepts(Append(s, m), k) <=>
              IF m.type \in {"accept", "reject"} THEN m.type = "accept" /\ m.key = k ELSE Accepts(s, k)
         /\ \A ty : Ends(Append(s, m), ty) <=> m.type = ty
<1> DEFINE n == Len(s)
           t == Append(s, m)
<1>1. /\ t \in Seq(S) /\ Len(t) = n + 1 /\ n \in Nat
      /\ \A i \in 1..n : t[i] = s[i]
      /\ t[n + 1] = m
  BY AppendProperties, LenProperties
<1>2. t # <<>> BY <1>1, EmptySeq
<1> HIDE DEF t, n
<1>3. \A i : i \in 1..n + 1 <=> i \in 1..n \/ i = n + 1 BY <1>1
<1>4. ASSUME NEW ty PROVE Carries(t, ty) <=> Carries(s, ty) \/ m.type = ty
  BY <1>1, <1>3 DEF Carries, n
<1>5. ASSUME NEW ty PROVE Ends(t, ty) <=> m.type = ty
  BY <1>1, <1>2 DEF Ends
<1>6. ASSUME NEW k, m.type \in {"accept", "reject"} PROVE Accepts(t, k) <=> m.type = "accept" /\ m.key = k
  BY <1>1, <1>3, <1>6 DEF Accepts
<1>7. ASSUME NEW k, m.type \notin {"accept", "reject"} PROVE Accepts(t, k) <=> Accepts(s, k)
  <2>1. ASSUME Accepts(s, k) PROVE Accepts(t, k)
    BY <1>1, <1>3, <1>7, <2>1 DEF Accepts, n
  <2>2. ASSUME Accepts(t, k) PROVE Accepts(s, k)
    BY <1>1, <1>3, <1>7, <2>2 DEF Accepts, n
  <2> QED BY <2>1, <2>2
<1> QED BY <1>1, <1>4, <1>5, <1>6, <1>7 DEF t, n

(* The first message is taken.                                               *)
LEMMA Popped ==
  ASSUME NEW S, NEW s \in Seq(S), s # <<>>
  PROVE  /\ Tail(s) \in Seq(S) /\ Len(Tail(s)) <= Len(s) /\ Head(s) \in S
         /\ \A ty : Carries(s, ty) <=> Carries(Tail(s), ty) \/ Head(s).type = ty
         /\ \A k : Accepts(Tail(s), k) => Accepts(s, k)
         /\ Head(s).type = "accept" /\ ~Carries(Tail(s), "accept") /\ ~Carries(Tail(s), "reject")
              => Accepts(s, Head(s).key)
         /\ \A ty : Ends(s, ty) => Ends(Tail(s), ty) \/ (Tail(s) = <<>> /\ Head(s).type = ty)
<1> DEFINE n == Len(s)
           t == Tail(s)
<1>1. /\ t \in Seq(S) /\ Len(t) = n - 1 /\ n \in Nat /\ n # 0
      /\ \A i \in 1..Len(t) : t[i] = s[i + 1]
      /\ Head(s) = s[1] /\ Head(s) \in S
  BY HeadTailProperties, LenProperties, EmptySeq
<1> HIDE DEF t, n
<1>2. \A i \in 1..n - 1 : i + 1 \in 1..n /\ t[i] = s[i + 1] BY <1>1
<1>3. \A i \in 1..n : i # 1 => i - 1 \in 1..n - 1 /\ s[i] = t[i - 1] BY <1>1
<1>4. 1 \in 1..n BY <1>1
<1>5. ASSUME NEW ty PROVE Carries(s, ty) <=> Carries(t, ty) \/ Head(s).type = ty
  <2>1. ASSUME Carries(s, ty) PROVE Carries(t, ty) \/ Head(s).type = ty
    BY <1>1, <1>3, <2>1 DEF Carries, n
  <2>2. ASSUME Carries(t, ty) \/ Head(s).type = ty PROVE Carries(s, ty)
    BY <1>1, <1>2, <1>4, <2>2 DEF Carries, n
  <2> QED BY <2>1, <2>2
<1>6. ASSUME NEW k, Accepts(t, k) PROVE Accepts(s, k)
  <2>1. PICK i \in 1..n - 1 : /\ t[i].type = "accept" /\ t[i].key = k
                             /\ \A j \in 1..n - 1 : j > i => t[j].type \notin {"accept", "reject"}
    BY <1>1, <1>6 DEF Accepts
  <2>2. i + 1 \in 1..n /\ s[i + 1] = t[i] BY <1>2
  <2>3. ASSUME NEW j \in 1..n, j > i + 1 PROVE s[j].type \notin {"accept", "reject"}
    <3>1. j - 1 \in 1..n - 1 /\ s[j] = t[j - 1] /\ j - 1 > i BY <1>1, <1>3, <2>3
    <3> QED BY <2>1, <3>1
  <2> QED BY <2>1, <2>2, <2>3 DEF Accepts, n
<1>7. ASSUME Head(s).type = "accept", ~Carries(t, "accept"), ~Carries(t, "reject") PROVE Accepts(s, Head(s).key)
  <2>1. ASSUME NEW j \in 1..n, j > 1 PROVE s[j].type \notin {"accept", "reject"}
    <3>1. j - 1 \in 1..n - 1 /\ s[j] = t[j - 1] BY <1>3, <2>1
    <3> QED BY <1>1, <1>7, <3>1 DEF Carries
  <2> QED BY <1>1, <1>4, <1>7, <2>1 DEF Accepts, n
<1>8. ASSUME NEW ty, Ends(s, ty) PROVE Ends(t, ty) \/ (t = <<>> /\ Head(s).type = ty)
  <2>1. CASE n = 1 BY <1>1, <1>8, <2>1, EmptySeq DEF Ends, n
  <2>2. CASE n # 1
    <3>1. Len(t) # 0 /\ t[Len(t)] = s[n] BY <1>1, <2>2
    <3> QED BY <1>1, <1>8, <3>1, EmptySeq DEF Ends, n
  <2> QED BY <2>1, <2>2
<1>9. Len(t) <= n BY <1>1
<1> QED BY <1>1, <1>5, <1>6, <1>7, <1>8, <1>9 DEF t, n

(* What a send leaves.                                                       *)
Queued(p, ty) ==
  /\ handsNet' \in [Parties -> Seq(Hands!Messages)] /\ \A r \in Parties : Len(handsNet'[r]) <= MaxFlight
  /\ handsNet'[p] = handsNet[p]
  /\ \E m \in Hands!Messages :
       m.type = ty /\ m.key = offer[p] /\ handsNet'[Hands!Other(p)] = Append(handsNet[Hands!Other(p)], m)

(* One more message to the other side, within the bound of the queue.        *)
LEMMA QueuedBy ==
  ASSUME HandsTyped, NEW p \in Parties, NEW m \in Hands!Messages, Len(handsNet[Hands!Other(p)]) < MaxFlight,
         m.key = offer[p],
         handsNet' = [handsNet EXCEPT ![Hands!Other(p)] = Append(@, m)]
  PROVE  Queued(p, m.type)
<1>1. PICK q \in Parties : q = Hands!Other(p) /\ q # p BY TheOther
<1>2. handsNet \in [Parties -> Seq(Hands!Messages)] BY DEF HandsTyped
<1>3. Append(handsNet[q], m) \in Seq(Hands!Messages) /\ Len(Append(handsNet[q], m)) = Len(handsNet[q]) + 1
      /\ Len(handsNet[q]) \in Nat
  BY <1>2, AppendProperties, LenProperties
<1>4. Len(Append(handsNet[q], m)) <= MaxFlight BY <1>1, <1>3, LimitsAssumption
<1>5. handsNet' = [handsNet EXCEPT ![q] = Append(handsNet[q], m)] BY <1>1
<1> QED BY <1>1, <1>2, <1>3, <1>4, <1>5 DEF Queued, HandsTyped

(* What sendBlob leaves: a message of this type, a session or none.          *)
LEMMA SentTyped ==
  ASSUME HandsTyped, NEW p \in Parties, NEW ty \in Hands!Types, Hands!Sends(p, ty)
  PROVE  Queued(p, ty) /\ sess' \in [Parties -> Hands!Keys \cup {None}]
<1>1. key[p] \in Hands!Keys \cup {None} /\ sess[p] \in Hands!Keys \cup {None} /\ offer[p] \in Hands!Keys \cup {None}
  BY DEF HandsTyped
<1>2. Hands!Envelope(p, ty) \in {"v1", "v2", "sealed"} \X (Hands!Keys \cup {None})
  BY <1>1 DEF Hands!Envelope
<1> DEFINE m == [type |-> ty, env |-> Hands!Envelope(p, ty), key |-> offer[p]]
<1>3. m \in Hands!Messages /\ m.type = ty /\ m.key = offer[p] BY <1>1, <1>2 DEF Hands!Messages
<1>4. Len(handsNet[Hands!Other(p)]) < MaxFlight /\ handsNet' = [handsNet EXCEPT ![Hands!Other(p)] = Append(@, m)]
      /\ sess' = [sess EXCEPT ![p] = Hands!Session(p, ty)]
  BY DEF Hands!Sends
<1>5. Hands!Session(p, ty) \in Hands!Keys \cup {None} BY <1>1 DEF Hands!Session
<1>6. sess' \in [Parties -> Hands!Keys \cup {None}] BY <1>4, <1>5 DEF HandsTyped
<1> HIDE DEF m
<1>7. Queued(p, m.type) BY <1>3, <1>4, QueuedBy
<1> QED BY <1>3, <1>6, <1>7

(* A record in the contact data.                                             *)
LEMMA Recorded ==
  ASSUME HandsTyped, NEW p \in Parties, NEW r \in {"none", "sent", "received", "accepted"}, NEW b \in BOOLEAN,
         NEW k \in Hands!Keys \cup {None}, Hands!Record(p, r, b, k), r = "accepted" => b
  PROVE  /\ handsRec' \in [Parties -> {"none", "sent", "received", "accepted"}]
         /\ handsListed' \in [Parties -> BOOLEAN] /\ key' \in [Parties -> Hands!Keys \cup {None}]
         /\ Hands!AcceptedIsListed'
         /\ handsRec'[p] = r /\ handsListed'[p] = b /\ key'[p] = k
         /\ \A q \in Parties \ {p} : handsRec'[q] = handsRec[q] /\ handsListed'[q] = handsListed[q] /\ key'[q] = key[q]
<1>1. /\ handsRec' = [handsRec EXCEPT ![p] = r] /\ handsListed' = [handsListed EXCEPT ![p] = b]
      /\ key' = [key EXCEPT ![p] = k]
  BY DEF Hands!Record
<1>2. /\ handsRec' \in [Parties -> {"none", "sent", "received", "accepted"}]
      /\ handsListed' \in [Parties -> BOOLEAN] /\ key' \in [Parties -> Hands!Keys \cup {None}]
  BY <1>1 DEF HandsTyped
<1>3. /\ handsRec'[p] = r /\ handsListed'[p] = b /\ key'[p] = k
      /\ \A q \in Parties \ {p} : handsRec'[q] = handsRec[q] /\ handsListed'[q] = handsListed[q] /\ key'[q] = key[q]
  BY <1>1 DEF HandsTyped
<1>4. Hands!AcceptedIsListed' BY <1>3 DEF Hands!AcceptedIsListed, HandsTyped
<1> QED BY <1>2, <1>3, <1>4

(* The two of them, one by name.                                             *)
Pair(p, q) == p \in Parties /\ q \in Parties /\ p # q /\ Hands!Other(p) = q /\ Hands!Other(q) = p
Both(p, q) == Calm(p, q) /\ Calm(q, p)

(* What the invariant says at rest.                                          *)
LEMMA HandsKept == HandsInv => Hands!HandshakeSettles
<1> SUFFICES ASSUME HandsInv PROVE Hands!HandshakeSettles
  OBVIOUS
<1>1. Hands!AcceptedIsListed BY DEF HandsInv, HandsTyped
<1>0. <<>> \in Seq(Hands!Messages) /\ Len(<<>>) = 0 BY EmptySeq
<1>2. ASSUME Hands!AtRest, ~handsDisturbed, NEW p \in Parties
      PROVE  /\ handsRec[p] = "sent" => handsRec[Hands!Other(p)] = "received"
             /\ key[p] # None /\ key[Hands!Other(p)] # None => key[p] = key[Hands!Other(p)]
  <2>1. PICK q \in Parties : q = Hands!Other(p) BY TheOther
  <2>2. Calm(p, q) BY <1>2, <2>1 DEF HandsInv
  <2>3. handsNet[p] = <<>> /\ handsNet[q] = <<>> /\ pc[p] = "idle" /\ pc[q] = "idle"
    BY <1>2 DEF Hands!AtRest
  <2>4. ~AnswerDue(p, q) /\ ~AnswerDue(q, p) /\ \A ty : ~Ends(<<>>, ty)
    BY <1>0, <2>3 DEF AnswerDue, Carries, Ends
  <2> QED BY <2>1, <2>2, <2>3, <2>4 DEF Calm, SameKey, Asking, Waits, Heard
<1>3. Hands!OneKey
  <2>1. ASSUME Hands!AtRest, ~handsDisturbed, NEW p \in Parties, NEW q \in Parties, key[p] # None, key[q] # None
        PROVE  key[p] = key[q]
    BY <1>2, <2>1, TheOther
  <2> QED BY <2>1 DEF Hands!OneKey
<1>4. Hands!NobodyWaits BY <1>2 DEF Hands!NobodyWaits
<1> QED BY <1>1, <1>3, <1>4 DEF Hands!HandshakeSettles

(* Steps that change neither records nor queues.                             *)
LEMMA StillCalm ==
  ASSUME NEW p, NEW q, Calm(p, q), handsRec' = handsRec, handsListed' = handsListed, key' = key,
         handsNet' = handsNet, pc' = pc, offer' = offer
  PROVE  Calm(p, q)'
BY DEF Calm, OneAccept, SendersKey, SameKey, Asking, AcceptDue, AnswerDue, Waits, Heard

(* A request goes out, and is recorded.                                      *)
LEMMA RequestCalm ==
  ASSUME HandsTyped, NEW p, NEW q, Pair(p, q), Both(p, q), Hands!Request(p)
  PROVE  Both(p, q)'
<1> USE DEF Pair
<1>1. /\ pc[p] = "idle" /\ handsRec[p] = "none" /\ pc' = [pc EXCEPT ![p] = "requesting"]
      /\ handsRec' = handsRec /\ handsListed' = handsListed /\ key' = key /\ offer' = offer
      /\ Hands!Sends(p, "request")
  BY DEF Hands!Request, Hands!contact
<1>2. Queued(p, "request") BY <1>1, SentTyped DEF Hands!Types
<1>3. PICK m \in Hands!Messages : m.type = "request" /\ handsNet'[q] = Append(handsNet[q], m)
  BY <1>2 DEF Queued
<1>4. /\ \A ty : Carries(handsNet'[q], ty) <=> Carries(handsNet[q], ty) \/ ty = "request"
      /\ \A k : Accepts(handsNet'[q], k) <=> Accepts(handsNet[q], k)
      /\ Ends(handsNet'[q], "request") /\ handsNet'[p] = handsNet[p]
  <2>1. handsNet[q] \in Seq(Hands!Messages) BY DEF HandsTyped
  <2> QED BY <1>2, <1>3, <2>1, Appended DEF Queued
<1>5. pc'[p] = "requesting" /\ pc'[q] = pc[q] BY <1>1 DEF HandsTyped
<1>6. Calm(p, q)'
  BY <1>1, <1>4, <1>5 DEF Both, Calm, OneAccept, SendersKey, SameKey, Asking, AcceptDue, AnswerDue, Waits, Heard
<1>7. Calm(q, p)'
  BY <1>1, <1>4, <1>5 DEF Both, Calm, OneAccept, SendersKey, SameKey, Asking, AcceptDue, AnswerDue, Waits, Heard
<1> QED BY <1>6, <1>7 DEF Both

(* The request that went out is recorded, whatever came in between.          *)
LEMMA RequestedCalm ==
  ASSUME HandsTyped, NEW p, NEW q, Pair(p, q), Both(p, q), Hands!Requested(p)
  PROVE  Both(p, q)'
<1> USE DEF Pair
<1>1. /\ pc[p] = "requesting" /\ pc' = [pc EXCEPT ![p] = "idle"]
      /\ Hands!Record(p, "sent", handsListed[p], key[p]) /\ handsNet' = handsNet /\ offer' = offer
  BY DEF Hands!Requested
<1>2. /\ handsRec'[p] = "sent" /\ handsListed'[p] = handsListed[p] /\ key'[p] = key[p]
      /\ handsRec'[q] = handsRec[q] /\ handsListed'[q] = handsListed[q] /\ key'[q] = key[q]
  <2>1. handsListed[p] \in BOOLEAN /\ key[p] \in Hands!Keys \cup {None} BY DEF HandsTyped
  <2> QED BY <1>1, <2>1, Recorded
<1>3. pc'[p] = "idle" /\ pc'[q] = pc[q] BY <1>1 DEF HandsTyped
<1>4. Calm(p, q)'
  BY <1>1, <1>2, <1>3 DEF Both, Calm, OneAccept, SendersKey, SameKey, Asking, AcceptDue, AnswerDue, Waits, Heard
<1>5. Calm(q, p)'
  BY <1>1, <1>2, <1>3 DEF Both, Calm, OneAccept, SendersKey, SameKey, Asking, AcceptDue, AnswerDue, Waits, Heard
<1> QED BY <1>4, <1>5 DEF Both

(* An accept is decided, and goes out.                                       *)
LEMMA AcceptCalm ==
  ASSUME HandsTyped, NEW p, NEW q, Pair(p, q), Both(p, q), Hands!Accept(p), ~handsDisturbed'
  PROVE  Both(p, q)'
<1> USE DEF Pair
<1>1. /\ pc[p] = "idle" /\ handsRec[p] \in {"received", "accepted"} /\ pc' = [pc EXCEPT ![p] = "accepting"]
      /\ Hands!Record(p, "accepted", TRUE, handsIssued') /\ handsNet' = handsNet
      /\ offer' = [offer EXCEPT ![p] = handsIssued'] /\ handsIssued' = handsIssued + 1 /\ handsIssued < MaxKeys
      /\ ~AcceptDue(p, q)
  BY DEF Hands!Accept, Hands!AcceptComing, AcceptDue, Carries
<1>2. PICK n \in Hands!Keys : n = handsIssued'
  BY <1>1, LimitsAssumption DEF HandsTyped, Hands!Keys
<1>3. /\ handsRec'[p] = "accepted" /\ handsListed'[p] = TRUE /\ key'[p] = n
      /\ handsRec'[q] = handsRec[q] /\ handsListed'[q] = handsListed[q] /\ key'[q] = key[q]
  <2>1. Hands!Record(p, "accepted", TRUE, n) BY <1>1, <1>2
  <2> QED BY <1>2, <2>1, Recorded
<1>4. pc'[p] = "accepting" /\ pc'[q] = pc[q] /\ offer'[p] = n /\ offer'[q] = offer[q]
  BY <1>1, <1>2 DEF HandsTyped
<1>5. Calm(p, q)'
  BY <1>1, <1>3, <1>4 DEF Both, Calm, OneAccept, SendersKey, SameKey, Asking, AcceptDue, AnswerDue, Waits, Heard
<1>6. Calm(q, p)'
  BY <1>1, <1>3, <1>4 DEF Both, Calm, OneAccept, SendersKey, SameKey, Asking, AcceptDue, AnswerDue, Waits, Heard
<1> QED BY <1>5, <1>6 DEF Both

(* The accept goes out, with the key it was decided with.                    *)
LEMMA AcceptSentCalm ==
  ASSUME HandsTyped, NEW p, NEW q, Pair(p, q), Both(p, q), Hands!AcceptSent(p)
  PROVE  Both(p, q)'
<1> USE DEF Pair
<1>1. /\ pc[p] = "accepting" /\ pc' = [pc EXCEPT ![p] = "idle"] /\ offer' = [offer EXCEPT ![p] = None]
      /\ handsRec' = handsRec /\ handsListed' = handsListed /\ key' = key
      /\ Hands!Sends(p, "accept")
  BY DEF Hands!AcceptSent, Hands!contact
<1>2. Queued(p, "accept") BY <1>1, SentTyped DEF Hands!Types
<1>3. PICK m \in Hands!Messages : m.type = "accept" /\ m.key = offer[p] /\ handsNet'[q] = Append(handsNet[q], m)
  BY <1>2 DEF Queued
<1>4. /\ \A ty : Carries(handsNet'[q], ty) <=> Carries(handsNet[q], ty) \/ ty = "accept"
      /\ \A k : Accepts(handsNet'[q], k) <=> k = offer[p]
      /\ handsNet'[p] = handsNet[p]
  <2>1. handsNet[q] \in Seq(Hands!Messages) BY DEF HandsTyped
  <2> QED BY <1>2, <1>3, <2>1, Appended DEF Queued
<1>5. pc'[p] = "idle" /\ pc'[q] = pc[q] /\ offer'[q] = offer[q] BY <1>1 DEF HandsTyped
<1>6. Calm(p, q)'
  BY <1>1, <1>4, <1>5 DEF Both, Calm, OneAccept, SendersKey, SameKey, Asking, AcceptDue, AnswerDue, Waits, Heard
<1>7. Calm(q, p)'
  BY <1>1, <1>4, <1>5 DEF Both, Calm, OneAccept, SendersKey, SameKey, Asking, AcceptDue, AnswerDue, Waits, Heard
<1> QED BY <1>6, <1>7 DEF Both

(* A rejection, or the withdrawal of a request, is decided, and goes out.    *)
LEMMA RejectCalm ==
  ASSUME HandsTyped, NEW p, NEW q, Pair(p, q), Both(p, q), Hands!Reject(p) \/ Hands!Cancel(p)
  PROVE  Both(p, q)'
<1> USE DEF Pair
<1>0. handsListed[p] \in BOOLEAN /\ key[p] \in Hands!Keys \cup {None} BY DEF HandsTyped
<1>1. /\ pc[p] = "idle" /\ pc' = [pc EXCEPT ![p] = "rejecting"] /\ handsNet' = handsNet /\ offer' = offer
  BY DEF Hands!Reject, Hands!Cancel
<1>2. /\ handsRec'[p] = "none" /\ ~handsListed'[p]
      /\ handsRec'[q] = handsRec[q] /\ handsListed'[q] = handsListed[q] /\ key'[q] = key[q]
  <2>1. CASE Hands!Reject(p)
    <3>1. Hands!Record(p, "none", FALSE, None) BY <2>1 DEF Hands!Reject
    <3> QED BY <3>1, Recorded
  <2>2. CASE Hands!Cancel(p)
    <3>1. Hands!Record(p, "none", handsListed[p], key[p]) /\ handsRec[p] = "sent" BY <2>2 DEF Hands!Cancel
    <3>2. ~handsListed[p] BY <3>1 DEF Both, Calm, Asking
    <3>3. /\ handsRec'[p] = "none" /\ handsListed'[p] = handsListed[p]
          /\ handsRec'[q] = handsRec[q] /\ handsListed'[q] = handsListed[q] /\ key'[q] = key[q]
      BY <1>0, <3>1, Recorded
    <3> QED BY <3>2, <3>3
  <2> QED BY <2>1, <2>2
<1>3. pc'[p] = "rejecting" /\ pc'[q] = pc[q] BY <1>1 DEF HandsTyped
<1>4. Calm(p, q)'
  BY <1>1, <1>2, <1>3 DEF Both, Calm, OneAccept, SendersKey, SameKey, Asking, AcceptDue, AnswerDue, Waits, Heard
<1>5. Calm(q, p)'
  BY <1>1, <1>2, <1>3 DEF Both, Calm, OneAccept, SendersKey, SameKey, Asking, AcceptDue, AnswerDue, Waits, Heard
<1> QED BY <1>4, <1>5 DEF Both

(* The rejection goes out: nothing after it in the queue is an answer.       *)
LEMMA RejectSentCalm ==
  ASSUME HandsTyped, NEW p, NEW q, Pair(p, q), Both(p, q), Hands!RejectSent(p)
  PROVE  Both(p, q)'
<1> USE DEF Pair
<1>1. /\ pc[p] = "rejecting" /\ pc' = [pc EXCEPT ![p] = "idle"] /\ offer' = offer
      /\ handsRec' = handsRec /\ handsListed' = handsListed /\ key' = key
      /\ Hands!Sends(p, "reject")
  BY DEF Hands!RejectSent, Hands!contact
<1>2. Queued(p, "reject") BY <1>1, SentTyped DEF Hands!Types
<1>3. PICK m \in Hands!Messages : m.type = "reject" /\ handsNet'[q] = Append(handsNet[q], m)
  BY <1>2 DEF Queued
<1>4. /\ \A ty : Carries(handsNet'[q], ty) <=> Carries(handsNet[q], ty) \/ ty = "reject"
      /\ \A k : ~Accepts(handsNet'[q], k)
      /\ handsNet'[p] = handsNet[p]
  <2>1. handsNet[q] \in Seq(Hands!Messages) BY DEF HandsTyped
  <2> QED BY <1>2, <1>3, <2>1, Appended DEF Queued
<1>5. pc'[p] = "idle" /\ pc'[q] = pc[q] BY <1>1 DEF HandsTyped
<1>6. Calm(p, q)'
  BY <1>1, <1>4, <1>5 DEF Both, Calm, OneAccept, SendersKey, SameKey, Asking, AcceptDue, AnswerDue, Waits, Heard
<1>7. Calm(q, p)'
  BY <1>1, <1>4, <1>5 DEF Both, Calm, OneAccept, SendersKey, SameKey, Asking, AcceptDue, AnswerDue, Waits, Heard
<1> QED BY <1>6, <1>7 DEF Both

(* A chat message.                                                           *)
LEMMA ChatCalm ==
  ASSUME HandsTyped, NEW p, NEW q, Pair(p, q), Both(p, q), Hands!Chat(p)
  PROVE  Both(p, q)'
<1> USE DEF Pair
<1>1. /\ handsListed[p] /\ pc' = pc /\ offer' = offer
      /\ handsRec' = handsRec /\ handsListed' = handsListed /\ key' = key
      /\ Hands!Sends(p, "chat")
  BY DEF Hands!Chat, Hands!contact, Hands!handler
<1>2. Queued(p, "chat") BY <1>1, SentTyped DEF Hands!Types
<1>3. PICK m \in Hands!Messages : m.type = "chat" /\ handsNet'[q] = Append(handsNet[q], m)
  BY <1>2 DEF Queued
<1>4. /\ \A ty : Carries(handsNet'[q], ty) <=> Carries(handsNet[q], ty) \/ ty = "chat"
      /\ \A k : Accepts(handsNet'[q], k) <=> Accepts(handsNet[q], k)
      /\ handsNet'[p] = handsNet[p]
  <2>1. handsNet[q] \in Seq(Hands!Messages) BY DEF HandsTyped
  <2> QED BY <1>2, <1>3, <2>1, Appended DEF Queued
<1>5. handsRec[p] \notin {"none", "sent"} /\ pc[p] # "requesting"
  BY <1>1 DEF Both, Calm, Asking
<1>6. Calm(p, q)'
  BY <1>1, <1>4, <1>5 DEF Both, Calm, OneAccept, SendersKey, SameKey, Asking, AcceptDue, AnswerDue, Waits, Heard
<1>7. Calm(q, p)'
  BY <1>1, <1>4, <1>5 DEF Both, Calm, OneAccept, SendersKey, SameKey, Asking, AcceptDue, AnswerDue, Waits, Heard
<1> QED BY <1>6, <1>7 DEF Both

(* What arrives is applied.                                                  *)
LEMMA ReceiveCalm ==
  ASSUME HandsTyped, NEW p, NEW q, Pair(p, q), Both(p, q), Hands!Receive(p), ~handsDisturbed'
  PROVE  Both(p, q)'
<1> USE DEF Pair
<1> DEFINE m == Head(handsNet[p])
<1>0. /\ handsListed[p] \in BOOLEAN /\ key[p] \in Hands!Keys \cup {None} /\ handsNet[p] \in Seq(Hands!Messages)
      /\ handsRec[p] = "accepted" => handsListed[p]
  BY DEF HandsTyped, Hands!AcceptedIsListed
<1>1. /\ handsNet[p] # <<>> /\ handsNet' = [handsNet EXCEPT ![p] = Tail(@)]
      /\ Hands!Applied(p, m) /\ pc[p] # "requesting" /\ pc' = pc /\ offer' = offer
  BY DEF Hands!Receive, Hands!handler
<1>2. m \in Hands!Messages /\ m.key \in Hands!Keys \cup {None} /\ m.type \in Hands!Types
  <2>1. m \in Hands!Messages BY <1>0, <1>1, HeadTailProperties
  <2> HIDE DEF m
  <2> QED BY <2>1 DEF Hands!Messages
<1>3. /\ \A ty : Carries(handsNet[p], ty) <=> Carries(handsNet'[p], ty) \/ m.type = ty
      /\ \A k : Accepts(handsNet'[p], k) => Accepts(handsNet[p], k)
      /\ m.type = "accept" /\ ~Carries(handsNet'[p], "accept") /\ ~Carries(handsNet'[p], "reject")
              => Accepts(handsNet[p], m.key)
      /\ \A ty : Ends(handsNet[p], ty) => Ends(handsNet'[p], ty) \/ (handsNet'[p] = <<>> /\ m.type = ty)
      /\ handsNet'[q] = handsNet[q]
  <2>1. handsNet'[p] = Tail(handsNet[p]) /\ handsNet'[q] = handsNet[q] BY <1>1 DEF HandsTyped
  <2> QED BY <1>0, <1>1, <2>1, Popped
<1> HIDE DEF m
<1>4. CASE m.type = "request"
  <2>1. Hands!Record(p, "received", handsListed[p], key[p]) BY <1>1, <1>4 DEF Hands!Applied
  <2>2. /\ handsRec'[p] = "received" /\ handsListed'[p] = handsListed[p] /\ key'[p] = key[p]
        /\ handsRec'[q] = handsRec[q] /\ handsListed'[q] = handsListed[q] /\ key'[q] = key[q]
    BY <1>0, <2>1, Recorded
  <2>3. Calm(p, q)'
    BY <1>1, <1>3, <1>4, <2>2 DEF Both, Calm, OneAccept, SendersKey, SameKey, Asking, AcceptDue, AnswerDue, Waits, Heard
  <2>4. Calm(q, p)'
    BY <1>1, <1>3, <1>4, <2>2 DEF Both, Calm, OneAccept, SendersKey, SameKey, Asking, AcceptDue, AnswerDue, Waits, Heard
  <2> QED BY <2>3, <2>4 DEF Both
<1>5. CASE m.type = "accept"
  <2>1. Hands!Record(p, "accepted", TRUE, m.key) BY <1>1, <1>5 DEF Hands!Applied
  <2>2. /\ handsRec'[p] = "accepted" /\ handsListed'[p] = TRUE /\ key'[p] = m.key
        /\ handsRec'[q] = handsRec[q] /\ handsListed'[q] = handsListed[q] /\ key'[q] = key[q]
    <3>1. PICK k \in Hands!Keys \cup {None} : k = m.key BY <1>2
    <3>2. Hands!Record(p, "accepted", TRUE, k) BY <2>1, <3>1
    <3> QED BY <3>1, <3>2, Recorded
  <2>3. Calm(p, q)'
    BY <1>1, <1>2, <1>3, <1>5, <2>2 DEF Both, Calm, OneAccept, SendersKey, SameKey, Asking, AcceptDue, AnswerDue, Waits, Heard
  <2>4. Calm(q, p)'
    <3>0. AcceptDue(p, q) /\ ~AcceptDue(q, p) BY <1>3, <1>5 DEF Both, Calm, OneAccept, AcceptDue
    <3>1. \A k : ~Accepts(handsNet'[q], k) BY <1>3, <3>0 DEF AcceptDue, Accepts, Carries
    <3>2. OneAccept(q, p)' BY <1>1, <1>3, <3>0 DEF OneAccept, AcceptDue
    <3>3. SendersKey(q, p)' BY <1>1, <2>2, <3>1 DEF Both, Calm, SendersKey
    <3>4. SameKey(q, p)'
      BY <1>1, <1>2, <1>3, <1>5, <2>2 DEF Both, Calm, SendersKey, SameKey, AnswerDue
    <3>5. Asking(q, p)' BY <1>1, <1>3, <1>5, <2>2 DEF Both, Calm, Asking, AnswerDue, Waits, Heard
    <3> QED BY <3>2, <3>3, <3>4, <3>5 DEF Calm
  <2> QED BY <2>3, <2>4 DEF Both
<1>6. CASE m.type = "reject"
  <2>1. Hands!Record(p, "none", FALSE, None) BY <1>1, <1>6 DEF Hands!Applied
  <2>2. /\ handsRec'[p] = "none" /\ handsListed'[p] = FALSE /\ key'[p] = None
        /\ handsRec'[q] = handsRec[q] /\ handsListed'[q] = handsListed[q] /\ key'[q] = key[q]
    BY <2>1, Recorded
  <2>3. Calm(p, q)'
    BY <1>1, <1>3, <1>6, <2>2 DEF Both, Calm, OneAccept, SendersKey, SameKey, Asking, AcceptDue, AnswerDue, Waits, Heard
  <2>4. Calm(q, p)'
    BY <1>1, <1>3, <1>6, <2>2 DEF Both, Calm, OneAccept, SendersKey, SameKey, Asking, AcceptDue, AnswerDue, Waits, Heard
  <2> QED BY <2>3, <2>4 DEF Both
<1>7. CASE m.type = "chat" /\ ~handsListed[p]
  <2>1. Hands!Record(p, "accepted", TRUE, key[p]) BY <1>1, <1>7 DEF Hands!Applied
  <2>2. /\ handsRec'[p] = "accepted" /\ handsListed'[p] = TRUE /\ key'[p] = key[p]
        /\ handsRec'[q] = handsRec[q] /\ handsListed'[q] = handsListed[q] /\ key'[q] = key[q]
    BY <1>0, <2>1, Recorded
  <2>3. Calm(p, q)'
    BY <1>1, <1>3, <1>7, <2>2 DEF Both, Calm, OneAccept, SendersKey, SameKey, Asking, AcceptDue, AnswerDue, Waits, Heard
  <2>4. Calm(q, p)'
    BY <1>1, <1>3, <1>7, <2>2 DEF Both, Calm, OneAccept, SendersKey, SameKey, Asking, AcceptDue, AnswerDue, Waits, Heard
  <2> QED BY <2>3, <2>4 DEF Both
<1>8. CASE m.type \in {"chat", "resync"} /\ ~(m.type = "chat" /\ ~handsListed[p])
  <2>1. handsRec' = handsRec /\ handsListed' = handsListed /\ key' = key
    BY <1>1, <1>8 DEF Hands!Applied, Hands!contact
  <2>3. Calm(p, q)'
    BY <1>1, <1>3, <1>8, <2>1 DEF Both, Calm, OneAccept, SendersKey, SameKey, Asking, AcceptDue, AnswerDue, Waits, Heard
  <2>4. Calm(q, p)'
    BY <1>1, <1>3, <1>8, <2>1 DEF Both, Calm, OneAccept, SendersKey, SameKey, Asking, AcceptDue, AnswerDue, Waits, Heard
  <2> QED BY <2>3, <2>4 DEF Both
<1> QED BY <1>2, <1>4, <1>5, <1>6, <1>7, <1>8 DEF Hands!Types

(* The types, step by step: a contact record, a send, a queue one shorter.   *)
LEMMA HandsTypedStep ==
  ASSUME HandsTyped, NEW p \in Parties,
         \/ Hands!Request(p) \/ Hands!Requested(p) \/ Hands!Accept(p) \/ Hands!AcceptSent(p)
         \/ Hands!AcceptFails(p) \/ Hands!Reject(p) \/ Hands!Cancel(p) \/ Hands!RejectSent(p)
         \/ Hands!RejectFails(p) \/ Hands!Block(p) \/ Hands!Chat(p) \/ Hands!InitSession(p)
         \/ Hands!Receive(p) \/ Hands!Lost(p) \/ Hands!DataLost(p)
  PROVE  HandsTyped'
<1>0. /\ handsListed[p] \in BOOLEAN /\ key[p] \in Hands!Keys \cup {None} /\ handsNet[p] \in Seq(Hands!Messages)
      /\ sess[p] \in Hands!Keys \cup {None}
      /\ handsRec[p] = "accepted" => handsListed[p]
      /\ \A r \in Parties : Len(handsNet[r]) <= MaxFlight
  BY DEF HandsTyped, Hands!AcceptedIsListed
<1>1. CASE Hands!Request(p)
  <2>1. Queued(p, "request") /\ sess' \in [Parties -> Hands!Keys \cup {None}]
    BY <1>1, SentTyped DEF Hands!Request, Hands!Types
  <2> QED BY <1>1, <2>1 DEF Hands!Request, Hands!contact, HandsTyped, Queued, Hands!AcceptedIsListed
<1>2. CASE Hands!Requested(p)
  <2>1. Hands!Record(p, "sent", handsListed[p], key[p]) BY <1>2 DEF Hands!Requested
  <2>2. /\ handsRec' \in [Parties -> {"none", "sent", "received", "accepted"}]
        /\ handsListed' \in [Parties -> BOOLEAN] /\ key' \in [Parties -> Hands!Keys \cup {None}]
        /\ Hands!AcceptedIsListed'
    BY <1>0, <2>1, Recorded
  <2> QED BY <1>2, <2>2 DEF Hands!Requested, HandsTyped
<1>3. CASE Hands!Accept(p)
  <2>1. PICK n \in Hands!Keys : n = handsIssued' /\ n \in 0..MaxKeys
    BY <1>3, LimitsAssumption DEF HandsTyped, Hands!Keys, Hands!Accept
  <2>2. Hands!Record(p, "accepted", TRUE, n) BY <1>3, <2>1 DEF Hands!Accept
  <2>3. /\ handsRec' \in [Parties -> {"none", "sent", "received", "accepted"}]
        /\ handsListed' \in [Parties -> BOOLEAN] /\ key' \in [Parties -> Hands!Keys \cup {None}]
        /\ Hands!AcceptedIsListed'
    BY <2>2, Recorded
  <2>4. handsDisturbed' \in BOOLEAN BY <1>3 DEF HandsTyped, Hands!Accept
  <2> QED BY <1>3, <2>1, <2>3, <2>4 DEF Hands!Accept, HandsTyped
<1>4. CASE Hands!AcceptSent(p)
  <2>1. Queued(p, "accept") /\ sess' \in [Parties -> Hands!Keys \cup {None}]
    BY <1>4, SentTyped DEF Hands!AcceptSent, Hands!Types
  <2> QED BY <1>4, <2>1 DEF Hands!AcceptSent, Hands!contact, HandsTyped, Queued, Hands!AcceptedIsListed
<1>5. CASE Hands!AcceptFails(p)
  BY <1>5 DEF Hands!AcceptFails, Hands!contact, HandsTyped, Hands!AcceptedIsListed
<1>6. CASE Hands!Reject(p)
  <2>1. Hands!Record(p, "none", FALSE, None) BY <1>6 DEF Hands!Reject
  <2>2. /\ handsRec' \in [Parties -> {"none", "sent", "received", "accepted"}]
        /\ handsListed' \in [Parties -> BOOLEAN] /\ key' \in [Parties -> Hands!Keys \cup {None}]
        /\ Hands!AcceptedIsListed'
    BY <2>1, Recorded
  <2> QED BY <1>6, <2>2 DEF Hands!Reject, HandsTyped
<1>7. CASE Hands!Cancel(p)
  <2>1. Hands!Record(p, "none", handsListed[p], key[p]) BY <1>7 DEF Hands!Cancel
  <2>2. /\ handsRec' \in [Parties -> {"none", "sent", "received", "accepted"}]
        /\ handsListed' \in [Parties -> BOOLEAN] /\ key' \in [Parties -> Hands!Keys \cup {None}]
        /\ Hands!AcceptedIsListed'
    BY <1>0, <2>1, Recorded
  <2> QED BY <1>7, <2>2 DEF Hands!Cancel, HandsTyped
<1>8. CASE Hands!RejectSent(p)
  <2>1. Queued(p, "reject") /\ sess' \in [Parties -> Hands!Keys \cup {None}]
    BY <1>8, SentTyped DEF Hands!RejectSent, Hands!Types
  <2> QED BY <1>8, <2>1 DEF Hands!RejectSent, Hands!contact, HandsTyped, Queued, Hands!AcceptedIsListed
<1>9. CASE Hands!RejectFails(p)
  BY <1>9 DEF Hands!RejectFails, Hands!contact, HandsTyped, Hands!AcceptedIsListed
<1>10. CASE Hands!Block(p)
  BY <1>10 DEF Hands!Block, Hands!contact, Hands!handler, HandsTyped, Hands!AcceptedIsListed
<1>11. CASE Hands!Chat(p)
  <2>1. Queued(p, "chat") /\ sess' \in [Parties -> Hands!Keys \cup {None}]
    BY <1>11, SentTyped DEF Hands!Chat, Hands!Types
  <2> QED BY <1>11, <2>1 DEF Hands!Chat, Hands!contact, Hands!handler, HandsTyped, Queued, Hands!AcceptedIsListed
<1>12. CASE Hands!InitSession(p)
  BY <1>12 DEF Hands!InitSession, Hands!contact, Hands!handler, HandsTyped, Hands!AcceptedIsListed
<1>13. CASE Hands!Receive(p)
  <2> DEFINE m == Head(handsNet[p])
  <2>1. m \in Hands!Messages /\ Tail(handsNet[p]) \in Seq(Hands!Messages) /\ Len(Tail(handsNet[p])) <= Len(handsNet[p])
    BY <1>0, <1>13, Popped DEF Hands!Receive
  <2>2. /\ handsNet' = [handsNet EXCEPT ![p] = Tail(handsNet[p])]
        /\ sess' = [sess EXCEPT ![p] = Hands!SessionFor(p, m.env)]
        /\ (Hands!Applied(p, m) /\ unread' = unread) \/ (unread' = m.type /\ UNCHANGED Hands!contact)
        /\ handsDisturbed' \in BOOLEAN
        /\ blocked' = blocked /\ pc' = pc /\ offer' = offer /\ handsIssued' = handsIssued
    BY <1>13 DEF Hands!Receive, Hands!handler, HandsTyped
  <2> HIDE DEF m
  <2>3. m.key \in Hands!Keys \cup {None} /\ m.type \in Hands!Types BY <2>1 DEF Hands!Messages
  <2>4. Hands!SessionFor(p, m.env) \in Hands!Keys \cup {None} BY <1>0 DEF Hands!SessionFor
  <2>5. handsNet' \in [Parties -> Seq(Hands!Messages)] /\ \A r \in Parties : Len(handsNet'[r]) <= MaxFlight
    <3>1. handsNet \in [Parties -> Seq(Hands!Messages)] BY DEF HandsTyped
    <3>2. Len(Tail(handsNet[p])) <= MaxFlight
      <4>1. Len(Tail(handsNet[p])) \in Nat /\ Len(handsNet[p]) \in Nat BY <1>0, <2>1, LenProperties
      <4> QED BY <1>0, <2>1, <4>1, LimitsAssumption
    <3> QED BY <1>0, <2>1, <2>2, <3>1, <3>2
  <2>6. sess' \in [Parties -> Hands!Keys \cup {None}] BY <2>2, <2>4 DEF HandsTyped
  <2>7. /\ handsRec' \in [Parties -> {"none", "sent", "received", "accepted"}]
        /\ handsListed' \in [Parties -> BOOLEAN] /\ key' \in [Parties -> Hands!Keys \cup {None}]
        /\ Hands!AcceptedIsListed'
    <3>1. CASE UNCHANGED Hands!contact BY <3>1 DEF Hands!contact, HandsTyped, Hands!AcceptedIsListed
    <3>2. CASE Hands!Applied(p, m)
      <4>1. PICK k \in Hands!Keys \cup {None} : k = m.key BY <2>3
      <4>2. \/ Hands!Record(p, "received", handsListed[p], key[p]) \/ Hands!Record(p, "accepted", TRUE, k)
            \/ Hands!Record(p, "none", FALSE, None) \/ Hands!Record(p, "accepted", TRUE, key[p])
            \/ UNCHANGED Hands!contact
        BY <2>3, <3>2, <4>1 DEF Hands!Applied, Hands!Types
      <4>3. CASE Hands!Record(p, "received", handsListed[p], key[p]) BY <1>0, <4>3, Recorded
      <4>4. CASE Hands!Record(p, "accepted", TRUE, k) BY <4>4, Recorded
      <4>5. CASE Hands!Record(p, "none", FALSE, None) BY <4>5, Recorded
      <4>6. CASE Hands!Record(p, "accepted", TRUE, key[p]) BY <1>0, <4>6, Recorded
      <4> QED BY <3>1, <4>2, <4>3, <4>4, <4>5, <4>6
    <3> QED BY <2>2, <3>1, <3>2
  <2>8. unread' \in Hands!Types \cup {None} BY <2>2, <2>3 DEF HandsTyped
  <2> QED BY <2>2, <2>5, <2>6, <2>7, <2>8 DEF HandsTyped
<1>14. CASE Hands!Lost(p)
  <2>1. Tail(handsNet[p]) \in Seq(Hands!Messages) /\ Len(Tail(handsNet[p])) <= Len(handsNet[p])
    BY <1>0, <1>14, Popped DEF Hands!Lost
  <2>2. handsNet' \in [Parties -> Seq(Hands!Messages)] /\ \A r \in Parties : Len(handsNet'[r]) <= MaxFlight
    <3>1. handsNet \in [Parties -> Seq(Hands!Messages)] BY DEF HandsTyped
    <3>2. Len(Tail(handsNet[p])) <= MaxFlight
      <4>1. Len(Tail(handsNet[p])) \in Nat /\ Len(handsNet[p]) \in Nat BY <1>0, <2>1, LenProperties
      <4> QED BY <1>0, <2>1, <4>1, LimitsAssumption
    <3>3. handsNet' = [handsNet EXCEPT ![p] = Tail(handsNet[p])] BY <1>14 DEF Hands!Lost
    <3> QED BY <1>0, <2>1, <3>1, <3>2, <3>3
  <2> QED BY <1>14, <2>2 DEF Hands!Lost, Hands!contact, Hands!handler, HandsTyped, Hands!AcceptedIsListed
<1>15. CASE Hands!DataLost(p)
  <2>1. Hands!Record(p, "none", FALSE, None) BY <1>15 DEF Hands!DataLost
  <2>2. /\ handsRec' \in [Parties -> {"none", "sent", "received", "accepted"}]
        /\ handsListed' \in [Parties -> BOOLEAN] /\ key' \in [Parties -> Hands!Keys \cup {None}]
        /\ Hands!AcceptedIsListed'
    BY <2>1, Recorded
  <2> DEFINE m == [type |-> "resync", env |-> <<"v1", None>>, key |-> None]
  <2>3. m \in Hands!Messages BY DEF Hands!Messages, Hands!Types
  <2>4. PICK q \in Parties : q = Hands!Other(p) BY TheOther
  <2>5. Len(handsNet[q]) < MaxFlight /\ handsNet' = [handsNet EXCEPT ![q] = Append(@, m)]
    BY <1>15, <2>4 DEF Hands!DataLost
  <2> HIDE DEF m
  <2>6. handsNet' \in [Parties -> Seq(Hands!Messages)] /\ \A r \in Parties : Len(handsNet'[r]) <= MaxFlight
    <3>1. handsNet \in [Parties -> Seq(Hands!Messages)] BY DEF HandsTyped
    <3>2. /\ Append(handsNet[q], m) \in Seq(Hands!Messages) /\ Len(Append(handsNet[q], m)) = Len(handsNet[q]) + 1
          /\ Len(handsNet[q]) \in Nat
      BY <2>3, <3>1, AppendProperties, LenProperties
    <3>3. Len(Append(handsNet[q], m)) <= MaxFlight BY <2>5, <3>2, LimitsAssumption
    <3>4. handsNet' = [handsNet EXCEPT ![q] = Append(handsNet[q], m)] BY <2>5
    <3> QED BY <1>0, <3>1, <3>2, <3>3, <3>4
  <2> QED BY <1>15, <2>2, <2>6 DEF Hands!DataLost, Hands!handler, HandsTyped
<1> QED BY <1>1, <1>2, <1>3, <1>4, <1>5, <1>6, <1>7, <1>8, <1>9, <1>10, <1>11, <1>12, <1>13, <1>14, <1>15

(* Every step of the handshake keeps the invariant.                          *)
LEMMA HandsStep == HandsInv /\ [Hands!Next]_handsVars => HandsInv'
<1> SUFFICES ASSUME HandsInv, [Hands!Next]_handsVars PROVE HandsInv'
  OBVIOUS
<1>0. HandsTyped BY DEF HandsInv
<1>1. CASE UNCHANGED handsVars
  <2>1. HandsTyped' BY <1>0, <1>1 DEF handsVars, HandsTyped, Hands!AcceptedIsListed
  <2>2. ASSUME ~handsDisturbed', NEW p \in Parties PROVE Calm(p, Hands!Other(p))'
    <3>1. PICK q \in Parties : q = Hands!Other(p) BY TheOther
    <3>2. Calm(p, q) BY <1>1, <2>2, <3>1 DEF HandsInv, handsVars
    <3>3. Calm(p, q)' BY <1>1, <3>2, StillCalm DEF handsVars
    <3> QED BY <3>1, <3>3 DEF Hands!Other
  <2> QED BY <2>1, <2>2 DEF HandsInv
<1>2. ASSUME NEW p \in Parties,
             \/ Hands!Request(p) \/ Hands!Requested(p) \/ Hands!Accept(p) \/ Hands!AcceptSent(p)
             \/ Hands!AcceptFails(p) \/ Hands!Reject(p) \/ Hands!Cancel(p) \/ Hands!RejectSent(p)
             \/ Hands!RejectFails(p) \/ Hands!Block(p) \/ Hands!Chat(p) \/ Hands!InitSession(p)
             \/ Hands!Receive(p) \/ Hands!Lost(p) \/ Hands!DataLost(p)
      PROVE  HandsInv'
  <2>0. HandsTyped' BY <1>0, <1>2, HandsTypedStep
  <2>1. PICK q \in Parties : Pair(p, q) BY TheOther DEF Pair
  <2>2. ASSUME ~handsDisturbed' PROVE Both(p, q)'
    <3>1. ~Hands!AcceptFails(p) /\ ~Hands!RejectFails(p) /\ ~Hands!Lost(p) /\ ~Hands!DataLost(p)
      BY <2>2 DEF Hands!AcceptFails, Hands!RejectFails, Hands!Lost, Hands!DataLost
    <3>2. ~handsDisturbed
      BY <1>0, <1>2, <2>2, <3>1 DEF HandsTyped, Hands!Request, Hands!Requested, Hands!Accept, Hands!AcceptSent,
        Hands!Reject, Hands!Cancel, Hands!RejectSent, Hands!Block, Hands!Chat, Hands!InitSession, Hands!Receive
    <3>3. Both(p, q) BY <2>1, <3>2 DEF HandsInv, Both, Pair
    <3>4. CASE Hands!Block(p) \/ Hands!InitSession(p)
      <4>1. /\ handsRec' = handsRec /\ handsListed' = handsListed /\ key' = key
            /\ handsNet' = handsNet /\ pc' = pc /\ offer' = offer
        BY <3>4 DEF Hands!Block, Hands!InitSession, Hands!contact, Hands!handler
      <4>2. Calm(p, q)' BY <3>3, <4>1, StillCalm DEF Both
      <4>3. Calm(q, p)' BY <3>3, <4>1, StillCalm DEF Both
      <4> QED BY <4>2, <4>3 DEF Both
    <3>5. CASE Hands!Request(p) BY <1>0, <2>1, <3>3, <3>5, RequestCalm
    <3>6. CASE Hands!Requested(p) BY <1>0, <2>1, <3>3, <3>6, RequestedCalm
    <3>7. CASE Hands!Accept(p) BY <1>0, <2>1, <2>2, <3>3, <3>7, AcceptCalm
    <3>8. CASE Hands!AcceptSent(p) BY <1>0, <2>1, <3>3, <3>8, AcceptSentCalm
    <3>9. CASE Hands!Reject(p) \/ Hands!Cancel(p) BY <1>0, <2>1, <3>3, <3>9, RejectCalm
    <3>10. CASE Hands!RejectSent(p) BY <1>0, <2>1, <3>3, <3>10, RejectSentCalm
    <3>11. CASE Hands!Chat(p) BY <1>0, <2>1, <3>3, <3>11, ChatCalm
    <3>12. CASE Hands!Receive(p) BY <1>0, <2>1, <2>2, <3>3, <3>12, ReceiveCalm
    <3> QED BY <1>2, <3>1, <3>4, <3>5, <3>6, <3>7, <3>8, <3>9, <3>10, <3>11, <3>12
  <2>3. ASSUME ~handsDisturbed', NEW r \in Parties PROVE Calm(r, Hands!Other(r))'
    <3>1. Both(p, q)' BY <2>2, <2>3
    <3>2. (r = p /\ Hands!Other(r) = q) \/ (r = q /\ Hands!Other(r) = p) BY <2>1, TheOther DEF Pair
    <3>3. Calm(p, q)' /\ Calm(q, p)' BY <3>1 DEF Both
    <3>4. PICK t \in Parties : t = Hands!Other(r) BY TheOther
    <3>5. Calm(r, t)' BY <3>2, <3>3, <3>4
    <3> QED BY <3>4, <3>5
  <2> QED BY <2>0, <2>3 DEF HandsInv
<1> QED BY <1>1, <1>2 DEF Hands!Next

-----------------------------------------------------------------------------
(* The group. Every copy names its owner and has a key he knows; the keys    *)
(* known, and those on the way, were made for who has or gets them.          *)
Copies == [members : SUBSET Members, key : 1..MaxGroupKeys]

GoodBlob(m) ==
  /\ m.type \in {"invite", "rekey"} =>
       m.key \in 1..MaxGroupKeys /\ m.key <= groupIssued /\ m.to \in circle[m.key]
  /\ m.type = "invite" => m.to \in m.members
  /\ m.type = "leave" => m.who # m.to
  /\ m.type = "add" => m.who \in Members

GroupTypes ==
  /\ groups \in [Members -> Seq(Copies)]
  /\ out \subseteq Group!Blobs /\ groupNet \subseteq Group!Blobs
  /\ groupIssued \in 0..MaxGroupKeys
  /\ circle \in [Group!Keys -> SUBSET Members] /\ known \in [Members -> SUBSET Group!Keys]
  /\ groupDisturbed \in BOOLEAN

GroupBase ==
  /\ GroupTypes
  /\ \A u \in Members : \A i \in 1..Len(groups[u]) :
       u \in groups[u][i].members /\ groups[u][i].key \in known[u]
  /\ \A u \in Members : \A k \in known[u] : k <= groupIssued /\ u \in circle[k]
  /\ \A m \in out \cup groupNet : GoodBlob(m)
  /\ groupIssued = 0 => (\A u \in Members : groups[u] = <<>>) /\ out \cup groupNet = {}

(* It is stronger than the types of the group, and says who knows a key.     *)
LEMMA GroupTyped == GroupBase => Group!TypeOK /\ Group!KeysOfTheCircle
<1> SUFFICES ASSUME GroupBase PROVE Group!TypeOK /\ Group!KeysOfTheCircle
  OBVIOUS
<1>1. ASSUME NEW u \in Members, NEW i \in 1..Len(groups[u]) PROVE groups[u][i] \in Copies
  <2>1. groups[u] \in Seq(Copies) BY DEF GroupBase, GroupTypes
  <2> HIDE DEF Copies
  <2> QED BY <1>1, <2>1, ElementOfSeq
<1>2. Group!TypeOK
  BY <1>1 DEF Group!TypeOK, GroupBase, GroupTypes, Copies, Group!Keys
<1> QED BY <1>2 DEF Group!KeysOfTheCircle, GroupBase

(* A sequence whose first element is replaced.                               *)
LEMMA FirstReplaced ==
  ASSUME NEW S, NEW s \in Seq(S), s # <<>>, NEW e \in S
  PROVE  /\ [s EXCEPT ![1] = e] \in Seq(S) /\ Len([s EXCEPT ![1] = e]) = Len(s)
         /\ [s EXCEPT ![1] = e] # <<>> /\ [s EXCEPT ![1] = e][1] = e
         /\ \A i \in 1..Len(s) : i # 1 => [s EXCEPT ![1] = e][i] = s[i]
<1>1. Len(s) \in Nat /\ Len(s) # 0 BY EmptySeq, LenProperties
<1>2. 1 \in 1..Len(s) BY <1>1
<1>3. /\ [s EXCEPT ![1] = e] \in Seq(S) /\ Len([s EXCEPT ![1] = e]) = Len(s)
      /\ \A j \in 1..Len(s) : [s EXCEPT ![1] = e][j] = IF j = 1 THEN e ELSE s[j]
  BY <1>2, ExceptSeq
<1>4. [s EXCEPT ![1] = e] # <<>> BY <1>1, <1>3, EmptySeq
<1> QED BY <1>2, <1>3, <1>4

(* The first copy with other members, or another key.                        *)
LEMMA CopyChanged ==
  ASSUME NEW s \in Seq(Copies), s # <<>>, NEW ms \in SUBSET Members, NEW k \in 1..MaxGroupKeys
  PROVE  /\ [s EXCEPT ![1].members = ms] = [s EXCEPT ![1] = Group!Copy(ms, s[1].key)]
         /\ [s EXCEPT ![1].key = k] = [s EXCEPT ![1] = Group!Copy(s[1].members, k)]
         /\ Group!Copy(ms, k) \in Copies /\ Group!Copy(ms, k).members = ms /\ Group!Copy(ms, k).key = k
         /\ s[1] \in Copies /\ s[1].members \in SUBSET Members /\ s[1].key \in 1..MaxGroupKeys
<1>1. Len(s) \in Nat /\ Len(s) # 0 BY EmptySeq, LenProperties
<1>2. 1 \in 1..Len(s) BY <1>1
<1>3. s[1] \in Copies
  <2> HIDE DEF Copies
  <2> QED BY <1>2, ElementOfSeq
<1>4. \A c \in Copies : /\ [c EXCEPT !.members = ms] = Group!Copy(ms, c.key)
                        /\ [c EXCEPT !.key = k] = Group!Copy(c.members, k)
                        /\ c.members \in SUBSET Members /\ c.key \in 1..MaxGroupKeys
  BY DEF Copies, Group!Copy
<1>5. Group!Copy(ms, k) \in Copies /\ Group!Copy(ms, k).members = ms /\ Group!Copy(ms, k).key = k
  BY DEF Copies, Group!Copy
<1>6. /\ [s EXCEPT ![1].members = ms] = [s EXCEPT ![1] = [s[1] EXCEPT !.members = ms]]
      /\ [s EXCEPT ![1].key = k] = [s EXCEPT ![1] = [s[1] EXCEPT !.key = k]]
  OBVIOUS
<1> HIDE DEF Copies
<1> QED BY <1>3, <1>4, <1>5, <1>6

(* What one user's new copies leave.                                         *)
LEMMA CopiesHeld ==
  ASSUME GroupTypes, NEW u \in Members, NEW s \in Seq(Copies), Group!Has(u, s)
  PROVE  /\ groups' \in [Members -> Seq(Copies)] /\ groups'[u] = s
         /\ \A v \in Members \ {u} : groups'[v] = groups[v] /\ known'[v] = known[v]
         /\ known' \in [Members -> SUBSET Group!Keys]
         /\ known[u] \subseteq known'[u]
         /\ \A i \in 1..Len(s) : s[i].key \in known'[u]
         /\ \A k \in known'[u] : k \in known[u] \/ \E i \in 1..Len(s) : k = s[i].key
<1> DEFINE ks == {s[i].key : i \in 1..Len(s)}
<1>1. \A i \in 1..Len(s) : s[i] \in Copies
  <2> HIDE DEF Copies
  <2> QED BY ElementOfSeq
<1>2. ks \in SUBSET Group!Keys
  BY <1>1 DEF Copies, Group!Keys
<1>3. groups' = [groups EXCEPT ![u] = s] /\ known' = [known EXCEPT ![u] = @ \cup ks]
  BY DEF Group!Has
<1>4. /\ \A i \in 1..Len(s) : s[i].key \in ks
      /\ \A k \in ks : \E i \in 1..Len(s) : k = s[i].key
  OBVIOUS
<1> HIDE DEF ks, Copies
<1>5. /\ groups' \in [Members -> Seq(Copies)] /\ groups'[u] = s
      /\ \A v \in Members \ {u} : groups'[v] = groups[v] /\ known'[v] = known[v]
  BY <1>3 DEF GroupTypes
<1>6. known' \in [Members -> SUBSET Group!Keys] /\ known'[u] = known[u] \cup ks
  BY <1>2, <1>3 DEF GroupTypes
<1> QED BY <1>4, <1>5, <1>6

(* What a step asks of the new copies of a user, of the keys made, and of    *)
(* the blobs written.                                                        *)
CopiesGood(u, s) ==
  \A i \in 1..Len(s) :
    /\ u \in s[i].members
    /\ s[i].key \in known[u] \/ (s[i].key <= groupIssued' /\ u \in circle'[s[i].key])

KeysGrow ==
  /\ groupIssued' \in 0..MaxGroupKeys /\ groupIssued <= groupIssued'
  /\ groupIssued' = 0 => groupIssued = 0
  /\ circle' \in [Group!Keys -> SUBSET Members]
  /\ \A k \in Group!Keys : k <= groupIssued => circle'[k] = circle[k]

BlobsGood ==
  /\ out' \subseteq Group!Blobs /\ groupNet' \subseteq Group!Blobs /\ groupDisturbed' \in BOOLEAN
  /\ \A m \in out' \cup groupNet' : m \in out \cup groupNet \/ (groupIssued' # 0 /\ GoodBlob(m)')

(* A user's copies change and the rest stays, or a key is made for him and   *)
(* others.                                                                   *)
LEMMA BaseKept ==
  ASSUME GroupBase, NEW u \in Members, NEW s \in Seq(Copies), Group!Has(u, s),
         s = <<>> \/ groupIssued' # 0, CopiesGood(u, s), KeysGrow, BlobsGood
  PROVE  GroupBase'
<1> USE DEF GroupBase, CopiesGood, KeysGrow, BlobsGood
<1>1. /\ groups' \in [Members -> Seq(Copies)] /\ groups'[u] = s
      /\ \A v \in Members \ {u} : groups'[v] = groups[v] /\ known'[v] = known[v]
      /\ known' \in [Members -> SUBSET Group!Keys]
      /\ known[u] \subseteq known'[u]
      /\ \A i \in 1..Len(s) : s[i].key \in known'[u]
      /\ \A k \in known'[u] : k \in known[u] \/ \E i \in 1..Len(s) : k = s[i].key
  BY CopiesHeld
<1>2. GroupTypes' BY <1>1 DEF GroupTypes
<1>3. \A v \in Members : \A i \in 1..Len(groups'[v]) :
        v \in groups'[v][i].members /\ groups'[v][i].key \in known'[v]
  BY <1>1
<1>k. \A v \in Members : \A k \in known[v] : k \in Group!Keys /\ k <= groupIssued /\ v \in circle[k]
  BY DEF GroupTypes
<1>i. groupIssued \in Nat /\ groupIssued' \in Nat
  BY DEF GroupTypes
<1>4. ASSUME NEW v \in Members, NEW k \in known'[v]
      PROVE  k <= groupIssued' /\ v \in circle'[k]
  <2>1. CASE k \in known[v]
    <3>1. k \in Nat BY <1>k, <2>1 DEF Group!Keys
    <3> QED BY <1>k, <1>i, <2>1, <3>1
  <2>2. CASE k \notin known[v]
    <3>1. v = u BY <1>1, <1>4, <2>2
    <3>2. PICK i \in 1..Len(s) : k = s[i].key BY <1>1, <1>4, <2>2, <3>1
    <3> QED BY <2>2, <3>1, <3>2
  <2> QED BY <2>1, <2>2
<1>5. ASSUME NEW m \in out \cup groupNet PROVE GoodBlob(m)'
  <2>1. GoodBlob(m) OBVIOUS
  <2>2. m.key \in 1..MaxGroupKeys /\ m.key <= groupIssued =>
          m.key <= groupIssued' /\ circle'[m.key] = circle[m.key]
    BY <1>i DEF Group!Keys
  <2> QED BY <2>1, <2>2 DEF GoodBlob
<1>6. \A m \in out' \cup groupNet' : GoodBlob(m)' BY <1>5
<1>7. groupIssued' = 0 => (\A v \in Members : groups'[v] = <<>>) /\ out' \cup groupNet' = {}
  BY <1>1
<1> QED BY <1>2, <1>3, <1>4, <1>6, <1>7

(* Only blobs move.                                                          *)
LEMMA BaseMoved ==
  ASSUME GroupBase, UNCHANGED <<groups, groupIssued, circle, known>>, groupDisturbed' \in BOOLEAN,
         out' \subseteq out \cup groupNet, groupNet' \subseteq out \cup groupNet
  PROVE  GroupBase'
<1>1. GroupTypes' BY DEF GroupBase, GroupTypes
<1>2. \A m \in out' \cup groupNet' : GoodBlob(m)' BY DEF GroupBase, GoodBlob
<1> QED BY <1>1, <1>2 DEF GroupBase

(* The blobs there are.                                                      *)
LEMMA BlobFields ==
  /\ \A v \in Members : \A g \in Copies : LET m == Group!Invite(v, g) IN
       /\ m \in Group!Blobs /\ m.to = v /\ m.type = "invite" /\ m.members = g.members /\ m.key = g.key
       /\ m.who = None
  /\ \A v, w \in Members : \A t \in {"add", "remove", "leave"} : LET m == Group!Tell(v, t, w) IN
       /\ m \in Group!Blobs /\ m.to = v /\ m.type = t /\ m.who = w /\ m.key = None
  /\ \A v \in Members : \A k \in 1..MaxGroupKeys : LET m == Group!Rekey(v, k) IN
       /\ m \in Group!Blobs /\ m.to = v /\ m.type = "rekey" /\ m.key = k /\ m.who = None
BY DEF Group!Invite, Group!Tell, Group!Rekey, Group!Blobs, Group!Keys, Copies

(* A key is made.                                                            *)
LEMMA KeyMade ==
  ASSUME GroupTypes, NEW ms \in SUBSET Members, Group!Generated(ms)
  PROVE  /\ groupIssued' \in 1..MaxGroupKeys /\ groupIssued' = groupIssued + 1
         /\ groupIssued' \in 0..MaxGroupKeys /\ groupIssued <= groupIssued' /\ groupIssued' # 0
         /\ circle' \in [Group!Keys -> SUBSET Members] /\ circle'[groupIssued'] = ms
         /\ \A k \in Group!Keys : k <= groupIssued => circle'[k] = circle[k]
<1>1. groupIssued \in 0..MaxGroupKeys /\ groupIssued < MaxGroupKeys /\ MaxGroupKeys \in Nat
      /\ groupIssued' = groupIssued + 1
  BY LimitsAssumption DEF GroupTypes, Group!Generated
<1>2. groupIssued' \in 1..MaxGroupKeys BY <1>1
<1>3. circle' = [circle EXCEPT ![groupIssued'] = ms] BY DEF Group!Generated
<1>4. \A k \in Group!Keys : k <= groupIssued => k # groupIssued'
  BY <1>1 DEF Group!Keys
<1> QED BY <1>1, <1>2, <1>3, <1>4 DEF GroupTypes, Group!Keys

(* The copies after a rotation.                                              *)
LEMMA RotatedCopies ==
  ASSUME GroupBase, NEW u \in Members, Group!InGroup(u), NEW ms \in SUBSET Members,
         Group!Generated(ms)
  PROVE  /\ Group!Rotated(u, ms) \in Seq(Copies) /\ Len(Group!Rotated(u, ms)) = Len(groups[u])
         /\ Group!Rotated(u, ms) # <<>>
         /\ Group!Rotated(u, ms)[1].members = ms /\ Group!Rotated(u, ms)[1].key = groupIssued'
         /\ \A i \in 1..Len(groups[u]) : i # 1 => Group!Rotated(u, ms)[i] = groups[u][i]
<1>1. groups[u] \in Seq(Copies) /\ groups[u] # <<>>
  BY DEF GroupBase, GroupTypes, Group!InGroup
<1>2. groupIssued' \in 1..MaxGroupKeys BY KeyMade DEF GroupBase
<1>3. /\ Group!Copy(ms, groupIssued') \in Copies /\ Group!Copy(ms, groupIssued').members = ms
      /\ Group!Copy(ms, groupIssued').key = groupIssued'
  BY <1>1, <1>2, CopyChanged
<1>4. Group!Rotated(u, ms) = [groups[u] EXCEPT ![1] = Group!Copy(ms, groupIssued')]
  BY DEF Group!Rotated
<1> HIDE DEF Copies
<1> QED BY <1>1, <1>3, <1>4, FirstReplaced

(* The copies with other members, or another key.                            *)
LEMMA ChangedCopies ==
  ASSUME GroupBase, NEW u \in Members, Group!InGroup(u)
  PROVE  /\ groups[u] \in Seq(Copies) /\ groups[u] # <<>> /\ Len(groups[u]) \in Nat
         /\ Group!View(u).members \in SUBSET Members /\ Group!View(u).key \in 1..MaxGroupKeys
         /\ u \in Group!View(u).members /\ Group!View(u).key \in known[u]
         /\ \A ms \in SUBSET Members : LET s == Group!WithMembers(u, ms) IN
              /\ s \in Seq(Copies) /\ Len(s) = Len(groups[u]) /\ s # <<>>
              /\ s[1].members = ms /\ s[1].key = Group!View(u).key
              /\ \A i \in 1..Len(groups[u]) : i # 1 => s[i] = groups[u][i]
         /\ \A k \in 1..MaxGroupKeys : LET s == [groups[u] EXCEPT ![1].key = k] IN
              /\ s \in Seq(Copies) /\ Len(s) = Len(groups[u]) /\ s # <<>>
              /\ s[1].members = Group!View(u).members /\ s[1].key = k
              /\ \A i \in 1..Len(groups[u]) : i # 1 => s[i] = groups[u][i]
<1>1. groups[u] \in Seq(Copies) /\ groups[u] # <<>>
  BY DEF GroupBase, GroupTypes, Group!InGroup
<1>2. Len(groups[u]) \in Nat /\ 1 \in 1..Len(groups[u])
  <2>1. Len(groups[u]) \in Nat /\ Len(groups[u]) # 0
    BY <1>1, EmptySeq, LenProperties
  <2> QED BY <2>1
<1>3. ASSUME NEW ms \in SUBSET Members
      PROVE  LET s == Group!WithMembers(u, ms) IN
              /\ s \in Seq(Copies) /\ Len(s) = Len(groups[u]) /\ s # <<>>
              /\ s[1].members = ms /\ s[1].key = Group!View(u).key
              /\ \A i \in 1..Len(groups[u]) : i # 1 => s[i] = groups[u][i]
  <2>1. groups[u][1] \in Copies
    <3> HIDE DEF Copies
    <3> QED BY <1>1, <1>2, ElementOfSeq
  <2>2. groups[u][1].key \in 1..MaxGroupKeys BY <2>1 DEF Copies
  <2>3. /\ Group!WithMembers(u, ms) = [groups[u] EXCEPT ![1] = Group!Copy(ms, groups[u][1].key)]
        /\ Group!Copy(ms, groups[u][1].key) \in Copies
        /\ Group!Copy(ms, groups[u][1].key).members = ms
        /\ Group!Copy(ms, groups[u][1].key).key = groups[u][1].key
    <3>1. PICK k \in 1..MaxGroupKeys : k = groups[u][1].key BY <2>2
    <3>2. /\ [groups[u] EXCEPT ![1].members = ms] = [groups[u] EXCEPT ![1] = Group!Copy(ms, groups[u][1].key)]
          /\ Group!Copy(ms, k) \in Copies /\ Group!Copy(ms, k).members = ms /\ Group!Copy(ms, k).key = k
      BY <1>1, CopyChanged
    <3> QED BY <3>1, <3>2 DEF Group!WithMembers
  <2> HIDE DEF Copies
  <2> QED BY <1>1, <2>3, FirstReplaced DEF Group!View
<1>4. ASSUME NEW k \in 1..MaxGroupKeys
      PROVE  LET s == [groups[u] EXCEPT ![1].key = k] IN
              /\ s \in Seq(Copies) /\ Len(s) = Len(groups[u]) /\ s # <<>>
              /\ s[1].members = Group!View(u).members /\ s[1].key = k
              /\ \A i \in 1..Len(groups[u]) : i # 1 => s[i] = groups[u][i]
  <2>1. /\ [groups[u] EXCEPT ![1].key = k] = [groups[u] EXCEPT ![1] = Group!Copy(groups[u][1].members, k)]
        /\ groups[u][1].members \in SUBSET Members
    BY <1>1, CopyChanged
  <2>2. /\ Group!Copy(groups[u][1].members, k) \in Copies
        /\ Group!Copy(groups[u][1].members, k).members = groups[u][1].members
        /\ Group!Copy(groups[u][1].members, k).key = k
    BY <1>1, <2>1, CopyChanged
  <2> HIDE DEF Copies
  <2> QED BY <1>1, <2>1, <2>2, FirstReplaced DEF Group!View
<1>5. /\ Group!View(u).members \in SUBSET Members /\ Group!View(u).key \in 1..MaxGroupKeys
      /\ u \in Group!View(u).members /\ Group!View(u).key \in known[u]
  <2>1. groups[u][1] \in Copies
    <3> HIDE DEF Copies
    <3> QED BY <1>1, <1>2, ElementOfSeq
  <2> QED BY <1>2, <2>1 DEF Group!View, Copies, GroupBase
<1> QED BY <1>1, <1>2, <1>3, <1>4, <1>5

(* A rotation and the blobs that tell of it.                                 *)
LEMMA BaseRotated ==
  ASSUME GroupBase, NEW u \in Members, Group!InGroup(u), NEW ms \in SUBSET Members, u \in ms,
         Group!Generated(ms), Group!Has(u, Group!Rotated(u, ms)), groupNet' \subseteq groupNet,
         groupDisturbed' \in BOOLEAN,
         \A m \in out' : \/ m \in out \/ m \in {Group!Rekey(w, groupIssued') : w \in ms}
                         \/ m \in {Group!Invite(w, Group!Copy(ms, groupIssued')) : w \in ms}
                         \/ \E v, w \in Members : m \in {Group!Tell(v, "add", w), Group!Tell(v, "remove", w)}
  PROVE  GroupBase'
<1> DEFINE s == Group!Rotated(u, ms)
<1>1. /\ groupIssued' \in 1..MaxGroupKeys /\ groupIssued' = groupIssued + 1
      /\ groupIssued' \in 0..MaxGroupKeys /\ groupIssued <= groupIssued' /\ groupIssued' # 0
      /\ circle' \in [Group!Keys -> SUBSET Members] /\ circle'[groupIssued'] = ms
      /\ \A k \in Group!Keys : k <= groupIssued => circle'[k] = circle[k]
  BY KeyMade DEF GroupBase
<1>2. /\ s \in Seq(Copies) /\ Len(s) = Len(groups[u]) /\ s # <<>>
      /\ s[1].members = ms /\ s[1].key = groupIssued'
      /\ \A i \in 1..Len(groups[u]) : i # 1 => s[i] = groups[u][i]
  BY RotatedCopies
<1>3. ASSUME NEW i \in 1..Len(s)
      PROVE  /\ u \in s[i].members
             /\ s[i].key \in known[u] \/ (s[i].key <= groupIssued' /\ u \in circle'[s[i].key])
  <2>1. CASE i = 1 BY <1>1, <1>2, <2>1
  <2>2. CASE i # 1 BY <1>2, <2>2 DEF GroupBase
  <2> QED BY <2>1, <2>2
<1>4. Group!Copy(ms, groupIssued') \in Copies /\ Group!Copy(ms, groupIssued').members = ms
      /\ Group!Copy(ms, groupIssued').key = groupIssued'
  BY <1>1 DEF Copies, Group!Copy
<1>5. ASSUME NEW m \in out', m \notin out PROVE m \in Group!Blobs /\ GoodBlob(m)'
  <2>1. CASE m \in {Group!Rekey(w, groupIssued') : w \in ms}
    <3>1. PICK w \in ms : m = Group!Rekey(w, groupIssued') BY <2>1
    <3>2. m \in Group!Blobs /\ m.to = w /\ m.type = "rekey" /\ m.key = groupIssued'
      BY <1>1, <3>1, BlobFields
    <3> QED BY <1>1, <3>2 DEF GoodBlob
  <2>2. CASE m \in {Group!Invite(w, Group!Copy(ms, groupIssued')) : w \in ms}
    <3>1. PICK w \in ms : m = Group!Invite(w, Group!Copy(ms, groupIssued')) BY <2>2
    <3>2. m \in Group!Blobs /\ m.to = w /\ m.type = "invite" /\ m.key = groupIssued' /\ m.members = ms
      BY <1>4, <3>1, BlobFields
    <3> QED BY <1>1, <3>2 DEF GoodBlob
  <2>3. CASE \E v, w \in Members : m \in {Group!Tell(v, "add", w), Group!Tell(v, "remove", w)}
    <3>1. PICK v, w \in Members : m \in {Group!Tell(v, "add", w), Group!Tell(v, "remove", w)} BY <2>3
    <3>2. m \in Group!Blobs /\ m.type \in {"add", "remove"} /\ m.who \in Members
      BY <3>1, BlobFields
    <3> QED BY <3>2 DEF GoodBlob
  <2> QED BY <1>5, <2>1, <2>2, <2>3
<1>6. out' \subseteq Group!Blobs /\ groupNet' \subseteq Group!Blobs
  BY <1>5 DEF GroupBase, GroupTypes
<1>7. \A m \in out' \cup groupNet' : m \in out \cup groupNet \/ (groupIssued' # 0 /\ GoodBlob(m)')
  BY <1>1, <1>5
<1>8. CopiesGood(u, s) BY <1>3 DEF CopiesGood
<1>9. KeysGrow BY <1>1 DEF KeysGrow
<1>10. BlobsGood BY <1>6, <1>7 DEF BlobsGood
<1>11. Group!Has(u, s) /\ s \in Seq(Copies) BY <1>2
<1> HIDE DEF s, Copies
<1> QED BY <1>1, <1>8, <1>9, <1>10, <1>11, BaseKept

(* An arrival that changes the copies of one user.                           *)
LEMMA BaseArrival ==
  ASSUME GroupBase, NEW u \in Members, NEW s \in Seq(Copies), Group!Has(u, s), groupIssued # 0,
         out' = out, groupIssued' = groupIssued, circle' = circle,
         groupNet' \subseteq groupNet, groupDisturbed' \in BOOLEAN, CopiesGood(u, s)
  PROVE  GroupBase'
<1>1. KeysGrow BY DEF KeysGrow, GroupBase, GroupTypes
<1>2. BlobsGood BY DEF BlobsGood, GroupBase, GroupTypes
<1> HIDE DEF Copies
<1> QED BY <1>1, <1>2, BaseKept

(* Somebody's first copy has other members, or another key.                  *)
LEMMA BaseFirst ==
  ASSUME GroupBase, NEW u \in Members, NEW s \in Seq(Copies), Group!Has(u, s), groupIssued # 0,
         out' = out, groupIssued' = groupIssued, circle' = circle,
         groupNet' \subseteq groupNet, groupDisturbed' \in BOOLEAN,
         Len(s) = Len(groups[u]), \A i \in 1..Len(groups[u]) : i # 1 => s[i] = groups[u][i],
         u \in s[1].members,
         s[1].key \in known[u] \/ (s[1].key <= groupIssued /\ u \in circle[s[1].key])
  PROVE  GroupBase'
<1>1. CopiesGood(u, s)
  <2>1. ASSUME NEW i \in 1..Len(s)
        PROVE  /\ u \in s[i].members
               /\ s[i].key \in known[u] \/ (s[i].key <= groupIssued /\ u \in circle[s[i].key])
    <3>1. CASE i = 1 BY <3>1
    <3>2. CASE i # 1 BY <3>2 DEF GroupBase
    <3> QED BY <3>1, <3>2
  <2> QED BY <2>1 DEF CopiesGood
<1> HIDE DEF Copies
<1> QED BY <1>1, BaseArrival

(* No group yet.                                                             *)
LEMMA BaseInit == Group!Init => GroupBase
<1> SUFFICES ASSUME Group!Init PROVE GroupBase
  OBVIOUS
<1>1. /\ groups = [u \in Members |-> <<>>] /\ out = {} /\ groupNet = {} /\ groupIssued = 0
      /\ circle = [k \in Group!Keys |-> {}] /\ known = [u \in Members |-> {}] /\ groupDisturbed = FALSE
  BY DEF Group!Init
<1>2. <<>> \in Seq(Copies) /\ Len(<<>>) = 0
  <2> HIDE DEF Copies
  <2> QED BY EmptySeq
<1>3. groupIssued \in 0..MaxGroupKeys BY <1>1, LimitsAssumption
<1>4. GroupTypes
  <2> HIDE DEF Copies
  <2> QED BY <1>1, <1>2, <1>3 DEF GroupTypes
<1>5. \A u \in Members : groups[u] = <<>> /\ known[u] = {} BY <1>1
<1>6. \A u \in Members : 1..Len(groups[u]) = {} BY <1>2, <1>5
<1> QED BY <1>1, <1>4, <1>5, <1>6 DEF GroupBase

(* Whatever is changed, sent, lost or arrives keeps it.                      *)
LEMMA BaseStep == GroupBase /\ [Group!Next]_groupVars => GroupBase'
<1> SUFFICES ASSUME GroupBase, [Group!Next]_groupVars PROVE GroupBase'
  OBVIOUS
<1>t. /\ out \subseteq Group!Blobs /\ groupNet \subseteq Group!Blobs /\ groupDisturbed \in BOOLEAN
      /\ groupIssued \in 0..MaxGroupKeys /\ circle \in [Group!Keys -> SUBSET Members]
      /\ groups \in [Members -> Seq(Copies)]
  BY DEF GroupBase, GroupTypes
<1>m. \A m \in out \cup groupNet : m.to \in Members /\ GoodBlob(m)
  BY <1>t DEF GroupBase, Group!Blobs
<1>e. <<>> \in Seq(Copies) /\ Len(<<>>) = 0
  <2> HIDE DEF Copies
  <2> QED BY EmptySeq
<1>n. \A m \in out \cup groupNet : groupIssued # 0
  BY DEF GroupBase
<1>1. CASE UNCHANGED groupVars
  <2>1. UNCHANGED <<groups, out, groupNet, groupIssued, circle, known, groupDisturbed>>
    BY <1>1 DEF groupVars
  <2> QED BY <1>t, <2>1, BaseMoved
<1>2. ASSUME NEW others \in SUBSET Members, Group!Create(others) PROVE GroupBase'
  <2> DEFINE ms == others \cup {Creator}
             g == Group!Copy(ms, 1)
  <2>1. /\ groupIssued = 0 /\ Group!Generated(g.members) /\ Group!Has(Creator, <<g>>)
        /\ out' = {Group!Invite(v, g) : v \in others} /\ groupNet' = groupNet
        /\ groupDisturbed' = groupDisturbed
    BY <1>2 DEF Group!Create
  <2>2. g.members = ms /\ g.key = 1 /\ ms \in SUBSET Members BY MembersAssumption DEF Group!Copy
  <2>3. /\ groupIssued' \in 1..MaxGroupKeys /\ groupIssued' = groupIssued + 1
        /\ groupIssued' \in 0..MaxGroupKeys /\ groupIssued <= groupIssued' /\ groupIssued' # 0
        /\ circle' \in [Group!Keys -> SUBSET Members] /\ circle'[groupIssued'] = ms
        /\ \A k \in Group!Keys : k <= groupIssued => circle'[k] = circle[k]
    <3> HIDE DEF ms, g
    <3> QED BY <2>1, <2>2, KeyMade DEF GroupBase
  <2>4. groupIssued' = 1 BY <2>1, <2>3
  <2>5. g \in Copies BY <2>2, <2>3, <2>4 DEF Copies, Group!Copy
  <2>6. <<g>> \in Seq(Copies) /\ Len(<<g>>) = 1 /\ <<g>>[1] = g
    <3> HIDE DEF g, Copies
    <3> QED BY <2>5
  <2>7. \A i \in 1..Len(<<g>>) : /\ Creator \in <<g>>[i].members
                                 /\ <<g>>[i].key <= groupIssued' /\ Creator \in circle'[<<g>>[i].key]
    <3>1. Creator \in ms OBVIOUS
    <3> HIDE DEF ms, g
    <3> QED BY <2>2, <2>3, <2>4, <2>6, <3>1
  <2>8. ASSUME NEW m \in out' PROVE m \in Group!Blobs /\ GoodBlob(m)'
    <3>1. PICK v \in others : m = Group!Invite(v, g) BY <2>1, <2>8
    <3>2. m \in Group!Blobs /\ m.to = v /\ m.type = "invite" /\ m.members = ms /\ m.key = 1
      <4> HIDE DEF g, ms, Copies
      <4> QED BY <2>2, <2>5, <3>1, BlobFields
    <3> QED BY <2>3, <2>4, <3>2 DEF GoodBlob
  <2>9. /\ out' \subseteq Group!Blobs /\ groupNet' \subseteq Group!Blobs /\ groupDisturbed' \in BOOLEAN
        /\ \A m \in out' \cup groupNet' : m \in out \cup groupNet \/ (groupIssued' # 0 /\ GoodBlob(m)')
    BY <1>t, <2>1, <2>3, <2>8
  <2>10. KeysGrow /\ groupIssued' # 0 BY <2>3 DEF KeysGrow
  <2>11. CopiesGood(Creator, <<g>>) BY <2>7 DEF CopiesGood
  <2>12. BlobsGood BY <2>9 DEF BlobsGood
  <2>13. Creator \in Members BY MembersAssumption
  <2> HIDE DEF g, ms, Copies
  <2> QED BY <2>1, <2>6, <2>10, <2>11, <2>12, <2>13, BaseKept
<1>3. ASSUME NEW u \in Members, NEW v \in Members, Group!Add(u, v) PROVE GroupBase'
  <2> DEFINE ms == Group!View(u).members \cup {v}
  <2>1. /\ Group!InGroup(u) /\ Group!Generated(ms) /\ Group!Has(u, Group!Rotated(u, ms))
        /\ out' = out \cup {Group!Invite(v, Group!Copy(ms, groupIssued'))}
                   \cup UNION {{Group!Tell(w, "add", v), Group!Rekey(w, groupIssued')} : w \in ms \ {u, v}}
        /\ Group!Crossing /\ groupNet' = groupNet
    BY <1>3 DEF Group!Add
  <2>2. ms \in SUBSET Members /\ u \in ms /\ v \in ms
    BY <2>1, ChangedCopies
  <2>3. groupDisturbed' \in BOOLEAN BY <1>t, <2>1 DEF Group!Crossing
  <2> HIDE DEF ms
  <2>4. \A m \in out' : \/ m \in out \/ m \in {Group!Rekey(w, groupIssued') : w \in ms}
                         \/ m \in {Group!Invite(w, Group!Copy(ms, groupIssued')) : w \in ms}
                         \/ \E x, w \in Members : m \in {Group!Tell(x, "add", w), Group!Tell(x, "remove", w)}
    BY <2>1, <2>2
  <2> QED BY <2>1, <2>2, <2>3, <2>4, BaseRotated
<1>4. ASSUME NEW u \in Members, NEW v \in Members, Group!Kick(u, v) PROVE GroupBase'
  <2> DEFINE ms == Group!View(u).members \ {v}
  <2>1. /\ Group!InGroup(u) /\ v # u /\ Group!Generated(ms) /\ Group!Has(u, Group!Rotated(u, ms))
        /\ out' = out \cup {Group!Tell(v, "remove", v)}
                   \cup UNION {{Group!Tell(w, "remove", v), Group!Rekey(w, groupIssued')} : w \in ms \ {u}}
        /\ Group!Crossing /\ groupNet' = groupNet
    BY <1>4 DEF Group!Kick
  <2>2. ms \in SUBSET Members /\ u \in ms
    BY <2>1, ChangedCopies
  <2>3. groupDisturbed' \in BOOLEAN BY <1>t, <2>1 DEF Group!Crossing
  <2> HIDE DEF ms
  <2>4. \A m \in out' : \/ m \in out \/ m \in {Group!Rekey(w, groupIssued') : w \in ms}
                         \/ m \in {Group!Invite(w, Group!Copy(ms, groupIssued')) : w \in ms}
                         \/ \E x, w \in Members : m \in {Group!Tell(x, "add", w), Group!Tell(x, "remove", w)}
    BY <2>1, <2>2
  <2> QED BY <2>1, <2>2, <2>3, <2>4, BaseRotated
<1>5. ASSUME NEW u \in Members, Group!Rotate(u) PROVE GroupBase'
  <2> DEFINE ms == Group!View(u).members
  <2>1. /\ Group!InGroup(u) /\ Group!Generated(ms) /\ Group!Has(u, Group!Rotated(u, ms))
        /\ out' = out \cup {Group!Rekey(w, groupIssued') : w \in ms \ {u}}
        /\ Group!Crossing /\ groupNet' = groupNet
    BY <1>5 DEF Group!Rotate
  <2>2. ms \in SUBSET Members /\ u \in ms
    BY <2>1, ChangedCopies
  <2>3. groupDisturbed' \in BOOLEAN BY <1>t, <2>1 DEF Group!Crossing
  <2> HIDE DEF ms
  <2>4. \A m \in out' : \/ m \in out \/ m \in {Group!Rekey(w, groupIssued') : w \in ms}
                         \/ m \in {Group!Invite(w, Group!Copy(ms, groupIssued')) : w \in ms}
                         \/ \E x, w \in Members : m \in {Group!Tell(x, "add", w), Group!Tell(x, "remove", w)}
    BY <2>1, <2>2
  <2> QED BY <2>1, <2>2, <2>3, <2>4, BaseRotated
<1>6. ASSUME NEW u \in Members, Group!Leave(u) PROVE GroupBase'
  <2>1. /\ Group!InGroup(u) /\ Group!Has(u, <<>>)
        /\ out' = out \cup {Group!Tell(w, "leave", u) : w \in Group!View(u).members \ {u}}
        /\ Group!Crossing /\ UNCHANGED <<groupNet, groupIssued, circle>>
    BY <1>6 DEF Group!Leave
  <2>2. groupIssued # 0 BY <2>1 DEF GroupBase, Group!InGroup
  <2>3. Group!View(u).members \subseteq Members BY <2>1, ChangedCopies
  <2>4. ASSUME NEW m \in out', m \notin out PROVE m \in Group!Blobs /\ GoodBlob(m)'
    <3>1. PICK w \in Group!View(u).members \ {u} : m = Group!Tell(w, "leave", u)
      BY <2>1, <2>4
    <3>2. m \in Group!Blobs /\ m.to = w /\ m.type = "leave" /\ m.who = u
      BY <2>3, <3>1, BlobFields
    <3> QED BY <3>2 DEF GoodBlob
  <2>5. KeysGrow BY <1>t, <2>1 DEF KeysGrow
  <2>6. BlobsGood BY <1>t, <2>1, <2>2, <2>4 DEF BlobsGood, Group!Crossing
  <2>7. CopiesGood(u, <<>>) BY <1>e DEF CopiesGood
  <2> HIDE DEF Copies
  <2> QED BY <1>e, <2>1, <2>5, <2>6, <2>7, BaseKept
<1>7. ASSUME NEW m \in out \cup groupNet, Group!Send(m) \/ Group!SendFails(m) \/ Group!Lost(m) PROVE GroupBase'
  <2>1. /\ out' \subseteq out /\ groupNet' \subseteq out \cup groupNet
        /\ groupDisturbed' \in BOOLEAN /\ UNCHANGED <<groups, groupIssued, circle, known>>
    BY <1>7, <1>t DEF Group!Send, Group!SendFails, Group!Lost
  <2> QED BY <2>1, BaseMoved
<1>8. ASSUME NEW m \in groupNet, Group!Invited(m) PROVE GroupBase'
  <2>0. PICK u \in Members : u = m.to BY <1>m
  <2> DEFINE g == Group!Copy(m.members, m.key)
             s == Append(groups[u], g)
  <2>1. /\ m.type = "invite" /\ groupNet' = groupNet \ {m} /\ Group!Has(u, s)
        /\ out' = out /\ groupIssued' = groupIssued /\ circle' = circle
        /\ groupDisturbed' = groupDisturbed
    BY <1>8, <2>0 DEF Group!Invited, Group!Arrives
  <2>2. /\ m.members \in SUBSET Members /\ m.key \in 1..MaxGroupKeys
        /\ m.key <= groupIssued /\ u \in circle[m.key] /\ u \in m.members
    BY <1>m, <1>t, <2>0, <2>1 DEF GoodBlob, Group!Blobs
  <2>3. g \in Copies /\ g.members = m.members /\ g.key = m.key
    BY <2>2 DEF Copies, Group!Copy
  <2>4. groups[u] \in Seq(Copies) BY <1>t
  <2> HIDE DEF g
  <2>5. /\ s \in Seq(Copies) /\ Len(s) = Len(groups[u]) + 1
        /\ \A i \in 1..Len(groups[u]) : s[i] = groups[u][i]
        /\ s[Len(groups[u]) + 1] = g
    <3> HIDE DEF Copies
    <3> QED BY <2>3, <2>4, AppendProperties
  <2>6. Len(groups[u]) \in Nat
    <3> HIDE DEF Copies
    <3> QED BY <2>4, LenProperties
  <2> HIDE DEF s
  <2>7. ASSUME NEW i \in 1..Len(s)
        PROVE  /\ u \in s[i].members
               /\ s[i].key \in known[u] \/ (s[i].key <= groupIssued' /\ u \in circle'[s[i].key])
    <3>1. CASE i = Len(groups[u]) + 1 BY <2>1, <2>2, <2>3, <2>5, <3>1
    <3>2. CASE i # Len(groups[u]) + 1
      <4>1. i \in 1..Len(groups[u]) BY <2>5, <2>6, <3>2
      <4> QED BY <2>5, <4>1 DEF GroupBase
    <3> QED BY <3>1, <3>2
  <2>8. CopiesGood(u, s) BY <2>7 DEF CopiesGood
  <2>9. groupIssued # 0 /\ groupNet' \subseteq groupNet /\ groupDisturbed' \in BOOLEAN
    BY <1>n, <1>t, <2>1
  <2> HIDE DEF Copies
  <2> QED BY <2>1, <2>5, <2>8, <2>9, BaseArrival
(* Somebody's first copy has other members, or another key.                  *)
<1>b. ASSUME NEW m \in groupNet, NEW s \in Seq(Copies), Group!Has(m.to, s),
             UNCHANGED <<out, groupIssued, circle>>, groupNet' \subseteq groupNet, groupDisturbed' \in BOOLEAN,
             Len(s) = Len(groups[m.to]), \A i \in 1..Len(groups[m.to]) : i # 1 => s[i] = groups[m.to][i],
             m.to \in s[1].members,
             s[1].key \in known[m.to] \/ (s[1].key <= groupIssued /\ m.to \in circle[s[1].key])
      PROVE  GroupBase'
  <2>1. PICK u \in Members : u = m.to BY <1>m
  <2>2. groupIssued # 0 BY <1>n
  <2>3. out' = out /\ groupIssued' = groupIssued /\ circle' = circle BY <1>b
  <2>4. /\ Group!Has(u, s) /\ Len(s) = Len(groups[u]) /\ u \in s[1].members
        /\ \A i \in 1..Len(groups[u]) : i # 1 => s[i] = groups[u][i]
        /\ s[1].key \in known[u] \/ (s[1].key <= groupIssued /\ u \in circle[s[1].key])
    BY <1>b, <2>1
  <2> HIDE DEF Copies
  <2> QED BY <1>b, <2>2, <2>3, <2>4, BaseFirst
<1>c. ASSUME NEW m \in groupNet, UNCHANGED <<groups, out, groupIssued, circle, known>>,
             groupNet' \subseteq groupNet, groupDisturbed' \in BOOLEAN
      PROVE  GroupBase'
  BY <1>c, BaseMoved
<1>9. ASSUME NEW m \in groupNet, Group!Added(m) PROVE GroupBase'
  <2>1. /\ m.type = "add" /\ groupNet' \subseteq groupNet /\ groupDisturbed' \in BOOLEAN
        /\ UNCHANGED <<out, groupIssued, circle>> /\ m.to \in Members /\ m.who \in Members
    BY <1>9, <1>m, <1>t DEF Group!Added, Group!Arrives, GoodBlob
  <2>2. CASE Group!InGroup(m.to)
    <3> DEFINE ms == Group!View(m.to).members \cup {m.who}
    <3>1. Group!Has(m.to, Group!WithMembers(m.to, ms)) BY <1>9, <2>2 DEF Group!Added
    <3>2. ms \in SUBSET Members /\ m.to \in ms /\ Group!View(m.to).key \in known[m.to]
      BY <2>1, <2>2, ChangedCopies
    <3> HIDE DEF ms
    <3>3. PICK s \in Seq(Copies) :
             /\ s = Group!WithMembers(m.to, ms) /\ Len(s) = Len(groups[m.to])
             /\ s[1].members = ms /\ s[1].key = Group!View(m.to).key
             /\ \A i \in 1..Len(groups[m.to]) : i # 1 => s[i] = groups[m.to][i]
      BY <2>1, <2>2, <3>2, ChangedCopies
    <3> HIDE DEF Copies
    <3> QED BY <1>b, <2>1, <2>2, <3>1, <3>2, <3>3
  <2>3. CASE ~Group!InGroup(m.to)
    <3>1. UNCHANGED <<groups, known>> BY <1>9, <2>3 DEF Group!Added
    <3> QED BY <1>c, <2>1, <3>1
  <2> QED BY <2>2, <2>3
<1>10. ASSUME NEW m \in groupNet, Group!Rekeyed(m) PROVE GroupBase'
  <2>1. /\ m.type = "rekey" /\ groupNet' \subseteq groupNet /\ groupDisturbed' \in BOOLEAN
        /\ UNCHANGED <<out, groupIssued, circle>> /\ m.to \in Members
        /\ m.key \in 1..MaxGroupKeys /\ m.key <= groupIssued /\ m.to \in circle[m.key]
    BY <1>10, <1>m, <1>t DEF Group!Rekeyed, Group!Arrives, GoodBlob
  <2>2. CASE Group!InGroup(m.to)
    <3>1. Group!Has(m.to, [groups[m.to] EXCEPT ![1].key = m.key]) BY <1>10, <2>2 DEF Group!Rekeyed
    <3>2. m.to \in Group!View(m.to).members
      BY <2>1, <2>2, ChangedCopies
    <3>3. PICK s \in Seq(Copies) :
             /\ s = [groups[m.to] EXCEPT ![1].key = m.key] /\ Len(s) = Len(groups[m.to])
             /\ s[1].members = Group!View(m.to).members /\ s[1].key = m.key
             /\ \A i \in 1..Len(groups[m.to]) : i # 1 => s[i] = groups[m.to][i]
      <4>1. PICK u \in Members : u = m.to BY <2>1
      <4>2. PICK k \in 1..MaxGroupKeys : k = m.key BY <2>1
      <4>3. LET s == [groups[u] EXCEPT ![1].key = k] IN
              /\ s \in Seq(Copies) /\ Len(s) = Len(groups[u])
              /\ s[1].members = Group!View(u).members /\ s[1].key = k
              /\ \A i \in 1..Len(groups[u]) : i # 1 => s[i] = groups[u][i]
        <5>1. Group!InGroup(u) BY <2>2, <4>1
        <5> HIDE DEF Copies
        <5> QED BY <5>1, ChangedCopies
      <4> DEFINE t == [groups[u] EXCEPT ![1].key = k]
      <4>4. t = [groups[m.to] EXCEPT ![1].key = m.key] BY <4>1, <4>2
      <4>5. /\ t \in Seq(Copies) /\ Len(t) = Len(groups[u])
            /\ t[1].members = Group!View(u).members /\ t[1].key = k
            /\ \A i \in 1..Len(groups[u]) : i # 1 => t[i] = groups[u][i]
        <5> HIDE DEF Copies
        <5> QED BY <4>3
      <4> HIDE DEF Copies, t
      <4>6. /\ t[1].members = Group!View(m.to).members /\ Len(t) = Len(groups[m.to])
            /\ \A i \in 1..Len(groups[m.to]) : i # 1 => t[i] = groups[m.to][i]
        BY <4>1, <4>5
      <4>7. t[1].key = m.key /\ t \in Seq(Copies) BY <4>2, <4>5
      <4> QED BY <4>4, <4>6, <4>7, Zenon
    <3> HIDE DEF Copies
    <3> QED BY <1>b, <2>1, <2>2, <3>1, <3>2, <3>3
  <2>3. CASE ~Group!InGroup(m.to)
    <3>1. UNCHANGED <<groups, known>> BY <1>10, <2>3 DEF Group!Rekeyed
    <3> QED BY <1>c, <2>1, <3>1
  <2> QED BY <2>2, <2>3
<1>11. ASSUME NEW m \in groupNet, Group!Removed(m) PROVE GroupBase'
  <2>1. /\ groupNet' \subseteq groupNet /\ groupDisturbed' \in BOOLEAN
        /\ UNCHANGED <<out, groupIssued, circle>> /\ m.to \in Members
    BY <1>11, <1>m, <1>t DEF Group!Removed, Group!Arrives
  <2>2. CASE Group!InGroup(m.to) /\ m.who # m.to
    <3> DEFINE ms == Group!View(m.to).members \ {m.who}
    <3>1. Group!Has(m.to, Group!WithMembers(m.to, ms)) BY <1>11, <2>2 DEF Group!Removed
    <3>2. ms \in SUBSET Members /\ m.to \in ms /\ Group!View(m.to).key \in known[m.to]
      BY <2>1, <2>2, ChangedCopies
    <3> HIDE DEF ms
    <3>3. PICK s \in Seq(Copies) :
             /\ s = Group!WithMembers(m.to, ms) /\ Len(s) = Len(groups[m.to])
             /\ s[1].members = ms /\ s[1].key = Group!View(m.to).key
             /\ \A i \in 1..Len(groups[m.to]) : i # 1 => s[i] = groups[m.to][i]
      BY <2>1, <2>2, <3>2, ChangedCopies
    <3> HIDE DEF Copies
    <3> QED BY <1>b, <2>1, <2>2, <3>1, <3>2, <3>3
  <2>3. CASE Group!InGroup(m.to) /\ m.who = m.to
    <3>0. PICK u \in Members : u = m.to BY <2>1
    <3>1. Group!Has(u, <<>>) BY <1>11, <2>3, <3>0 DEF Group!Removed
    <3>2. groupIssued # 0 BY <1>n
    <3>3. CopiesGood(u, <<>>) BY <1>e DEF CopiesGood
    <3>4. out' = out /\ groupIssued' = groupIssued /\ circle' = circle BY <2>1
    <3> HIDE DEF Copies
    <3> QED BY <1>e, <2>1, <3>1, <3>2, <3>3, <3>4, BaseArrival
  <2>4. CASE ~Group!InGroup(m.to)
    <3>1. UNCHANGED <<groups, known>> BY <1>11, <2>4 DEF Group!Removed
    <3> QED BY <1>c, <2>1, <3>1
  <2> QED BY <2>2, <2>3, <2>4
<1>12. ASSUME NEW m \in groupNet, Group!Left(m) PROVE GroupBase'
  <2>1. /\ groupNet' \subseteq groupNet /\ m.to \in Members /\ m.who # m.to
    BY <1>12, <1>m DEF Group!Left, Group!Arrives, GoodBlob
  <2>2. CASE Group!InGroup(m.to)
    <3> DEFINE ms == Group!View(m.to).members \ {m.who}
    <3>1. CASE m.to = Creator
      <4>1. /\ Group!Generated(ms) /\ Group!Has(m.to, Group!Rotated(m.to, ms))
            /\ out' = out \cup {Group!Rekey(w, groupIssued') : w \in ms \ {m.to}}
            /\ groupDisturbed' = (groupDisturbed \/ \E o \in out \cup groupNet : o.key # None)
        BY <1>12, <2>2, <3>1 DEF Group!Left
      <4>2. ms \in SUBSET Members /\ m.to \in ms BY <2>1, <2>2, ChangedCopies
      <4>3. groupDisturbed' \in BOOLEAN BY <1>t, <4>1
      <4> HIDE DEF ms
      <4>4. \A o \in out' : \/ o \in out \/ o \in {Group!Rekey(w, groupIssued') : w \in ms}
                         \/ o \in {Group!Invite(w, Group!Copy(ms, groupIssued')) : w \in ms}
                         \/ \E x, w \in Members : o \in {Group!Tell(x, "add", w), Group!Tell(x, "remove", w)}
        BY <4>1, <4>2
      <4> QED BY <2>1, <2>2, <4>1, <4>2, <4>3, <4>4, BaseRotated
    <3>2. CASE m.to # Creator
      <4>1. /\ Group!Has(m.to, Group!WithMembers(m.to, ms))
            /\ UNCHANGED <<out, groupIssued, circle, groupDisturbed>>
        BY <1>12, <2>2, <3>2 DEF Group!Left
      <4>2. ms \in SUBSET Members /\ m.to \in ms /\ Group!View(m.to).key \in known[m.to]
        BY <2>1, <2>2, ChangedCopies
      <4> HIDE DEF ms
      <4>3. PICK s \in Seq(Copies) :
             /\ s = Group!WithMembers(m.to, ms) /\ Len(s) = Len(groups[m.to])
             /\ s[1].members = ms /\ s[1].key = Group!View(m.to).key
             /\ \A i \in 1..Len(groups[m.to]) : i # 1 => s[i] = groups[m.to][i]
        BY <2>1, <2>2, <4>2, ChangedCopies
      <4>4. groupDisturbed' \in BOOLEAN BY <1>t, <4>1
      <4> HIDE DEF Copies
      <4> QED BY <1>b, <2>1, <2>2, <4>1, <4>2, <4>3, <4>4
    <3> QED BY <3>1, <3>2
  <2>3. CASE ~Group!InGroup(m.to)
    <3>1. UNCHANGED <<groups, out, groupIssued, circle, known, groupDisturbed>>
      BY <1>12, <2>3 DEF Group!Left
    <3> QED BY <1>c, <1>t, <2>1, <3>1
  <2> QED BY <2>2, <2>3
<1> QED
  BY <1>1, <1>2, <1>3, <1>4, <1>5, <1>6, <1>7, <1>8, <1>9, <1>10, <1>11, <1>12, Zenon DEF Group!Next

-----------------------------------------------------------------------------
(* Where the group is going: its members, their key, and the change that is  *)
(* under way. What each member has, and what is on the way to him, leads     *)
(* there.                                                                    *)
Heading(u, s, P, M, k, x, t) ==
  IF u \in M
  THEN IF s # <<>>
       THEN /\ Len(s) = 1 /\ Group!Invite(u, Group!Copy(M, k)) \notin P
            /\ Group!Tell(u, t, x) \notin P => s[1].members = M
            /\ Group!Tell(u, t, x) \in P => s[1].members = (IF t = "add" THEN M \ {x} ELSE M \cup {x})
            /\ Group!Rekey(u, k) \notin P => s[1].key = k
       ELSE /\ Group!Invite(u, Group!Copy(M, k)) \in P
            /\ Group!Tell(u, t, x) \notin P /\ Group!Rekey(u, k) \notin P
  ELSE /\ Group!Invite(u, Group!Copy(M, k)) \notin P /\ Group!Rekey(u, k) \notin P
       /\ s # <<>> => Group!Tell(u, t, x) \in P
       /\ Group!Tell(u, t, x) \in P => u = x /\ t = "remove"

Change(M, x, t) ==
  /\ M \subseteq Members /\ x \in Members /\ t \in {"add", "remove", "leave"}
  /\ t = "add" <=> x \in M

OfChange(m, M, k, x, t) ==
  m \in {Group!Tell(m.to, t, x), Group!Rekey(m.to, k), Group!Invite(m.to, Group!Copy(M, k))}

Goal(M, k, x, t) ==
  /\ Change(M, x, t)
  /\ out \cap groupNet = {}
  /\ \A m \in out \cup groupNet : OfChange(m, M, k, x, t)
  /\ \A u \in Members : Heading(u, groups[u], out \cup groupNet, M, k, x, t)

GroupInv ==
  /\ GroupBase
  /\ ~groupDisturbed => \E M \in SUBSET Members, k \in Nat, x \in Members,
                           t \in {"add", "remove", "leave"} : Goal(M, k, x, t)

(* The fields of a blob.                                                     *)
LEMMA Fields ==
  /\ \A v, g : LET m == Group!Invite(v, g) IN
       m.to = v /\ m.type = "invite" /\ m.members = g.members /\ m.key = g.key
  /\ \A v, r, w : LET m == Group!Tell(v, r, w) IN m.to = v /\ m.type = r /\ m.who = w /\ m.key = None
  /\ \A v, k : LET m == Group!Rekey(v, k) IN m.to = v /\ m.type = "rekey" /\ m.key = k
  /\ \A ms, k : Group!Copy(ms, k).members = ms /\ Group!Copy(ms, k).key = k
BY DEF Group!Invite, Group!Tell, Group!Rekey, Group!Copy

(* At rest they agree.                                                       *)
LEMMA Arrived ==
  ASSUME GroupInv PROVE Group!MembersAgree
<1> SUFFICES ASSUME out \cup groupNet = {}, ~groupDisturbed, NEW u \in Members, NEW v \in Members,
                    Group!InGroup(u), v \in Group!View(u).members
             PROVE  Len(groups[v]) = 1 /\ groups[v] = groups[u]
  BY DEF Group!MembersAgree, Group!AtRest
<1>1. PICK M \in SUBSET Members, k \in Nat, x \in Members,
           t \in {"add", "remove", "leave"} : Goal(M, k, x, t)
  BY DEF GroupInv
<1>2. \A w \in Members : Heading(w, groups[w], {}, M, k, x, t)
  BY <1>1 DEF Goal
<1>3. ASSUME NEW w \in Members, w \in M
      PROVE  groups[w] # <<>> /\ Len(groups[w]) = 1 /\ groups[w][1].members = M /\ groups[w][1].key = k
  BY <1>2, <1>3 DEF Heading
<1>4. u \in M BY <1>2 DEF Heading, Group!InGroup
<1>5. v \in M BY <1>3, <1>4 DEF Group!View
<1>6. /\ groups[u] \in Seq(Copies) /\ groups[v] \in Seq(Copies)
  BY DEF GroupInv, GroupBase, GroupTypes
<1>7. groups[u][1] \in Copies /\ groups[v][1] \in Copies
  <2>1. 1 \in 1..Len(groups[u]) /\ 1 \in 1..Len(groups[v]) BY <1>3, <1>4, <1>5
  <2> HIDE DEF Copies
  <2> QED BY <1>6, <2>1, ElementOfSeq
<1>8. \A a, b \in Copies : a.members = b.members /\ a.key = b.key => a = b
  BY DEF Copies
<1>9. groups[u][1] = groups[v][1] BY <1>3, <1>4, <1>5, <1>7, <1>8
<1> HIDE DEF Copies
<1> QED BY <1>3, <1>4, <1>5, <1>6, <1>9, SeqEqual

(* No group yet.                                                             *)
LEMMA GroupInit == Group!Init => GroupInv
<1> SUFFICES ASSUME Group!Init PROVE GroupInv
  OBVIOUS
<1>1. GroupBase BY BaseInit
<1>2. /\ out = {} /\ groupNet = {} /\ \A u \in Members : groups[u] = <<>>
  BY DEF Group!Init
<1>3. Goal({}, 1, Creator, "remove")
  <2>1. \A u \in Members : Heading(u, groups[u], {}, {}, 1, Creator, "remove")
    BY <1>2 DEF Heading
  <2>2. Change({}, Creator, "remove") BY MembersAssumption DEF Change
  <2> QED BY <1>2, <2>1, <2>2 DEF Goal
<1>4. {} \in SUBSET Members /\ 1 \in Nat /\ Creator \in Members /\ "remove" \in {"add", "remove", "leave"}
  BY MembersAssumption
<1>5. \E M \in SUBSET Members, k \in Nat, x \in Members, t \in {"add", "remove", "leave"} : Goal(M, k, x, t)
  BY <1>3, <1>4, Zenon
<1> QED BY <1>1, <1>5 DEF GroupInv

(* What is on the way to others does not matter to a user.                   *)
LEMMA Elsewhere ==
  ASSUME NEW u, NEW s, NEW P, NEW m, u # m.to, NEW M, NEW k, NEW x, NEW t,
         Heading(u, s, P, M, k, x, t)
  PROVE  Heading(u, s, P \ {m}, M, k, x, t)
<1>1. \A b : b.to = u => (b \in P \ {m} <=> b \in P)
  OBVIOUS
<1>2. /\ Group!Invite(u, Group!Copy(M, k)) \in P \ {m} <=> Group!Invite(u, Group!Copy(M, k)) \in P
      /\ Group!Tell(u, t, x) \in P \ {m} <=> Group!Tell(u, t, x) \in P
      /\ Group!Rekey(u, k) \in P \ {m} <=> Group!Rekey(u, k) \in P
  BY <1>1, Fields
<1> QED BY <1>2 DEF Heading

(* A blob arrives, and the copies of who gets it are what they should be.    *)
LEMMA Landed ==
  ASSUME NEW M, NEW k, NEW x, NEW t, Goal(M, k, x, t), NEW m \in groupNet, NEW u \in Members, u = m.to,
         groupNet' = groupNet \ {m}, out' = out, \A v \in Members \ {u} : groups'[v] = groups[v],
         Heading(u, groups'[u], (out \cup groupNet) \ {m}, M, k, x, t)
  PROVE  Goal(M, k, x, t)'
<1>1. out' \cap groupNet' = {} /\ out' \cup groupNet' = (out \cup groupNet) \ {m}
  BY DEF Goal
<1>2. ASSUME NEW v \in Members
      PROVE  Heading(v, groups'[v], out' \cup groupNet', M, k, x, t)
  <2>1. CASE v = u BY <1>1, <2>1
  <2>2. CASE v # u
    <3>1. Heading(v, groups[v], out \cup groupNet, M, k, x, t) BY DEF Goal
    <3>2. Heading(v, groups[v], (out \cup groupNet) \ {m}, M, k, x, t)
      BY <2>2, <3>1, Elsewhere
    <3> QED BY <1>1, <2>2, <3>2
  <2> QED BY <2>1, <2>2
<1>3. \A b \in out' \cup groupNet' : OfChange(b, M, k, x, t) BY <1>1 DEF Goal
<1>4. Change(M, x, t) BY DEF Goal
<1> QED BY <1>1, <1>2, <1>3, <1>4 DEF Goal

(* What each arrival makes of the copies of who gets it.                     *)
AfterTold(u, s, P, M, k, x, t) ==
  /\ s # <<>> \/ u \notin M
  /\ u \notin M => u = x /\ t = "remove" /\ Heading(u, <<>>, P \ {Group!Tell(u, t, x)}, M, k, x, t)
  /\ u \in M => \A c : c # <<>> /\ Len(c) = Len(s) /\ c[1].key = s[1].key
              /\ (t = "add" => c[1].members = s[1].members \cup {x})
              /\ (t # "add" => c[1].members = s[1].members \ {x})
              => Heading(u, c, P \ {Group!Tell(u, t, x)}, M, k, x, t)

(* He who is told of the change has it then.                                 *)
LEMMA HeadTold ==
  ASSUME NEW u, NEW s, NEW P, NEW M, NEW k, NEW x, NEW t, Change(M, x, t),
         Heading(u, s, P, M, k, x, t), Group!Tell(u, t, x) \in P
  PROVE  AfterTold(u, s, P, M, k, x, t)
<1> DEFINE Q == P \ {Group!Tell(u, t, x)}
<1>1. /\ Group!Invite(u, Group!Copy(M, k)) \in Q <=> Group!Invite(u, Group!Copy(M, k)) \in P
      /\ Group!Rekey(u, k) \in Q <=> Group!Rekey(u, k) \in P
      /\ Group!Tell(u, t, x) \notin Q
  <2>1. /\ Group!Invite(u, Group!Copy(M, k)).type = "invite" /\ Group!Rekey(u, k).type = "rekey"
        /\ Group!Tell(u, t, x).type = t
    BY Fields
  <2>2. t # "invite" /\ t # "rekey" BY DEF Change
  <2>3. Group!Invite(u, Group!Copy(M, k)) # Group!Tell(u, t, x) /\ Group!Rekey(u, k) # Group!Tell(u, t, x)
    BY <2>1, <2>2
  <2> QED BY <2>3
<1> HIDE DEF Q
<1>2. s # <<>> \/ u \notin M BY DEF Heading
<1>3. ASSUME u \notin M PROVE u = x /\ t = "remove" /\ Heading(u, <<>>, Q, M, k, x, t)
  BY <1>1, <1>3 DEF Heading
<1>4. ASSUME u \in M, NEW c, c # <<>>, Len(c) = Len(s), c[1].key = s[1].key,
             t = "add" => c[1].members = s[1].members \cup {x},
             t # "add" => c[1].members = s[1].members \ {x}
      PROVE  Heading(u, c, Q, M, k, x, t)
  <2>1. s # <<>> BY <1>2, <1>4
  <2>2. c[1].members = M
    <3>1. CASE t = "add" BY <1>4, <2>1, <3>1 DEF Heading, Change
    <3>2. CASE t # "add" BY <1>4, <2>1, <3>2 DEF Heading, Change
    <3> QED BY <3>1, <3>2
  <2> QED BY <1>1, <1>4, <2>1, <2>2 DEF Heading
<1> QED BY <1>2, <1>3, <1>4 DEF Q, AfterTold

(* He who gets the key has it then.                                          *)
LEMMA HeadRekeyed ==
  ASSUME NEW u, NEW s, NEW P, NEW M, NEW k, NEW x, NEW t, Change(M, x, t),
         Heading(u, s, P, M, k, x, t), Group!Rekey(u, k) \in P
  PROVE  /\ s # <<>>
         /\ \A c : c # <<>> /\ Len(c) = Len(s) /\ c[1].key = k /\ c[1].members = s[1].members
              => Heading(u, c, P \ {Group!Rekey(u, k)}, M, k, x, t)
<1> DEFINE Q == P \ {Group!Rekey(u, k)}
<1>1. /\ Group!Invite(u, Group!Copy(M, k)) \in Q <=> Group!Invite(u, Group!Copy(M, k)) \in P
      /\ Group!Tell(u, t, x) \in Q <=> Group!Tell(u, t, x) \in P
  <2>1. /\ Group!Invite(u, Group!Copy(M, k)).type = "invite" /\ Group!Rekey(u, k).type = "rekey"
        /\ Group!Tell(u, t, x).type = t
    BY Fields
  <2>2. t # "rekey" BY DEF Change
  <2>3. Group!Invite(u, Group!Copy(M, k)) # Group!Rekey(u, k) /\ Group!Tell(u, t, x) # Group!Rekey(u, k)
    BY <2>1, <2>2
  <2> QED BY <2>3
<1> HIDE DEF Q
<1>2. u \in M /\ s # <<>> BY DEF Heading
<1>3. ASSUME NEW c, c # <<>>, Len(c) = Len(s), c[1].key = k, c[1].members = s[1].members
      PROVE  Heading(u, c, Q, M, k, x, t)
  BY <1>1, <1>2, <1>3 DEF Heading
<1> QED BY <1>2, <1>3 DEF Q

(* He who is invited has the group as it will be.                            *)
LEMMA HeadInvited ==
  ASSUME NEW u, NEW s, NEW P, NEW M, NEW k, NEW x, NEW t, Change(M, x, t),
         Heading(u, s, P, M, k, x, t), Group!Invite(u, Group!Copy(M, k)) \in P
  PROVE  /\ s = <<>>
         /\ Heading(u, <<Group!Copy(M, k)>>, P \ {Group!Invite(u, Group!Copy(M, k))}, M, k, x, t)
<1> DEFINE g == Group!Copy(M, k)
           Q == P \ {Group!Invite(u, g)}
<1>1. u \in M /\ s = <<>> /\ Group!Tell(u, t, x) \notin P /\ Group!Rekey(u, k) \notin P
  BY DEF Heading
<1>2. Group!Tell(u, t, x) \notin Q /\ Group!Rekey(u, k) \notin Q /\ Group!Invite(u, g) \notin Q
  BY <1>1
<1>3. g.members = M /\ g.key = k BY Fields
<1> HIDE DEF g, Q
<1>4. <<g>> # <<>> /\ Len(<<g>>) = 1 /\ <<g>>[1] = g OBVIOUS
<1>5. Heading(u, <<g>>, Q, M, k, x, t)
  BY <1>1, <1>2, <1>3, <1>4 DEF Heading, g
<1> QED BY <1>1, <1>5 DEF Q, g

(* Blobs of the change, by their kind.                                       *)
KindKnown(m, M, k, x, t) ==
  /\ m.type = t => m = Group!Tell(m.to, t, x) /\ m.who = x
  /\ m.type \in {"add", "remove", "leave"} => m.type = t
  /\ m.type = "rekey" => m = Group!Rekey(m.to, k) /\ m.key = k
  /\ m.type = "invite" => m = Group!Invite(m.to, Group!Copy(M, k)) /\ m.members = M /\ m.key = k

(* A blob of a change is told, a key or an invitation, by its type.          *)
LEMMA Kinds ==
  ASSUME NEW M, NEW k, NEW x, NEW t, Change(M, x, t), NEW m, OfChange(m, M, k, x, t)
  PROVE  KindKnown(m, M, k, x, t)
<1> USE DEF KindKnown
<1>0. PICK u : u = m.to OBVIOUS
<1>1. t \in {"add", "remove", "leave"} BY DEF Change
<1>2. CASE m = Group!Tell(u, t, x)
  <2>1. m.type = t /\ m.who = x /\ m.key = None BY <1>2, Fields
  <2> QED BY <1>0, <1>1, <1>2, <2>1
<1>3. CASE m = Group!Rekey(u, k)
  <2>1. m.type = "rekey" /\ m.key = k BY <1>3, Fields
  <2> QED BY <1>0, <1>1, <1>3, <2>1
<1>4. CASE m = Group!Invite(u, Group!Copy(M, k))
  <2>1. m.type = "invite" /\ m.members = M /\ m.key = k BY <1>4, Fields
  <2> QED BY <1>0, <1>1, <1>4, <2>1
<1> QED BY <1>0, <1>2, <1>3, <1>4 DEF OfChange

(* The name of who comes or goes.                                            *)
LEMMA ToldArrives ==
  ASSUME GroupBase, NEW M \in SUBSET Members, NEW k, NEW x \in Members, NEW t, Goal(M, k, x, t),
         NEW m \in groupNet, m.type = t, groupNet' = groupNet \ {m}, out' = out,
         Group!InGroup(m.to) =>
           \/ m.who # m.to /\ Group!Has(m.to, Group!WithMembers(m.to,
                IF t = "add" THEN Group!View(m.to).members \cup {m.who} ELSE Group!View(m.to).members \ {m.who}))
           \/ t = "add" /\ Group!Has(m.to, Group!WithMembers(m.to, Group!View(m.to).members \cup {m.who}))
           \/ m.who = m.to /\ t # "add" /\ Group!Has(m.to, <<>>),
         ~Group!InGroup(m.to) => groups' = groups
  PROVE  Goal(M, k, x, t)'
<1>1. PICK u \in Members : u = m.to
  BY DEF GroupBase, GroupTypes, Group!Blobs
<1>2. Change(M, x, t) /\ Heading(u, groups[u], out \cup groupNet, M, k, x, t)
  BY DEF Goal
<1>c. OfChange(m, M, k, x, t) BY DEF Goal
<1>d. KindKnown(m, M, k, x, t) BY <1>2, <1>c, Kinds
<1>3. m = Group!Tell(u, t, x) /\ m.who = x
  BY <1>1, <1>2, <1>d DEF KindKnown
<1>4. Group!Tell(u, t, x) \in out \cup groupNet BY <1>3
<1>5. /\ groups[u] # <<>> \/ u \notin M
      /\ u \notin M => u = x /\ t = "remove" /\ Heading(u, <<>>, (out \cup groupNet) \ {m}, M, k, x, t)
      /\ u \in M => \A c : c # <<>> /\ Len(c) = Len(groups[u]) /\ c[1].key = groups[u][1].key
              /\ (t = "add" => c[1].members = groups[u][1].members \cup {x})
              /\ (t # "add" => c[1].members = groups[u][1].members \ {x})
              => Heading(u, c, (out \cup groupNet) \ {m}, M, k, x, t)
  <2> DEFINE P == out \cup groupNet
  <2> HIDE DEF P
  <2>1. Heading(u, groups[u], P, M, k, x, t) /\ Group!Tell(u, t, x) \in P
    BY <1>2, <1>4 DEF P
  <2>2. AfterTold(u, groups[u], P, M, k, x, t)
    BY <1>2, <2>1, HeadTold
  <2> QED BY <1>3, <2>2 DEF P, AfterTold
<1>6. groups \in [Members -> Seq(Copies)] BY DEF GroupBase, GroupTypes
<1>7. ASSUME Group!InGroup(u), u \in M
      PROVE  /\ \A v \in Members \ {u} : groups'[v] = groups[v]
             /\ Heading(u, groups'[u], (out \cup groupNet) \ {m}, M, k, x, t)
  <2>1. t # "add" => u # x BY <1>2, <1>7 DEF Change
  <2> DEFINE ms == IF t = "add" THEN groups[u][1].members \cup {x} ELSE groups[u][1].members \ {x}
             c == Group!WithMembers(u, ms)
  <2>2. Group!Has(u, c)
    BY <1>1, <1>3, <1>7, <2>1 DEF Group!View
  <2>3. ms \in SUBSET Members BY <1>7, ChangedCopies DEF Group!View
  <2>4. /\ c \in Seq(Copies) /\ Len(c) = Len(groups[u]) /\ c # <<>>
        /\ c[1].members = ms /\ c[1].key = groups[u][1].key
    <3> HIDE DEF ms, Copies
    <3> QED BY <1>7, <2>3, ChangedCopies DEF Group!View
  <2>5. /\ t = "add" => ms = groups[u][1].members \cup {x}
        /\ t # "add" => ms = groups[u][1].members \ {x}
    OBVIOUS
  <2> HIDE DEF c, ms, Copies
  <2>6. Heading(u, c, (out \cup groupNet) \ {m}, M, k, x, t)
    BY <1>5, <1>7, <2>4, <2>5
  <2>7. groups'[u] = c /\ \A v \in Members \ {u} : groups'[v] = groups[v]
    BY <1>6, <2>2 DEF Group!Has
  <2> QED BY <2>6, <2>7
<1>8. ASSUME u \notin M
      PROVE  /\ \A v \in Members \ {u} : groups'[v] = groups[v]
             /\ Heading(u, groups'[u], (out \cup groupNet) \ {m}, M, k, x, t)
  <2>1. CASE Group!InGroup(u)
    <3>1. Group!Has(u, <<>>) BY <1>1, <1>3, <1>5, <1>8, <2>1
    <3>2. groups'[u] = <<>> /\ \A v \in Members \ {u} : groups'[v] = groups[v]
      BY <1>6, <3>1 DEF Group!Has
    <3> QED BY <1>5, <1>8, <3>2
  <2>2. CASE ~Group!InGroup(u)
    <3>1. groups' = groups /\ groups[u] = <<>> BY <1>1, <2>2 DEF Group!InGroup
    <3> QED BY <1>5, <1>8, <3>1
  <2> QED BY <2>1, <2>2
<1>9. /\ \A v \in Members \ {u} : groups'[v] = groups[v]
      /\ Heading(u, groups'[u], (out \cup groupNet) \ {m}, M, k, x, t)
  BY <1>5, <1>7, <1>8 DEF Group!InGroup
<1> QED BY <1>1, <1>9, Landed

(* A key, and an invitation.                                                 *)
LEMMA KeyArrives ==
  ASSUME GroupBase, NEW M \in SUBSET Members, NEW k, NEW x \in Members, NEW t, Goal(M, k, x, t),
         NEW m \in groupNet, Group!Rekeyed(m)
  PROVE  Goal(M, k, x, t)'
<1>0. m.type = "rekey" /\ groupNet' = groupNet \ {m} /\ out' = out
  BY DEF Group!Rekeyed, Group!Arrives
<1>1. PICK u \in Members : u = m.to
  BY DEF GroupBase, GroupTypes, Group!Blobs
<1>2. Change(M, x, t) /\ Heading(u, groups[u], out \cup groupNet, M, k, x, t)
  BY DEF Goal
<1>c. OfChange(m, M, k, x, t) BY DEF Goal
<1>d. KindKnown(m, M, k, x, t) BY <1>2, <1>c, Kinds
<1>3. m = Group!Rekey(u, k) /\ m.key = k
  BY <1>0, <1>1, <1>2, <1>d DEF KindKnown
<1>4. k \in 1..MaxGroupKeys
  <2>1. GoodBlob(m) BY DEF GroupBase
  <2> QED BY <1>0, <1>3, <2>1 DEF GoodBlob
<1>5. /\ groups[u] # <<>>
      /\ \A c : c # <<>> /\ Len(c) = Len(groups[u]) /\ c[1].key = k /\ c[1].members = groups[u][1].members
              => Heading(u, c, (out \cup groupNet) \ {m}, M, k, x, t)
  BY <1>2, <1>3, HeadRekeyed
<1>6. groups \in [Members -> Seq(Copies)] BY DEF GroupBase, GroupTypes
<1> DEFINE c == [groups[u] EXCEPT ![1].key = k]
<1>7. Group!InGroup(u) BY <1>5 DEF Group!InGroup
<1>8. Group!Has(u, c) BY <1>1, <1>3, <1>7 DEF Group!Rekeyed
<1>9. c # <<>> /\ Len(c) = Len(groups[u]) /\ c[1].key = k /\ c[1].members = groups[u][1].members
  <2>0. PICK j \in 1..MaxGroupKeys : j = k BY <1>4
  <2>1. LET s == [groups[u] EXCEPT ![1].key = j] IN
          /\ s \in Seq(Copies) /\ Len(s) = Len(groups[u]) /\ s # <<>>
          /\ s[1].members = Group!View(u).members /\ s[1].key = j
          /\ \A i \in 1..Len(groups[u]) : i # 1 => s[i] = groups[u][i]
    <3> HIDE DEF Copies, c
    <3> QED BY <1>7, ChangedCopies
  <2> QED BY <2>0, <2>1 DEF Group!View
<1> HIDE DEF c, Copies
<1>10. groups'[u] = c /\ \A v \in Members \ {u} : groups'[v] = groups[v]
  BY <1>6, <1>8 DEF Group!Has
<1>11. Heading(u, groups'[u], (out \cup groupNet) \ {m}, M, k, x, t)
  BY <1>5, <1>9, <1>10
<1> QED BY <1>0, <1>1, <1>10, <1>11, Landed

(* An invitation arrives.                                                    *)
LEMMA InvitationArrives ==
  ASSUME GroupBase, NEW M \in SUBSET Members, NEW k, NEW x \in Members, NEW t, Goal(M, k, x, t),
         NEW m \in groupNet, Group!Invited(m)
  PROVE  Goal(M, k, x, t)'
<1>0. /\ m.type = "invite" /\ groupNet' = groupNet \ {m} /\ out' = out
      /\ Group!Has(m.to, Append(groups[m.to], Group!Copy(m.members, m.key)))
  BY DEF Group!Invited, Group!Arrives
<1>1. PICK u \in Members : u = m.to
  BY DEF GroupBase, GroupTypes, Group!Blobs
<1>2. Change(M, x, t) /\ Heading(u, groups[u], out \cup groupNet, M, k, x, t)
  BY DEF Goal
<1>c. OfChange(m, M, k, x, t) BY DEF Goal
<1>d. KindKnown(m, M, k, x, t) BY <1>2, <1>c, Kinds
<1>3. m = Group!Invite(u, Group!Copy(M, k)) /\ m.members = M /\ m.key = k
  BY <1>0, <1>1, <1>2, <1>d DEF KindKnown
<1>5. /\ groups[u] = <<>>
      /\ Heading(u, <<Group!Copy(M, k)>>, (out \cup groupNet) \ {m}, M, k, x, t)
  BY <1>2, <1>3, HeadInvited
<1>6. groups \in [Members -> Seq(Copies)] BY DEF GroupBase, GroupTypes
<1>7. Append(<<>>, Group!Copy(M, k)) = <<Group!Copy(M, k)>>
  OBVIOUS
<1>8. Group!Has(u, <<Group!Copy(M, k)>>)
  BY <1>0, <1>1, <1>3, <1>5, <1>7
<1> HIDE DEF Copies
<1>10. groups'[u] = <<Group!Copy(M, k)>> /\ \A v \in Members \ {u} : groups'[v] = groups[v]
  BY <1>6, <1>8 DEF Group!Has
<1>11. Heading(u, groups'[u], (out \cup groupNet) \ {m}, M, k, x, t)
  BY <1>5, <1>10
<1> QED BY <1>0, <1>1, <1>10, <1>11, Landed

(* The blobs of a change: who is invited, who is told, who gets the key; and *)
(* what his copies are.                                                      *)
Written(I, T, R, M, k, x, t) ==
  {Group!Invite(w, Group!Copy(M, k)) : w \in I} \cup {Group!Tell(w, t, x) : w \in T}
    \cup {Group!Rekey(w, k) : w \in R}

Due(u, s, I, T, R, M, k, x, t) ==
  IF u \in M
  THEN IF s # <<>>
       THEN /\ Len(s) = 1 /\ u \notin I
            /\ u \notin T => s[1].members = M
            /\ u \in T => s[1].members = (IF t = "add" THEN M \ {x} ELSE M \cup {x})
            /\ u \notin R => s[1].key = k
       ELSE u \in I /\ u \notin T /\ u \notin R
  ELSE /\ u \notin I /\ u \notin R
       /\ s # <<>> => u \in T
       /\ u \in T => u = x /\ t = "remove"

(* Which of the blobs of a change there are.                                 *)
LEMMA InWritten ==
  ASSUME NEW I, NEW T, NEW R, NEW M, NEW k, NEW x, NEW t, Change(M, x, t), NEW u
  PROVE  /\ Group!Invite(u, Group!Copy(M, k)) \in Written(I, T, R, M, k, x, t) <=> u \in I
         /\ Group!Tell(u, t, x) \in Written(I, T, R, M, k, x, t) <=> u \in T
         /\ Group!Rekey(u, k) \in Written(I, T, R, M, k, x, t) <=> u \in R
<1>1. t # "invite" /\ t # "rekey" BY DEF Change
<1>2. \A w : /\ Group!Invite(w, Group!Copy(M, k)).type = "invite" /\ Group!Invite(w, Group!Copy(M, k)).to = w
            /\ Group!Tell(w, t, x).type = t /\ Group!Tell(w, t, x).to = w
            /\ Group!Rekey(w, k).type = "rekey" /\ Group!Rekey(w, k).to = w
  BY Fields
<1> QED BY <1>1, <1>2 DEF Written

(* Copies and blobs that agree on where the group is going.                  *)
LEMMA Begun ==
  ASSUME NEW I, NEW T, NEW R, NEW M, NEW k, NEW x, NEW t, Change(M, x, t),
         out' \cap groupNet' = {}, out' \cup groupNet' = Written(I, T, R, M, k, x, t),
         \A u \in Members : Due(u, groups'[u], I, T, R, M, k, x, t)
  PROVE  Goal(M, k, x, t)'
<1> DEFINE P == Written(I, T, R, M, k, x, t)
<1>1. ASSUME NEW u \in Members PROVE Heading(u, groups'[u], P, M, k, x, t)
  <2>1. /\ Group!Invite(u, Group!Copy(M, k)) \in P <=> u \in I
        /\ Group!Tell(u, t, x) \in P <=> u \in T
        /\ Group!Rekey(u, k) \in P <=> u \in R
    BY InWritten
  <2>2. Due(u, groups'[u], I, T, R, M, k, x, t) OBVIOUS
  <2> HIDE DEF P
  <2> QED BY <2>1, <2>2 DEF Heading, Due
<1>2. ASSUME NEW m \in P PROVE OfChange(m, M, k, x, t)
  <2>1. CASE \E w \in I : m = Group!Invite(w, Group!Copy(M, k))
    BY <2>1, Fields DEF OfChange
  <2>2. CASE \E w \in T : m = Group!Tell(w, t, x)
    BY <2>2, Fields DEF OfChange
  <2>3. CASE \E w \in R : m = Group!Rekey(w, k)
    BY <2>3, Fields DEF OfChange
  <2> QED BY <2>1, <2>2, <2>3 DEF Written
<1> HIDE DEF P
<1>3. out' \cup groupNet' = P BY DEF P
<1> QED BY <1>1, <1>2, <1>3 DEF Goal

(* With nothing on the way, who is a member has the group as it is.          *)
LEMMA AtPeace ==
  ASSUME NEW M, NEW k, NEW x, NEW t, Goal(M, k, x, t), out \cup groupNet = {}, NEW u \in Members
  PROVE  /\ Group!InGroup(u) <=> u \in M
         /\ u \in M => groups[u] # <<>> /\ Len(groups[u]) = 1 /\ Group!View(u).members = M /\ Group!View(u).key = k
         /\ u \notin M => groups[u] = <<>>
<1>1. Heading(u, groups[u], {}, M, k, x, t) BY DEF Goal
<1> QED BY <1>1 DEF Heading, Group!InGroup, Group!View

(* What a rotation makes of the copies.                                      *)
LEMMA Turned ==
  ASSUME GroupBase, NEW u \in Members, Group!InGroup(u), NEW ms \in SUBSET Members,
         Group!Generated(ms), Group!Has(u, Group!Rotated(u, ms))
  PROVE  /\ groups'[u] # <<>> /\ Len(groups'[u]) = Len(groups[u])
         /\ groups'[u][1].members = ms /\ groups'[u][1].key = groupIssued'
         /\ \A v \in Members \ {u} : groups'[v] = groups[v]
         /\ groupIssued' \in Nat
<1>1. groupIssued' \in Nat BY KeyMade DEF GroupBase
<1>2. /\ Group!Rotated(u, ms) # <<>> /\ Len(Group!Rotated(u, ms)) = Len(groups[u])
      /\ Group!Rotated(u, ms)[1].members = ms /\ Group!Rotated(u, ms)[1].key = groupIssued'
  BY RotatedCopies
<1>3. groups' = [groups EXCEPT ![u] = Group!Rotated(u, ms)]
  BY DEF Group!Has
<1> QED BY <1>1, <1>2, <1>3 DEF GroupBase, GroupTypes

(* Every change that starts at rest leads somewhere.                         *)
GoalAhead ==
  \E M \in SUBSET Members, k \in Nat, x \in Members, t \in {"add", "remove", "leave"} : Goal(M, k, x, t)'

(* A member is added: invited, the others told, the key renewed.             *)
LEMMA AddLeads ==
  ASSUME GroupBase, NEW u \in Members, NEW v \in Members, Group!Add(u, v),
         NEW M \in SUBSET Members, NEW k, NEW x, NEW t, Goal(M, k, x, t), out \cup groupNet = {}
  PROVE  GoalAhead
<1> DEFINE ms == M \cup {v}
<1>1. u \in M /\ Group!View(u).members = M
  BY AtPeace DEF Group!Add
<1>2. /\ Group!InGroup(u) /\ v \notin M /\ Group!Generated(ms) /\ Group!Has(u, Group!Rotated(u, ms))
      /\ out' = out \cup {Group!Invite(v, Group!Copy(ms, groupIssued'))}
                 \cup UNION {{Group!Tell(w, "add", v), Group!Rekey(w, groupIssued')} : w \in ms \ {u, v}}
      /\ groupNet' = groupNet
  BY <1>1 DEF Group!Add
<1>3. ms \in SUBSET Members /\ v # u BY <1>1, <1>2
<1>4. Change(ms, v, "add") BY <1>3 DEF Change
<1> HIDE DEF ms
<1>5. /\ groups'[u] # <<>> /\ Len(groups'[u]) = Len(groups[u])
      /\ groups'[u][1].members = ms /\ groups'[u][1].key = groupIssued'
      /\ \A w \in Members \ {u} : groups'[w] = groups[w]
      /\ groupIssued' \in Nat
  BY <1>2, <1>3, Turned
<1> DEFINE I == {v}
           T == ms \ {u, v}
<1>6. out' \cup groupNet' = Written(I, T, T, ms, groupIssued', v, "add") /\ out' \cap groupNet' = {}
  BY <1>2 DEF Written
<1>7. ASSUME NEW w \in Members PROVE Due(w, groups'[w], I, T, T, ms, groupIssued', v, "add")
  <2>1. /\ w \in M => groups[w] # <<>> /\ Len(groups[w]) = 1 /\ groups[w][1].members = M
        /\ w \notin M => groups[w] = <<>>
    BY AtPeace DEF Group!View
  <2>2. CASE w = u BY <1>1, <1>2, <1>3, <1>5, <2>1, <2>2 DEF Due, ms
  <2>3. CASE w # u
    <3>1. groups'[w] = groups[w] BY <1>5, <2>3
    <3>2. ms \ {v} = M BY <1>2 DEF ms
    <3> QED BY <1>2, <2>1, <2>3, <3>1, <3>2 DEF Due, ms
  <2> QED BY <2>2, <2>3
<1>8. PICK n \in Nat : n = groupIssued' BY <1>5
<1> HIDE DEF I, T
<1>9. Goal(ms, n, v, "add")' BY <1>4, <1>6, <1>7, <1>8, Begun
<1> QED BY <1>3, <1>8, <1>9 DEF GoalAhead

(* A member is removed: told so, the others with a new key.                  *)
LEMMA KickLeads ==
  ASSUME GroupBase, NEW u \in Members, NEW v \in Members, Group!Kick(u, v),
         NEW M \in SUBSET Members, NEW k, NEW x, NEW t, Goal(M, k, x, t), out \cup groupNet = {}
  PROVE  GoalAhead
<1> DEFINE ms == M \ {v}
<1>1. u \in M /\ Group!View(u).members = M
  BY AtPeace DEF Group!Kick
<1>2. /\ Group!InGroup(u) /\ v \in M /\ v # u /\ Group!Generated(ms) /\ Group!Has(u, Group!Rotated(u, ms))
      /\ out' = out \cup {Group!Tell(v, "remove", v)}
                   \cup UNION {{Group!Tell(w, "remove", v), Group!Rekey(w, groupIssued')} : w \in ms \ {u}}
      /\ groupNet' = groupNet
  BY <1>1 DEF Group!Kick
<1>3. ms \in SUBSET Members OBVIOUS
<1>4. Change(ms, v, "remove") BY <1>3 DEF Change
<1> HIDE DEF ms
<1>5. /\ groups'[u] # <<>> /\ Len(groups'[u]) = Len(groups[u])
      /\ groups'[u][1].members = ms /\ groups'[u][1].key = groupIssued'
      /\ \A w \in Members \ {u} : groups'[w] = groups[w]
      /\ groupIssued' \in Nat
  BY <1>2, <1>3, Turned
<1> DEFINE T == {v} \cup (ms \ {u})
           R == ms \ {u}
<1>6. out' \cup groupNet' = Written({}, T, R, ms, groupIssued', v, "remove") /\ out' \cap groupNet' = {}
  BY <1>2 DEF Written
<1>7. ASSUME NEW w \in Members PROVE Due(w, groups'[w], {}, T, R, ms, groupIssued', v, "remove")
  <2>1. /\ w \in M => groups[w] # <<>> /\ Len(groups[w]) = 1 /\ groups[w][1].members = M
        /\ w \notin M => groups[w] = <<>>
    BY AtPeace DEF Group!View
  <2>2. CASE w = u BY <1>1, <1>2, <1>3, <1>5, <2>1, <2>2 DEF Due, ms
  <2>3. CASE w # u
    <3>1. groups'[w] = groups[w] BY <1>5, <2>3
    <3>2. ms \cup {v} = M BY <1>2 DEF ms
    <3> QED BY <1>2, <2>1, <2>3, <3>1, <3>2 DEF Due, ms
  <2> QED BY <2>2, <2>3
<1>8. PICK n \in Nat : n = groupIssued' BY <1>5
<1> HIDE DEF T, R
<1>9. Goal(ms, n, v, "remove")' BY <1>4, <1>6, <1>7, <1>8, Begun
<1> QED BY <1>3, <1>8, <1>9 DEF GoalAhead

(* The key is renewed, the members stay.                                     *)
LEMMA RotateLeads ==
  ASSUME GroupBase, NEW u \in Members, Group!Rotate(u),
         NEW M \in SUBSET Members, NEW k, NEW x \in Members, NEW t \in {"add", "remove", "leave"},
         Goal(M, k, x, t), out \cup groupNet = {}
  PROVE  GoalAhead
<1>0. Change(M, x, t) BY DEF Goal
<1>1. u \in M /\ Group!View(u).members = M /\ Group!InGroup(u)
  BY AtPeace DEF Group!Rotate
<1>2. /\ Group!Generated(M) /\ Group!Has(u, Group!Rotated(u, M))
      /\ out' = out \cup {Group!Rekey(w, groupIssued') : w \in M \ {u}}
      /\ groupNet' = groupNet
  BY <1>1 DEF Group!Rotate
<1>5. /\ groups'[u] # <<>> /\ Len(groups'[u]) = Len(groups[u])
      /\ groups'[u][1].members = M /\ groups'[u][1].key = groupIssued'
      /\ \A w \in Members \ {u} : groups'[w] = groups[w]
      /\ groupIssued' \in Nat
  BY <1>1, <1>2, Turned
<1> DEFINE R == M \ {u}
<1>6. out' \cup groupNet' = Written({}, {}, R, M, groupIssued', x, t) /\ out' \cap groupNet' = {}
  BY <1>2 DEF Written
<1>7. ASSUME NEW w \in Members PROVE Due(w, groups'[w], {}, {}, R, M, groupIssued', x, t)
  <2>1. /\ w \in M => groups[w] # <<>> /\ Len(groups[w]) = 1 /\ groups[w][1].members = M
        /\ w \notin M => groups[w] = <<>>
    BY AtPeace DEF Group!View
  <2>2. CASE w = u BY <1>1, <1>5, <2>1, <2>2 DEF Due
  <2>3. CASE w # u
    <3>1. groups'[w] = groups[w] BY <1>5, <2>3
    <3> QED BY <2>1, <2>3, <3>1 DEF Due
  <2> QED BY <2>2, <2>3
<1>8. PICK n \in Nat : n = groupIssued' BY <1>5
<1> HIDE DEF R
<1>9. Goal(M, n, x, t)' BY <1>0, <1>6, <1>7, <1>8, Begun
<1> QED BY <1>8, <1>9 DEF GoalAhead

(* A member leaves, and tells the others.                                    *)
LEMMA LeaveLeads ==
  ASSUME GroupBase, NEW u \in Members, Group!Leave(u),
         NEW M \in SUBSET Members, NEW k \in Nat, NEW x, NEW t,
         Goal(M, k, x, t), out \cup groupNet = {}
  PROVE  GoalAhead
<1> DEFINE ms == M \ {u}
<1>1. u \in M /\ Group!View(u).members = M
  BY AtPeace DEF Group!Leave
<1>2. /\ Group!Has(u, <<>>) /\ out' = out \cup {Group!Tell(w, "leave", u) : w \in ms}
      /\ groupNet' = groupNet
  BY <1>1 DEF Group!Leave
<1>3. ms \in SUBSET Members OBVIOUS
<1>4. Change(ms, u, "leave") BY <1>3 DEF Change
<1>5. groups'[u] = <<>> /\ \A w \in Members \ {u} : groups'[w] = groups[w]
  BY <1>2 DEF Group!Has, GroupBase, GroupTypes
<1>6. out' \cup groupNet' = Written({}, ms, {}, ms, k, u, "leave") /\ out' \cap groupNet' = {}
  BY <1>2 DEF Written
<1>7. ASSUME NEW w \in Members PROVE Due(w, groups'[w], {}, ms, {}, ms, k, u, "leave")
  <2>1. /\ w \in M => groups[w] # <<>> /\ Len(groups[w]) = 1 /\ groups[w][1].members = M /\ groups[w][1].key = k
        /\ w \notin M => groups[w] = <<>>
    BY AtPeace DEF Group!View
  <2>2. CASE w = u BY <1>5, <2>2 DEF Due
  <2>3. CASE w # u
    <3>1. groups'[w] = groups[w] BY <1>5, <2>3
    <3>2. ms \cup {u} = M BY <1>1
    <3> QED BY <2>1, <2>3, <3>1, <3>2 DEF Due
  <2> QED BY <2>2, <2>3
<1> HIDE DEF ms
<1>9. Goal(ms, k, u, "leave")' BY <1>4, <1>6, <1>7, Begun
<1> QED BY <1>3, <1>9 DEF GoalAhead

(* The group is made, its members invited.                                   *)
LEMMA CreateLeads ==
  ASSUME GroupBase, NEW others \in SUBSET Members, Group!Create(others)
  PROVE  GoalAhead
<1> DEFINE ms == others \cup {Creator}
<1>1. /\ groupIssued = 0 /\ Creator \notin others
      /\ Group!Has(Creator, <<Group!Copy(ms, 1)>>)
      /\ out' = {Group!Invite(v, Group!Copy(ms, 1)) : v \in others}
      /\ groupNet' = groupNet
  BY DEF Group!Create
<1>2. (\A u \in Members : groups[u] = <<>>) /\ out = {} /\ groupNet = {}
  BY <1>1 DEF GroupBase
<1>3. ms \in SUBSET Members /\ Creator \in Members BY MembersAssumption
<1>4. Change(ms, Creator, "add") BY <1>3 DEF Change
<1>5. /\ groups'[Creator] = <<Group!Copy(ms, 1)>>
      /\ \A w \in Members \ {Creator} : groups'[w] = groups[w]
  <2> HIDE DEF ms
  <2> QED BY <1>1, <1>3 DEF Group!Has, GroupBase, GroupTypes
<1>6. out' \cup groupNet' = Written(others, {}, {}, ms, 1, Creator, "add") /\ out' \cap groupNet' = {}
  BY <1>1, <1>2 DEF Written
<1>7. ASSUME NEW w \in Members PROVE Due(w, groups'[w], others, {}, {}, ms, 1, Creator, "add")
  <2>1. Group!Copy(ms, 1).members = ms /\ Group!Copy(ms, 1).key = 1 BY Fields
  <2>2. CASE w = Creator BY <1>1, <1>5, <2>1, <2>2 DEF Due
  <2>3. CASE w # Creator
    <3>1. groups'[w] = <<>> BY <1>2, <1>5, <2>3
    <3> QED BY <2>3, <3>1 DEF Due
  <2> QED BY <2>2, <2>3
<1> HIDE DEF ms
<1>9. Goal(ms, 1, Creator, "add")' BY <1>4, <1>6, <1>7, Begun
<1> QED BY <1>3, <1>9 DEF GoalAhead

(* The creator learns that somebody left, and makes a key for who stays.     *)
LEMMA LeftLeads ==
  ASSUME GroupBase, NEW M \in SUBSET Members, NEW k, NEW x \in Members, NEW t \in {"add", "remove", "leave"},
         Goal(M, k, x, t), NEW m \in groupNet, Group!Left(m), m.to = Creator, Group!InGroup(Creator),
         \A o \in out \cup groupNet : o.key = None
  PROVE  GoalAhead
<1> DEFINE ms == Group!View(Creator).members \ {m.who}
<1>1. /\ m.type = "leave" /\ groupNet' = groupNet \ {m} /\ Group!Generated(ms)
      /\ Group!Has(Creator, Group!Rotated(Creator, ms))
      /\ out' = out \cup {Group!Rekey(w, groupIssued') : w \in ms \ {Creator}}
  BY DEF Group!Left, Group!Arrives
<1>2. /\ Change(M, x, t) /\ out \cap groupNet = {} /\ Creator \in Members
      /\ \A o \in out \cup groupNet : OfChange(o, M, k, x, t)
      /\ \A u \in Members : Heading(u, groups[u], out \cup groupNet, M, k, x, t)
  BY MembersAssumption DEF Goal
<1>3. \A o \in out \cup groupNet : KindKnown(o, M, k, x, t)
  BY <1>2, Kinds
<1>4. t = "leave" /\ m = Group!Tell(Creator, t, x) /\ m.who = x /\ x \notin M
  BY <1>1, <1>2, <1>3 DEF KindKnown, Change
<1>5. \A o \in out \cup groupNet : o.type \notin {"invite", "rekey"}
  BY MembersAssumption DEF GroupBase, GoodBlob
<1>6. \A o \in out \cup groupNet : o = Group!Tell(o.to, t, x) /\ o.to \in Members
  <2>1. ASSUME NEW o \in out \cup groupNet PROVE o = Group!Tell(o.to, t, x) /\ o.to \in Members
    <3>1. o.to \in Members BY DEF GroupBase, GroupTypes, Group!Blobs
    <3>2. o.type \in {"invite", "add", "rekey", "remove", "leave"} BY DEF GroupBase, GroupTypes, Group!Blobs
    <3>3. o.type = t BY <1>3, <1>5, <3>2 DEF KindKnown
    <3> QED BY <1>3, <3>1, <3>3 DEF KindKnown
  <2> QED BY <2>1
<1>7. \A w : Group!Rekey(w, k) \notin out \cup groupNet /\ Group!Rekey(w, groupIssued') \notin groupNet
             /\ Group!Invite(w, Group!Copy(M, k)) \notin out \cup groupNet
  BY <1>5, Fields
<1>8. Creator \in M /\ Group!View(Creator).members = M \cup {x}
  BY <1>2, <1>4 DEF Heading, Group!InGroup, Group!View
<1>9. ms = M BY <1>4, <1>8
<1> HIDE DEF ms
<1> DEFINE T == {w \in Members \ {Creator} : Group!Tell(w, t, x) \in out \cup groupNet}
           R == M \ {Creator}
<1>10. /\ groups'[Creator] # <<>> /\ Len(groups'[Creator]) = Len(groups[Creator])
       /\ groups'[Creator][1].members = M /\ groups'[Creator][1].key = groupIssued'
       /\ \A w \in Members \ {Creator} : groups'[w] = groups[w]
       /\ groupIssued' \in Nat
  BY <1>1, <1>2, <1>9, Turned
<1>11. out' \cap groupNet' = {}
  <2>1. \A o \in out' : o \in out \/ \E w \in R : o = Group!Rekey(w, groupIssued')
    BY <1>1, <1>9
  <2> QED BY <1>1, <1>2, <1>7, <2>1
<1>12. out' \cup groupNet' = Written({}, T, R, M, groupIssued', x, t)
  <2>1. (out \cup groupNet) \ {m} = {Group!Tell(w, t, x) : w \in T}
    <3>1. ASSUME NEW o \in (out \cup groupNet) \ {m} PROVE o.to \in T /\ o = Group!Tell(o.to, t, x)
      <4>1. o = Group!Tell(o.to, t, x) /\ o.to \in Members BY <1>6
      <4>2. o.to # Creator BY <1>4, <4>1
      <4>3. Group!Tell(o.to, t, x) \in out \cup groupNet BY <4>1
      <4> QED BY <4>1, <4>2, <4>3
    <3>2. ASSUME NEW w \in T PROVE Group!Tell(w, t, x) \in (out \cup groupNet) \ {m}
      <4>1. Group!Tell(w, t, x).to = w /\ m.to = Creator BY Fields
      <4> QED BY <4>1
    <3> HIDE DEF T
    <3> QED BY <3>1, <3>2
  <2>2. out' \cup groupNet' = ((out \cup groupNet) \ {m}) \cup {Group!Rekey(w, groupIssued') : w \in R}
    BY <1>1, <1>2, <1>9
  <2> HIDE DEF T, R
  <2> QED BY <2>1, <2>2 DEF Written
<1>13. ASSUME NEW w \in Members PROVE Due(w, groups'[w], {}, T, R, M, groupIssued', x, t)
  <2>1. Heading(w, groups[w], out \cup groupNet, M, k, x, t) BY <1>2
  <2>2. CASE w = Creator
    <3>1. Len(groups[w]) = 1 BY <1>8, <2>1, <2>2 DEF Heading, Group!InGroup
    <3> QED BY <1>8, <1>10, <2>2, <3>1 DEF Due
  <2>3. CASE w # Creator
    <3>1. groups'[w] = groups[w] BY <1>10, <2>3
    <3>2. w \in T <=> Group!Tell(w, t, x) \in out \cup groupNet BY <2>3
    <3>3. w \in R <=> w \in M BY <2>3
    <3> HIDE DEF T, R
    <3> QED BY <1>4, <1>7, <2>1, <3>1, <3>2, <3>3 DEF Due, Heading
  <2> QED BY <2>2, <2>3
<1>14. PICK n \in Nat : n = groupIssued' BY <1>10
<1> HIDE DEF T, R
<1>15. Goal(M, n, x, t)' BY <1>2, <1>11, <1>12, <1>13, <1>14, Begun
<1> QED BY <1>14, <1>15 DEF GoalAhead

(* A blob is sent.                                                           *)
LEMMA SendLeads ==
  ASSUME NEW M, NEW k, NEW x, NEW t, Goal(M, k, x, t), NEW m \in out, Group!Send(m)
  PROVE  Goal(M, k, x, t)'
<1>1. out' = out \ {m} /\ groupNet' = groupNet \cup {m} /\ groups' = groups
  BY DEF Group!Send
<1>2. out' \cup groupNet' = out \cup groupNet /\ out' \cap groupNet' = {}
  BY <1>1 DEF Goal
<1> QED BY <1>1, <1>2 DEF Goal

(* Whatever happens, the invariant holds.                                    *)
LEMMA GroupStep == GroupInv /\ [Group!Next]_groupVars => GroupInv'
<1> SUFFICES ASSUME GroupInv, [Group!Next]_groupVars PROVE GroupInv'
  OBVIOUS
<1>1. GroupBase /\ GroupBase' BY BaseStep DEF GroupInv
<1>g. groupDisturbed \in BOOLEAN /\ groupDisturbed' \in BOOLEAN
  BY <1>1 DEF GroupBase, GroupTypes
<1> SUFFICES ASSUME ~groupDisturbed' PROVE GoalAhead
  BY <1>1 DEF GroupInv, GoalAhead
<1>c. ASSUME NEW others \in SUBSET Members, Group!Create(others) PROVE GoalAhead
  BY <1>1, <1>c, CreateLeads
<1>2. CASE groupDisturbed
  <2>1. ~(\E m \in out \cup groupNet : Group!SendFails(m) \/ Group!Lost(m)) BY DEF Group!SendFails, Group!Lost
  <2>2. ~UNCHANGED groupVars BY <1>2 DEF groupVars
  <2>3. \A u, v \in Members : ~Group!Add(u, v) /\ ~Group!Kick(u, v) /\ ~Group!Rotate(u) /\ ~Group!Leave(u)
    BY <1>2 DEF Group!Add, Group!Kick, Group!Rotate, Group!Leave, Group!Crossing
  <2>4. \A others \in SUBSET Members : ~Group!Create(others) BY <1>2 DEF Group!Create
  <2>5. \A m \in out \cup groupNet :
          ~Group!Send(m) /\ ~Group!Invited(m) /\ ~Group!Added(m) /\ ~Group!Rekeyed(m) /\ ~Group!Removed(m)
    BY <1>2 DEF Group!Send, Group!Invited, Group!Added, Group!Rekeyed, Group!Removed
  <2>6. \A m \in groupNet : ~Group!Left(m) BY <1>2 DEF Group!Left
  <2> QED BY <2>1, <2>2, <2>3, <2>4, <2>5, <2>6 DEF Group!Next
<1>3. CASE ~groupDisturbed
  <2>0. PICK M \in SUBSET Members, k \in Nat, x \in Members, t \in {"add", "remove", "leave"} : Goal(M, k, x, t)
    BY <1>3 DEF GroupInv
  <2>k. ASSUME Goal(M, k, x, t)' PROVE GoalAhead BY <2>k DEF GoalAhead
  <2>1. ASSUME UNCHANGED groupVars PROVE GoalAhead
    <3>1. groups' = groups /\ out' = out /\ groupNet' = groupNet BY <2>1 DEF groupVars
    <3>2. Goal(M, k, x, t)' BY <2>0, <3>1 DEF Goal
    <3> QED BY <2>k, <3>2
  <2>2. ASSUME NEW u \in Members, NEW v \in Members, Group!Add(u, v) PROVE GoalAhead
    <3>1. out \cup groupNet = {} BY <2>2 DEF Group!Add, Group!Crossing
    <3> QED BY <1>1, <2>0, <2>2, <3>1, AddLeads
  <2>3. ASSUME NEW u \in Members, NEW v \in Members, Group!Kick(u, v) PROVE GoalAhead
    <3>1. out \cup groupNet = {} BY <2>3 DEF Group!Kick, Group!Crossing
    <3> QED BY <1>1, <2>0, <2>3, <3>1, KickLeads
  <2>4. ASSUME NEW u \in Members, Group!Rotate(u) PROVE GoalAhead
    <3>1. out \cup groupNet = {} BY <2>4 DEF Group!Rotate, Group!Crossing
    <3> QED BY <1>1, <2>0, <2>4, <3>1, RotateLeads
  <2>5. ASSUME NEW u \in Members, Group!Leave(u) PROVE GoalAhead
    <3>1. out \cup groupNet = {} BY <2>5 DEF Group!Leave, Group!Crossing
    <3> QED BY <1>1, <2>0, <2>5, <3>1, LeaveLeads
  <2>6. ASSUME NEW m \in out, Group!Send(m) PROVE GoalAhead
    <3>1. Goal(M, k, x, t)' BY <2>0, <2>6, SendLeads
    <3> QED BY <2>k, <3>1
  <2>7. ASSUME NEW m \in out \cup groupNet, Group!SendFails(m) \/ Group!Lost(m) PROVE FALSE
    BY <2>7 DEF Group!SendFails, Group!Lost
  <2>8. ASSUME NEW m \in groupNet, Group!Invited(m) PROVE GoalAhead
    <3>1. Goal(M, k, x, t)' BY <1>1, <2>0, <2>8, InvitationArrives
    <3> QED BY <2>k, <3>1
  <2>9. ASSUME NEW m \in groupNet, Group!Rekeyed(m) PROVE GoalAhead
    <3>1. Goal(M, k, x, t)' BY <1>1, <2>0, <2>9, KeyArrives
    <3> QED BY <2>k, <3>1
  <2>t. \A m \in groupNet : m.type \in {"add", "remove", "leave"} => m.type = t /\ m = Group!Tell(m.to, t, x)
    <3>1. ASSUME NEW m \in groupNet PROVE KindKnown(m, M, k, x, t)
      <4>1. Change(M, x, t) /\ OfChange(m, M, k, x, t) BY <2>0 DEF Goal
      <4> QED BY <4>1, Kinds
    <3> QED BY <3>1 DEF KindKnown
  <2>10. ASSUME NEW m \in groupNet, Group!Added(m) PROVE GoalAhead
    <3>1. m.type = "add" /\ t = "add" /\ groupNet' = groupNet \ {m} /\ out' = out
      BY <2>t, <2>10 DEF Group!Added, Group!Arrives
    <3>2. /\ Group!InGroup(m.to) => Group!Has(m.to, Group!WithMembers(m.to, Group!View(m.to).members \cup {m.who}))
          /\ ~Group!InGroup(m.to) => groups' = groups
      BY <2>10 DEF Group!Added
    <3>3. Goal(M, k, x, t)' BY <1>1, <2>0, <3>1, <3>2, ToldArrives
    <3> QED BY <2>k, <3>3
  <2>11. ASSUME NEW m \in groupNet, Group!Removed(m) PROVE GoalAhead
    <3>1. m.type = "remove" /\ t = "remove" /\ groupNet' = groupNet \ {m} /\ out' = out
      BY <2>t, <2>11 DEF Group!Removed, Group!Arrives
    <3>2. /\ Group!InGroup(m.to) /\ m.who # m.to =>
               Group!Has(m.to, Group!WithMembers(m.to, Group!View(m.to).members \ {m.who}))
          /\ Group!InGroup(m.to) /\ m.who = m.to => Group!Has(m.to, <<>>)
          /\ ~Group!InGroup(m.to) => groups' = groups
      BY <2>11 DEF Group!Removed
    <3>3. Goal(M, k, x, t)' BY <1>1, <2>0, <3>1, <3>2, ToldArrives
    <3> QED BY <2>k, <3>3
  <2>12. ASSUME NEW m \in groupNet, Group!Left(m) PROVE GoalAhead
    <3>1. m.type = "leave" /\ t = "leave" /\ groupNet' = groupNet \ {m}
      BY <2>t, <2>12 DEF Group!Left, Group!Arrives
    <3>2. CASE Group!InGroup(m.to) /\ m.to = Creator
      <4>1. \A o \in out \cup groupNet : o.key = None
        BY <2>12, <3>2 DEF Group!Left
      <4> QED BY <1>1, <2>0, <2>12, <3>2, <4>1, LeftLeads
    <3>3. CASE Group!InGroup(m.to) /\ m.to # Creator
      <4>1. /\ Group!Has(m.to, Group!WithMembers(m.to, Group!View(m.to).members \ {m.who}))
            /\ out' = out
        BY <2>12, <3>3 DEF Group!Left
      <4>2. m.who # m.to
        <5>1. GoodBlob(m) BY <1>1 DEF GroupBase
        <5> QED BY <3>1, <5>1 DEF GoodBlob
      <4>3. Goal(M, k, x, t)' BY <1>1, <2>0, <3>1, <3>3, <4>1, <4>2, ToldArrives
      <4> QED BY <2>k, <4>3
    <3>4. CASE ~Group!InGroup(m.to)
      <4>1. groups' = groups /\ out' = out BY <2>12, <3>4 DEF Group!Left
      <4>2. Goal(M, k, x, t)' BY <1>1, <2>0, <3>1, <3>4, <4>1, ToldArrives
      <4> QED BY <2>k, <4>2
    <3> QED BY <3>2, <3>3, <3>4
  <2> QED
    BY <1>c, <2>1, <2>2, <2>3, <2>4, <2>5, <2>6, <2>7, <2>8, <2>9, <2>10, <2>11, <2>12, Zenon DEF Group!Next
<1> QED BY <1>g, <1>2, <1>3

-----------------------------------------------------------------------------
(* What is composed and sent. Only a text has a temporary message, from its  *)
(* send on. If nothing was touched below a send: temporary messages are of   *)
(* sends in flight, in the list that is shown; a saved message was sent, not *)
(* for one view, to its chat; and view-once is still what it was.            *)
Temp(i, c) == Compose!Entry(i, TRUE) \in composeHistory[c]
Final(i, c) == Compose!Entry(i, FALSE) \in composeHistory[c]
OnDisk(i, c) == Compose!Entry(i, FALSE) \in disk[c]

ComposeBase ==
  /\ \A i \in Things : job[i].at # "none" => job[i].target \in Rooms
  /\ \A i \in Things : \A c \in Rooms : Temp(i, c) => job[i].at # "none" /\ job[i].kind = "text"
  /\ composeShown.live => composeShown.of \in Rooms
  /\ \A i \in Things : Compose!Sent(i) =>
       i \in memory[job[i].target] \/ Final(i, job[i].target)

ComposeCalm ==
  /\ \A i \in Things : \A c \in Rooms :
       Temp(i, c) => job[i].at = "sending" /\ composeShown.live /\ composeShown.of = c
  /\ \A i \in Things : \A c \in Rooms :
       Final(i, c) => Compose!Sent(i) /\ ~Compose!Eph(i) /\ c = job[i].target
  /\ \A i \in Things : job[i].at = "sending" => job[i].eph = once
  /\ \A i \in Things : Compose!Sent(i) /\ ~Compose!Eph(i) =>
       Final(i, job[i].target) /\ OnDisk(i, job[i].target)

ComposeInv == Compose!TypeOK /\ ComposeBase /\ (~composeDisturbed => ComposeCalm)

(* It says what the sender relies on.                                        *)
LEMMA ComposeKept == ComposeInv => Compose!CopiesKept
<1> SUFFICES ASSUME ComposeInv PROVE Compose!CopiesKept
  OBVIOUS
<1>1. Compose!OwnCopyKept
  BY DEF ComposeInv, ComposeBase, Compose!OwnCopyKept, Final
<1>2. ASSUME Compose!InFlight = {}, ~composeDisturbed, NEW i \in Things, NEW c \in Rooms
      PROVE  /\ Compose!Entry(i, TRUE) \notin composeHistory[c]
             /\ Compose!Entry(i, FALSE) \in composeHistory[c] =>
                  Compose!Sent(i) /\ ~Compose!Eph(i) /\ c = job[i].target
             /\ Compose!Sent(i) /\ ~Compose!Eph(i) /\ c = job[i].target =>
                  Compose!Entry(i, FALSE) \in disk[c]
  <2>1. job[i].at # "sending" BY <1>2 DEF Compose!InFlight
  <2>2. ComposeCalm BY <1>2 DEF ComposeInv
  <2>3. ~Temp(i, c) BY <2>1, <2>2 DEF ComposeCalm
  <2>4. Final(i, c) => Compose!Sent(i) /\ ~Compose!Eph(i) /\ c = job[i].target
    BY <2>2 DEF ComposeCalm
  <2>5. Compose!Sent(i) /\ ~Compose!Eph(i) => OnDisk(i, job[i].target)
    BY <2>2 DEF ComposeCalm
  <2> QED BY <2>3, <2>4, <2>5 DEF Temp, Final, OnDisk
<1>3. Compose!SettledClean BY <1>2 DEF Compose!SettledClean
<1> QED BY <1>1, <1>3 DEF Compose!CopiesKept

(* Nothing was composed yet.                                                 *)
LEMMA ComposeInit == Compose!Init => ComposeInv
<1> SUFFICES ASSUME Compose!Init PROVE ComposeInv
  OBVIOUS
<1>1. /\ job = [i \in Things |-> [at |-> "none", kind |-> "text", target |-> None, eph |-> FALSE]]
      /\ composeHistory = [c \in Rooms |-> {}] /\ disk = composeHistory /\ memory = composeHistory
      /\ composeShown = [of |-> None, live |-> FALSE] /\ composeActive = None
      /\ once = FALSE /\ composeRec = None /\ composeDisturbed = FALSE
  BY DEF Compose!Init, Compose!NoJob
<1>2. Compose!TypeOK
  <2>1. /\ job \in [Things -> [at : {"none", "sending", "sent", "failed"},
                               kind : {"text", "photo", "audio"}, target : Rooms \cup {None}, eph : BOOLEAN]]
        /\ composeShown \in [of : Rooms \cup {None}, live : BOOLEAN]
        /\ composeHistory \in [Rooms -> SUBSET Compose!Entries] /\ memory \in [Rooms -> SUBSET Things]
    BY <1>1
  <2> QED BY <1>1, <2>1 DEF Compose!TypeOK
<1>3. /\ \A i \in Things : job[i].at = "none"
      /\ \A i \in Things : \A c \in Rooms : ~Temp(i, c) /\ ~Final(i, c)
      /\ ~composeShown.live
  BY <1>1 DEF Temp, Final
<1> QED BY <1>2, <1>3 DEF ComposeInv, ComposeBase, ComposeCalm, Compose!Sent

(* Entries are of one message and temporary or not.                          *)
LEMMA EntriesDiffer ==
  /\ \A i, j \in Things : Compose!Entry(i, TRUE) # Compose!Entry(j, FALSE)
  /\ \A i, j \in Things : Compose!Entry(i, TRUE) = Compose!Entry(j, TRUE) => i = j
  /\ \A i, j \in Things : Compose!Entry(i, FALSE) = Compose!Entry(j, FALSE) => i = j
  /\ \A i \in Things : Compose!Entry(i, TRUE) \in Compose!Entries /\ Compose!Entry(i, FALSE) \in Compose!Entries
  /\ \A e \in Compose!Entries : e \in {Compose!Entry(e.id, TRUE), Compose!Entry(e.id, FALSE)}
BY DEF Compose!Entry, Compose!Entries

Jobs == [at : {"none", "sending", "sent", "failed"}, kind : {"text", "photo", "audio"},
         target : Rooms \cup {None}, eph : BOOLEAN]

(* The start of a send, and its end.                                         *)
LEMMA JobStarts ==
  ASSUME job \in [Things -> Jobs], NEW i \in Things, NEW k \in {"text", "photo", "audio"},
         NEW t \in Rooms, once \in BOOLEAN, Compose!Starts(i, k, t)
  PROVE  /\ job' \in [Things -> Jobs] /\ job[i].at = "none"
         /\ job'[i].at = "sending" /\ job'[i].kind = k /\ job'[i].target = t /\ job'[i].eph = once
         /\ \A j \in Things \ {i} : job'[j] = job[j]
<1>1. [at |-> "sending", kind |-> k, target |-> t, eph |-> once] \in Jobs
  BY DEF Jobs
<1> QED BY <1>1 DEF Compose!Starts

(* The end of a send changes no other.                                       *)
LEMMA JobEnds ==
  ASSUME job \in [Things -> Jobs], NEW i \in Things, NEW o \in {"sent", "failed"}, Compose!Ends(i, o)
  PROVE  /\ job' \in [Things -> Jobs]
         /\ job'[i].at = o /\ job'[i].kind = job[i].kind /\ job'[i].target = job[i].target
         /\ job'[i].eph = job[i].eph
         /\ \A j \in Things \ {i} : job'[j] = job[j]
<1>1. \A r \in Jobs : /\ [r EXCEPT !.at = o] \in Jobs
                      /\ [r EXCEPT !.at = o].at = o /\ [r EXCEPT !.at = o].kind = r.kind
                      /\ [r EXCEPT !.at = o].target = r.target /\ [r EXCEPT !.at = o].eph = r.eph
  BY DEF Jobs
<1>2. job[i] \in Jobs OBVIOUS
<1>3. job' = [job EXCEPT ![i] = [job[i] EXCEPT !.at = o]] BY DEF Compose!Ends
<1> QED BY <1>1, <1>2, <1>3

(* A send that succeeds leaves its copy with its chat: in memory, or in the  *)
(* history and on disk. Below an undisturbed send nothing else is left.      *)
LEMMA SentKeeps ==
  ASSUME ComposeInv, NEW i \in Things, job[i].at = "sending",
         NEW t \in Rooms, t = job[i].target,
         Compose!Ends(i, "sent"), once' = FALSE,
         composeShown' = Compose!Listed(t),
         composeDisturbed' = (composeDisturbed \/ Compose!InFlight # {i}),
         UNCHANGED <<composeActive, composeRec>>,
         composeHistory' \in [Rooms -> SUBSET Compose!Entries],
         disk' \in [Rooms -> SUBSET Compose!Entries], memory' \in [Rooms -> SUBSET Things],
         \A j \in Things : \A c \in Rooms : Temp(j, c)' => Temp(j, c) /\ (j = i => job[i].kind # "text"),
         \A j \in Things : \A c \in Rooms : Final(j, c) => Final(j, c)',
         \A j \in Things : \A c \in Rooms : j \in memory[c] => j \in memory'[c],
         i \in memory'[t] \/ Final(i, t)',
         \/ disk' = disk
         \/ disk' = composeHistory',
         ~composeDisturbed' =>
           /\ \A j \in Things : \A c \in Rooms :
                Final(j, c)' => Final(j, c) \/ (j = i /\ c = t /\ ~job[i].eph)
           /\ ~job[i].eph => Final(i, t)' /\ disk' = composeHistory'
  PROVE  ComposeInv'
<1>0. /\ job \in [Things -> Jobs]
      /\ once \in BOOLEAN
  BY DEF ComposeInv, ComposeBase, Compose!TypeOK, Jobs
<1>1. /\ job' \in [Things -> Jobs]
      /\ job'[i].at = "sent" /\ job'[i].kind = job[i].kind /\ job'[i].target = t
      /\ job'[i].eph = job[i].eph
      /\ \A j \in Things \ {i} : job'[j] = job[j]
  BY <1>0, JobEnds
<1>2. composeShown' = [of |-> t, live |-> memory'[t] = {}]
  BY DEF Compose!Listed
<1>3. Compose!TypeOK'
  <2>1. composeShown' \in [of : Rooms \cup {None}, live : BOOLEAN] BY <1>0, <1>2
  <2>2. composeDisturbed' \in BOOLEAN /\ once' \in BOOLEAN BY DEF ComposeInv, Compose!TypeOK
  <2> QED BY <1>1, <2>1, <2>2 DEF ComposeInv, Compose!TypeOK, Jobs
<1>4. ComposeBase'
  <2>1. \A j \in Things : job'[j].at # "none" => job'[j].target \in Rooms
    BY <1>0, <1>1 DEF ComposeInv, ComposeBase
  <2>2. \A j \in Things : \A c \in Rooms : Temp(j, c)' => job'[j].at # "none" /\ job'[j].kind = "text"
    BY <1>0, <1>1 DEF ComposeInv, ComposeBase
  <2>3. ASSUME NEW j \in Things, job'[j].at = "sent"
        PROVE  (j \in memory[job[j].target] \/ Final(j, job[j].target))'
    <3>1. CASE j = i BY <1>1, <3>1
    <3>2. CASE j # i
      <4>1. /\ job'[j].target = job[j].target /\ job[j].at = "sent" /\ job[j].target \in Rooms
        BY <1>1, <2>3, <3>2 DEF ComposeInv, ComposeBase
      <4>2. j \in memory[job[j].target] \/ Final(j, job[j].target)
        BY <4>1 DEF ComposeInv, ComposeBase, Compose!Sent
      <4>3. j \in memory'[job'[j].target] \/ Compose!Entry(j, FALSE) \in composeHistory'[job'[j].target]
        BY <4>1, <4>2 DEF Final
      <4> QED BY <4>3 DEF Final
    <3> QED BY <3>1, <3>2
  <2> QED BY <1>0, <1>2, <2>1, <2>2, <2>3 DEF ComposeBase, Compose!Sent
<1>5. ASSUME ~composeDisturbed' PROVE ComposeCalm'
  <2>0. ~composeDisturbed /\ ComposeCalm
    BY <1>5 DEF ComposeInv
  <2>1. \A j \in Things : job[j].at = "sending" => j = i
    <3>1. Compose!InFlight = {i} BY <1>5
    <3>2. \A j \in Things : job[j].at = "sending" => j \in Compose!InFlight
      BY DEF Compose!InFlight
    <3> QED BY <3>1, <3>2
  <2>2. \A j \in Things : \A c \in Rooms : ~Temp(j, c)'
    <3>1. ASSUME NEW j \in Things, NEW c \in Rooms, Temp(j, c)' PROVE FALSE
      <4>1. Temp(j, c) BY <3>1
      <4>2. j = i BY <2>0, <2>1, <4>1 DEF ComposeCalm
      <4>3. job[i].kind = "text" BY <4>1, <4>2 DEF ComposeInv, ComposeBase
      <4> QED BY <3>1, <4>2, <4>3
    <3> QED BY <3>1
  <2>3. ASSUME NEW j \in Things, NEW c \in Rooms, Final(j, c)'
        PROVE  job'[j].at = "sent" /\ ~job'[j].eph /\ c = job'[j].target
    <3>1. CASE j = i
      <4>1. ~Final(j, c) BY <2>0, <3>1 DEF ComposeCalm, Compose!Sent
      <4> QED BY <1>1, <1>5, <2>3, <3>1, <4>1
    <3>2. CASE j # i
      <4>1. Final(j, c) BY <1>5, <2>3, <3>2
      <4> QED BY <1>1, <2>0, <3>2, <4>1 DEF ComposeCalm, Compose!Sent, Compose!Eph
    <3> QED BY <3>1, <3>2
  <2>4. \A j \in Things : job'[j].at # "sending"
    BY <1>1, <2>1
  <2>5. ASSUME NEW j \in Things, job'[j].at = "sent", ~job'[j].eph
        PROVE  (Final(j, job[j].target) /\ OnDisk(j, job[j].target))'
    <3>1. CASE j = i
      BY <1>1, <1>5, <2>5, <3>1 DEF Final, OnDisk
    <3>2. CASE j # i
      <4>1. /\ job'[j].target = job[j].target /\ job[j].at = "sent" /\ ~job[j].eph
            /\ job[j].target \in Rooms
        BY <1>1, <2>5, <3>2 DEF ComposeInv, ComposeBase
      <4>2. Final(j, job[j].target) /\ OnDisk(j, job[j].target)
        BY <2>0, <4>1 DEF ComposeCalm, Compose!Sent, Compose!Eph
      <4>4. Compose!Entry(j, FALSE) \in composeHistory'[job'[j].target]
        BY <4>1, <4>2 DEF Final
      <4>5. Compose!Entry(j, FALSE) \in disk'[job'[j].target]
        BY <4>1, <4>2, <4>4 DEF OnDisk
      <4> QED BY <4>4, <4>5 DEF Final, OnDisk
    <3> QED BY <3>1, <3>2
  <2> QED BY <2>2, <2>3, <2>4, <2>5 DEF ComposeCalm, Compose!Sent, Compose!Eph
<1> QED BY <1>3, <1>4, <1>5 DEF ComposeInv

(* What is done below a send, be it to open a chat: the lists stay, one may  *)
(* be saved.                                                                 *)
LEMMA DisturbedKeeps ==
  ASSUME ComposeInv, Compose!Disturbs,
         UNCHANGED <<composeHistory, memory, job>>,
         disk' = disk \/ disk' = composeHistory,
         composeActive' \in Rooms \cup {None}, once' \in BOOLEAN, composeRec' \in Rooms \cup {None},
         composeShown' \in [of : Rooms \cup {None}, live : BOOLEAN],
         composeShown'.live => composeShown'.of \in Rooms
  PROVE  ComposeInv'
<1>1. Compose!TypeOK'
  BY DEF ComposeInv, Compose!TypeOK, Compose!Disturbs
<1>2. ComposeBase'
  BY DEF ComposeInv, ComposeBase, Temp, Final, Compose!Sent
<1>3. ASSUME ~composeDisturbed' PROVE ComposeCalm'
  <2>1. ~composeDisturbed /\ Compose!InFlight = {}
    BY <1>3 DEF Compose!Disturbs
  <2>2. \A i \in Things : job[i].at # "sending"
    BY <2>1 DEF Compose!InFlight
  <2>3. ComposeCalm BY <2>1 DEF ComposeInv
  <2>4. \A i \in Things : \A c \in Rooms : ~Temp(i, c)' /\ (Final(i, c)' <=> Final(i, c))
    BY <2>2, <2>3 DEF ComposeCalm, Temp, Final
  <2>5. ASSUME NEW i \in Things, job[i].at = "sent", ~job[i].eph
        PROVE  (Final(i, job[i].target) /\ OnDisk(i, job[i].target))'
    BY <2>3, <2>5 DEF ComposeCalm, Compose!Sent, Compose!Eph, Final, OnDisk
  <2>6. \A i \in Things : \A c \in Rooms :
          Final(i, c)' => job'[i].at = "sent" /\ ~job'[i].eph /\ c = job'[i].target
    BY <2>3, <2>4 DEF ComposeCalm, Compose!Sent, Compose!Eph
  <2> QED BY <2>2, <2>4, <2>5, <2>6 DEF ComposeCalm, Compose!Sent, Compose!Eph
<1> QED BY <1>1, <1>2, <1>3 DEF ComposeInv

(* A send starts; a text with its temporary message in the list shown.       *)
LEMMA StartKeeps ==
  ASSUME ComposeInv, NEW i \in Things, NEW k \in {"text", "photo", "audio"}, NEW t \in Rooms,
         Compose!Starts(i, k, t), composeRec' \in Rooms \cup {None},
         UNCHANGED <<composeActive, composeShown, disk, memory, once, composeDisturbed>>,
         composeHistory' \in [Rooms -> SUBSET Compose!Entries],
         \A j \in Things : \A c \in Rooms : Final(j, c)' <=> Final(j, c),
         \A j \in Things : \A c \in Rooms : Temp(j, c)' =>
           Temp(j, c) \/ (k = "text" /\ j = i /\ composeShown.live /\ c = composeShown.of)
  PROVE  ComposeInv'
<1>0. job \in [Things -> Jobs] /\ once \in BOOLEAN
  BY DEF ComposeInv, Compose!TypeOK, Jobs
<1>1. /\ job' \in [Things -> Jobs] /\ job[i].at = "none"
      /\ job'[i].at = "sending" /\ job'[i].kind = k /\ job'[i].target = t /\ job'[i].eph = once
      /\ \A j \in Things \ {i} : job'[j] = job[j]
  BY <1>0, JobStarts
<1>2. Compose!TypeOK'
  BY <1>1 DEF ComposeInv, Compose!TypeOK, Jobs
<1>3. ComposeBase'
  <2>1. \A j \in Things : job'[j].at # "none" => job'[j].target \in Rooms
    BY <1>1 DEF ComposeInv, ComposeBase
  <2>2. \A j \in Things : \A c \in Rooms : Temp(j, c)' => job'[j].at # "none" /\ job'[j].kind = "text"
    BY <1>1 DEF ComposeInv, ComposeBase
  <2>3. ASSUME NEW j \in Things, job'[j].at = "sent"
        PROVE  (j \in memory[job[j].target] \/ Final(j, job[j].target))'
    <3>1. /\ j # i /\ job'[j].target = job[j].target /\ job[j].at = "sent" /\ job[j].target \in Rooms
      BY <1>1, <2>3 DEF ComposeInv, ComposeBase
    <3>2. j \in memory[job[j].target] \/ Final(j, job[j].target)
      BY <3>1 DEF ComposeInv, ComposeBase, Compose!Sent
    <3>3. j \in memory'[job'[j].target] \/ Compose!Entry(j, FALSE) \in composeHistory'[job'[j].target]
      BY <3>1, <3>2 DEF Final
    <3> QED BY <3>3 DEF Final
  <2>4. composeShown'.live => composeShown'.of \in Rooms
    BY DEF ComposeInv, ComposeBase
  <2> QED BY <2>1, <2>2, <2>3, <2>4 DEF ComposeBase, Compose!Sent
<1>4. ASSUME ~composeDisturbed' PROVE ComposeCalm'
  <2>0. ComposeCalm BY <1>4 DEF ComposeInv
  <2>1. \A j \in Things : \A c \in Rooms :
          Temp(j, c)' => job'[j].at = "sending" /\ composeShown'.live /\ composeShown'.of = c
    BY <1>1, <2>0 DEF ComposeCalm
  <2>2. \A j \in Things : \A c \in Rooms :
          Final(j, c)' => job'[j].at = "sent" /\ ~job'[j].eph /\ c = job'[j].target
    <3>1. \A j \in Things : \A c \in Rooms :
            Final(j, c) => j # i /\ job[j].at = "sent" /\ ~job[j].eph /\ c = job[j].target
      BY <1>1, <2>0 DEF ComposeCalm, Compose!Sent, Compose!Eph
    <3> QED BY <1>1, <3>1
  <2>3. \A j \in Things : job'[j].at = "sending" => job'[j].eph = once'
    BY <1>1, <2>0 DEF ComposeCalm
  <2>4. ASSUME NEW j \in Things, job'[j].at = "sent", ~job'[j].eph
        PROVE  (Final(j, job[j].target) /\ OnDisk(j, job[j].target))'
    <3>1. /\ j # i /\ job'[j].target = job[j].target /\ job[j].at = "sent" /\ ~job[j].eph
          /\ job[j].target \in Rooms
      BY <1>1, <2>4 DEF ComposeInv, ComposeBase
    <3>2. Final(j, job[j].target) /\ OnDisk(j, job[j].target)
      BY <2>0, <3>1 DEF ComposeCalm, Compose!Sent, Compose!Eph
    <3>3. /\ Compose!Entry(j, FALSE) \in composeHistory'[job'[j].target]
          /\ Compose!Entry(j, FALSE) \in disk'[job'[j].target]
      BY <3>1, <3>2 DEF Final, OnDisk
    <3> QED BY <3>3 DEF Final, OnDisk
  <2> QED BY <2>1, <2>2, <2>3, <2>4 DEF ComposeCalm, Compose!Sent, Compose!Eph
<1> QED BY <1>2, <1>3, <1>4 DEF ComposeInv

(* A send fails: its temporary message, if it has one in the list shown, is  *)
(* taken out.                                                                *)
LEMMA FailureKeeps ==
  ASSUME ComposeInv, NEW i \in Things, job[i].at = "sending", Compose!Ends(i, "failed"),
         UNCHANGED <<composeActive, composeShown, disk, memory, once, composeRec, composeDisturbed>>,
         composeHistory' \in [Rooms -> SUBSET Compose!Entries],
         \A j \in Things : \A c \in Rooms : Final(j, c)' <=> Final(j, c),
         \A j \in Things : \A c \in Rooms : Temp(j, c)' => Temp(j, c),
         job[i].kind = "text" /\ composeShown.live => ~Temp(i, composeShown.of)'
  PROVE  ComposeInv'
<1>0. job \in [Things -> Jobs] BY DEF ComposeInv, Compose!TypeOK, Jobs
<1>1. /\ job' \in [Things -> Jobs]
      /\ job'[i].at = "failed" /\ job'[i].kind = job[i].kind /\ job'[i].target = job[i].target
      /\ \A j \in Things \ {i} : job'[j] = job[j]
  BY <1>0, JobEnds
<1>2. Compose!TypeOK'
  BY <1>1 DEF ComposeInv, Compose!TypeOK, Jobs
<1>3. ComposeBase'
  <2>1. \A j \in Things : job'[j].at # "none" => job'[j].target \in Rooms
    BY <1>1 DEF ComposeInv, ComposeBase
  <2>2. \A j \in Things : \A c \in Rooms : Temp(j, c)' => job'[j].at # "none" /\ job'[j].kind = "text"
    BY <1>1 DEF ComposeInv, ComposeBase
  <2>3. ASSUME NEW j \in Things, job'[j].at = "sent"
        PROVE  (j \in memory[job[j].target] \/ Final(j, job[j].target))'
    <3>1. /\ j # i /\ job'[j].target = job[j].target /\ job[j].at = "sent" /\ job[j].target \in Rooms
      BY <1>1, <2>3 DEF ComposeInv, ComposeBase
    <3>2. j \in memory[job[j].target] \/ Final(j, job[j].target)
      BY <3>1 DEF ComposeInv, ComposeBase, Compose!Sent
    <3>3. j \in memory'[job'[j].target] \/ Compose!Entry(j, FALSE) \in composeHistory'[job'[j].target]
      BY <3>1, <3>2 DEF Final
    <3> QED BY <3>3 DEF Final
  <2>4. composeShown'.live => composeShown'.of \in Rooms
    BY DEF ComposeInv, ComposeBase
  <2> QED BY <2>1, <2>2, <2>3, <2>4 DEF ComposeBase, Compose!Sent
<1>4. ASSUME ~composeDisturbed' PROVE ComposeCalm'
  <2>0. ComposeCalm BY <1>4 DEF ComposeInv
  <2>1. \A j \in Things : \A c \in Rooms :
          Temp(j, c)' => job'[j].at = "sending" /\ composeShown'.live /\ composeShown'.of = c
    <3>1. ASSUME NEW j \in Things, NEW c \in Rooms, Temp(j, c)'
          PROVE  job'[j].at = "sending" /\ composeShown'.live /\ composeShown'.of = c
      <4>1. job[j].at = "sending" /\ job[j].kind = "text" /\ composeShown.live /\ composeShown.of = c
        BY <2>0, <3>1 DEF ComposeCalm, ComposeInv, ComposeBase
      <4>2. j # i
        BY <3>1, <4>1 DEF Temp
      <4> QED BY <1>1, <4>1, <4>2
    <3> QED BY <3>1
  <2>2. \A j \in Things : \A c \in Rooms :
          Final(j, c)' => job'[j].at = "sent" /\ ~job'[j].eph /\ c = job'[j].target
    <3>1. \A j \in Things : \A c \in Rooms :
            Final(j, c) => j # i /\ job[j].at = "sent" /\ ~job[j].eph /\ c = job[j].target
      BY <1>1, <2>0 DEF ComposeCalm, Compose!Sent, Compose!Eph
    <3> QED BY <1>1, <3>1
  <2>3. \A j \in Things : job'[j].at = "sending" => job'[j].eph = once'
    BY <1>1, <2>0 DEF ComposeCalm
  <2>4. ASSUME NEW j \in Things, job'[j].at = "sent", ~job'[j].eph
        PROVE  (Final(j, job[j].target) /\ OnDisk(j, job[j].target))'
    <3>1. /\ j # i /\ job'[j].target = job[j].target /\ job[j].at = "sent" /\ ~job[j].eph
          /\ job[j].target \in Rooms
      BY <1>1, <2>4 DEF ComposeInv, ComposeBase
    <3>2. Final(j, job[j].target) /\ OnDisk(j, job[j].target)
      BY <2>0, <3>1 DEF ComposeCalm, Compose!Sent, Compose!Eph
    <3>3. /\ Compose!Entry(j, FALSE) \in composeHistory'[job'[j].target]
          /\ Compose!Entry(j, FALSE) \in disk'[job'[j].target]
      BY <3>1, <3>2 DEF Final, OnDisk
    <3> QED BY <3>3 DEF Final, OnDisk
  <2> QED BY <2>1, <2>2, <2>3, <2>4 DEF ComposeCalm, Compose!Sent, Compose!Eph
<1> QED BY <1>2, <1>3, <1>4 DEF ComposeInv

(* One more entry in one of the lists.                                       *)
LEMMA MoreOf ==
  ASSUME NEW S, NEW f \in [Rooms -> SUBSET S], NEW e \in S, NEW t \in Rooms
  PROVE  /\ [f EXCEPT ![t] = @ \cup {e}] \in [Rooms -> SUBSET S]
         /\ [f EXCEPT ![t] = @ \cup {e}][t] = f[t] \cup {e}
         /\ \A c \in Rooms \ {t} : [f EXCEPT ![t] = @ \cup {e}][c] = f[c]
OBVIOUS

(* What becomes of the temporary message of a text that was sent.            *)
LEMMA ConfirmedEntries ==
  ASSUME ComposeInv, NEW i \in Things, NEW c \in Rooms
  PROVE  /\ Compose!Confirmed(i)[c] \subseteq Compose!Entries
         /\ Compose!Entry(i, TRUE) \notin Compose!Confirmed(i)[c]
         /\ \A j \in Things : Compose!Entry(j, TRUE) \in Compose!Confirmed(i)[c] => Temp(j, c)
         /\ \A j \in Things : Final(j, c) => Compose!Entry(j, FALSE) \in Compose!Confirmed(i)[c]
         /\ \A j \in Things : Compose!Entry(j, FALSE) \in Compose!Confirmed(i)[c] =>
              Final(j, c) \/ (j = i /\ Temp(i, c) /\ ~(composeShown.live /\ composeShown.of = c))
<1> DEFINE h == Compose!Confirmed(i)[c]
<1>1. h = (IF Compose!Entry(i, TRUE) \notin composeHistory[c] THEN composeHistory[c]
           ELSE (composeHistory[c] \ {Compose!Entry(i, TRUE)})
                  \cup (IF composeShown.live /\ composeShown.of = c THEN {} ELSE {Compose!Entry(i, FALSE)}))
  BY DEF Compose!Confirmed
<1>2. composeHistory[c] \subseteq Compose!Entries
  BY DEF ComposeInv, Compose!TypeOK
<1> HIDE DEF h
<1>3. h \subseteq Compose!Entries /\ Compose!Entry(i, TRUE) \notin h
  BY <1>1, <1>2, EntriesDiffer
<1>4. \A j \in Things : Compose!Entry(j, TRUE) \in h => Temp(j, c)
  BY <1>1, EntriesDiffer DEF Temp
<1>5. \A j \in Things : Final(j, c) => Compose!Entry(j, FALSE) \in h
  BY <1>1, EntriesDiffer DEF Final
<1>6. \A j \in Things : Compose!Entry(j, FALSE) \in h =>
        Final(j, c) \/ (j = i /\ Temp(i, c) /\ ~(composeShown.live /\ composeShown.of = c))
  BY <1>1, EntriesDiffer DEF Temp, Final
<1> QED BY <1>3, <1>4, <1>5, <1>6 DEF h

(* What addMessage adds to a chat, unless it has the message.                *)
LEMMA Added ==
  ASSUME ComposeInv, NEW i \in Things, NEW t \in Rooms, job[i].kind # "text",
         Compose!AddMessage(t, i)
  PROVE  /\ composeHistory' \in [Rooms -> SUBSET Compose!Entries] /\ disk' \in [Rooms -> SUBSET Compose!Entries]
         /\ \A j \in Things : \A c \in Rooms : Temp(j, c)' => Temp(j, c)
         /\ \A j \in Things : \A c \in Rooms : Final(j, c) => Final(j, c)'
         /\ \A j \in Things : \A c \in Rooms : Final(j, c)' => Final(j, c) \/ (j = i /\ c = t)
         /\ Final(i, t)' /\ (disk' = disk \/ disk' = composeHistory')
         /\ ~Final(i, t) => disk' = composeHistory'
<1>0. /\ composeHistory \in [Rooms -> SUBSET Compose!Entries]
      /\ disk \in [Rooms -> SUBSET Compose!Entries] /\ ~Temp(i, t)
  BY DEF ComposeInv, ComposeBase, Compose!TypeOK
<1>1. CASE \E e \in composeHistory[t] : e.id = i
  <2>1. composeHistory' = composeHistory /\ disk' = disk BY <1>1 DEF Compose!AddMessage
  <2>2. PICK e \in composeHistory[t] : e.id = i BY <1>1
  <2>3. e \in {Compose!Entry(i, TRUE), Compose!Entry(i, FALSE)}
    BY <1>0, <2>2, EntriesDiffer
  <2>4. Final(i, t) BY <1>0, <2>2, <2>3 DEF Final, Temp
  <2> QED BY <1>0, <2>1, <2>4 DEF Temp, Final
<1>2. CASE ~\E e \in composeHistory[t] : e.id = i
  <2>1. /\ composeHistory' = [composeHistory EXCEPT ![t] = @ \cup {Compose!Entry(i, FALSE)}]
        /\ disk' = composeHistory'
    BY <1>2 DEF Compose!AddMessage
  <2>2. /\ composeHistory'[t] = composeHistory[t] \cup {Compose!Entry(i, FALSE)}
        /\ \A c \in Rooms \ {t} : composeHistory'[c] = composeHistory[c]
    BY <1>0, <2>1
  <2>3. composeHistory' \in [Rooms -> SUBSET Compose!Entries]
    BY <1>0, <2>1, EntriesDiffer, MoreOf
  <2>4. \A j \in Things : \A c \in Rooms : Temp(j, c)' => Temp(j, c)
    BY <2>2 DEF Temp, Compose!Entry
  <2>5. \A j \in Things : \A c \in Rooms : Final(j, c) => Final(j, c)'
    BY <2>2 DEF Final
  <2>6. \A j \in Things : \A c \in Rooms : Final(j, c)' => Final(j, c) \/ (j = i /\ c = t)
    BY <2>2 DEF Final, Compose!Entry
  <2>7. Final(i, t)' BY <2>2 DEF Final
  <2> QED BY <2>1, <2>3, <2>4, <2>5, <2>6, <2>7
<1> QED BY <1>1, <1>2

(* Whatever is opened, typed, sent, answered or taken back keeps it.         *)
LEMMA ComposeStep == ComposeInv /\ [Compose!Next]_composeVars => ComposeInv'
<1> SUFFICES ASSUME ComposeInv, [Compose!Next]_composeVars PROVE ComposeInv'
  OBVIOUS
<1>0. None \notin Rooms BY NoneAssumption
<1>t. /\ composeActive \in Rooms \cup {None} /\ composeRec \in Rooms \cup {None}
      /\ composeShown \in [of : Rooms \cup {None}, live : BOOLEAN]
      /\ composeHistory \in [Rooms -> SUBSET Compose!Entries] /\ disk \in [Rooms -> SUBSET Compose!Entries]
      /\ memory \in [Rooms -> SUBSET Things] /\ once \in BOOLEAN /\ composeDisturbed \in BOOLEAN
      /\ composeShown.live => composeShown.of \in Rooms
  BY DEF ComposeInv, ComposeBase, Compose!TypeOK
<1>1. CASE UNCHANGED composeVars
  <2>1. UNCHANGED <<composeActive, composeShown, composeHistory, disk, memory, once, composeRec, job,
                    composeDisturbed>>
    BY <1>1 DEF composeVars
  <2>2. Compose!TypeOK' BY <2>1 DEF ComposeInv, Compose!TypeOK
  <2>3. ComposeBase' BY <2>1 DEF ComposeInv, ComposeBase, Temp, Final, Compose!Sent
  <2>4. ComposeCalm' <=> ComposeCalm
    BY <2>1 DEF ComposeCalm, Temp, Final, OnDisk, Compose!Sent, Compose!Eph
  <2> QED BY <2>1, <2>2, <2>3, <2>4 DEF ComposeInv
<1>2. ASSUME NEW c \in Rooms, Compose!OpenChat(c) PROVE ComposeInv'
  <2>1. /\ composeActive' = c /\ composeShown' = [of |-> c, live |-> memory[c] = {}] /\ Compose!Disturbs
        /\ UNCHANGED <<composeHistory, disk, memory, once, composeRec, job>>
    BY <1>2 DEF Compose!OpenChat
  <2>2. composeShown' \in [of : Rooms \cup {None}, live : BOOLEAN] /\ composeShown'.of \in Rooms
    BY <2>1
  <2> QED BY <1>t, <2>1, <2>2, DisturbedKeeps
<1>3. ASSUME NEW c \in Rooms, Compose!TakenBack(c) PROVE ComposeInv'
  <2>1. /\ disk' = composeHistory
        /\ composeShown' = (IF composeActive = None
                            THEN [composeShown EXCEPT !.live = composeShown.live /\ composeShown.of # c]
                            ELSE [of |-> composeActive, live |-> memory[composeActive] = {}])
        /\ Compose!Disturbs /\ UNCHANGED <<composeActive, composeHistory, memory, once, composeRec, job>>
    BY <1>3 DEF Compose!TakenBack
  <2>2. /\ composeShown' \in [of : Rooms \cup {None}, live : BOOLEAN]
        /\ composeShown'.live => composeShown'.of \in Rooms
    <3>1. CASE composeActive = None BY <1>t, <2>1, <3>1
    <3>2. CASE composeActive # None BY <1>t, <2>1, <3>2
    <3> QED BY <3>1, <3>2
  <2> QED BY <1>t, <2>1, <2>2, DisturbedKeeps
<1>4. CASE Compose!CloseChat \/ Compose!Toggle
  <2>1. /\ composeActive' \in {composeActive, None} /\ once' \in BOOLEAN /\ Compose!Disturbs
        /\ UNCHANGED <<composeShown, composeHistory, disk, memory, composeRec, job>>
    BY <1>4, <1>t DEF Compose!CloseChat, Compose!Toggle
  <2> QED BY <1>t, <2>1, DisturbedKeeps
<1>5. CASE Compose!Incoming
  <2>1. /\ disk' = composeHistory
        /\ composeShown' = (IF composeActive = None THEN composeShown
                            ELSE [of |-> composeActive, live |-> memory[composeActive] = {}])
        /\ Compose!Disturbs /\ UNCHANGED <<composeActive, composeHistory, memory, once, composeRec, job>>
    BY <1>5 DEF Compose!Incoming
  <2>2. /\ composeShown' \in [of : Rooms \cup {None}, live : BOOLEAN]
        /\ composeShown'.live => composeShown'.of \in Rooms
    BY <1>t, <2>1
  <2> QED BY <1>t, <2>1, <2>2, DisturbedKeeps
<1>6. CASE Compose!Record \/ Compose!AudioFails
  <2>1. /\ composeRec' \in Rooms \cup {None}
        /\ UNCHANGED <<composeActive, composeShown, composeHistory, disk, memory, once, job, composeDisturbed>>
    BY <1>6, <1>t DEF Compose!Record, Compose!AudioFails
  <2>2. Compose!TypeOK' BY <2>1 DEF ComposeInv, Compose!TypeOK
  <2>3. ComposeBase' BY <2>1 DEF ComposeInv, ComposeBase, Temp, Final, Compose!Sent
  <2>4. ComposeCalm' <=> ComposeCalm
    BY <2>1 DEF ComposeCalm, Temp, Final, OnDisk, Compose!Sent, Compose!Eph
  <2> QED BY <2>1, <2>2, <2>3, <2>4 DEF ComposeInv
<1>7. ASSUME NEW i \in Things, Compose!SendText(i) PROVE ComposeInv'
  <2>1. /\ composeActive \in Rooms /\ Compose!Starts(i, "text", composeActive)
        /\ composeHistory' = (IF composeShown.live
             THEN [composeHistory EXCEPT ![composeShown.of] = @ \cup {Compose!Entry(i, TRUE)}]
             ELSE composeHistory)
        /\ UNCHANGED <<composeActive, composeShown, disk, memory, once, composeRec, composeDisturbed>>
    BY <1>7, <1>t DEF Compose!SendText
  <2>2. /\ composeHistory' \in [Rooms -> SUBSET Compose!Entries]
        /\ \A c \in Rooms : composeHistory'[c] \in
             {composeHistory[c], composeHistory[c] \cup {Compose!Entry(i, TRUE)}}
        /\ \A c \in Rooms : ~(composeShown.live /\ c = composeShown.of) => composeHistory'[c] = composeHistory[c]
    <3>1. CASE composeShown.live BY <1>t, <2>1, <3>1, EntriesDiffer
    <3>2. CASE ~composeShown.live BY <1>t, <2>1, <3>2
    <3> QED BY <3>1, <3>2
  <2>3. \A j \in Things : \A c \in Rooms : Final(j, c)' <=> Final(j, c)
    BY <2>2 DEF Final, Compose!Entry
  <2>4. \A j \in Things : \A c \in Rooms : Temp(j, c)' =>
          Temp(j, c) \/ (j = i /\ composeShown.live /\ c = composeShown.of)
    BY <2>2 DEF Temp, Compose!Entry
  <2>5. /\ Compose!Starts(i, "text", composeActive) /\ composeRec' \in Rooms \cup {None}
        /\ composeHistory' \in [Rooms -> SUBSET Compose!Entries] /\ composeActive \in Rooms
        /\ UNCHANGED <<composeActive, composeShown, disk, memory, once, composeDisturbed>>
    BY <1>t, <2>1, <2>2
  <2> QED BY <2>3, <2>4, <2>5, StartKeeps
<1>8. ASSUME NEW i \in Things, Compose!SendPhoto(i) \/ Compose!SendAudio(i) PROVE ComposeInv'
  <2>1. /\ \E k \in {"photo", "audio"}, t \in Rooms : Compose!Starts(i, k, t)
        /\ composeRec' \in Rooms \cup {None}
        /\ UNCHANGED <<composeActive, composeShown, composeHistory, disk, memory, once, composeDisturbed>>
    BY <1>8, <1>t DEF Compose!SendPhoto, Compose!SendAudio
  <2>2. PICK k \in {"photo", "audio"}, t \in Rooms : Compose!Starts(i, k, t) BY <2>1
  <2>3. /\ \A j \in Things : \A c \in Rooms : Final(j, c)' <=> Final(j, c)
        /\ \A j \in Things : \A c \in Rooms : Temp(j, c)' => Temp(j, c)
    BY <2>1 DEF Final, Temp
  <2>4. composeHistory' \in [Rooms -> SUBSET Compose!Entries] BY <1>t, <2>1
  <2> QED BY <2>1, <2>2, <2>3, <2>4, StartKeeps
<1>9. ASSUME NEW i \in Things, Compose!TextSent(i) PROVE ComposeInv'
  <2> DEFINE h == Compose!Confirmed(i)
  <2>0. PICK t \in Rooms : t = job[i].target
    BY <1>9 DEF Compose!TextSent, ComposeInv, ComposeBase
  <2>1. job[i].at = "sending" /\ job[i].kind = "text"
    BY <1>9 DEF Compose!TextSent
  <2>2. /\ Compose!Ends(i, "sent") /\ once' = FALSE /\ composeShown' = Compose!Listed(t)
        /\ composeDisturbed' = (composeDisturbed \/ Compose!InFlight # {i})
        /\ UNCHANGED <<composeActive, composeRec>>
    BY <1>9, <2>0 DEF Compose!TextSent
  <2>3. \/ /\ job[i].eph /\ memory' = [memory EXCEPT ![t] = @ \cup {i}] /\ composeHistory' = h /\ disk' = disk
        \/ /\ ~job[i].eph /\ Compose!Entry(i, FALSE) \in h[t]
           /\ composeHistory' = h /\ disk' = disk /\ memory' = memory
        \/ /\ ~job[i].eph /\ Compose!Entry(i, FALSE) \notin h[t]
           /\ composeHistory' = [h EXCEPT ![t] = @ \cup {Compose!Entry(i, FALSE)}]
           /\ disk' = composeHistory' /\ memory' = memory
    BY <1>9, <2>0, Zenon DEF Compose!TextSent, Compose!Eph
  <2>4. \A c \in Rooms :
         /\ h[c] \subseteq Compose!Entries
         /\ Compose!Entry(i, TRUE) \notin h[c]
         /\ \A j \in Things : Compose!Entry(j, TRUE) \in h[c] => Temp(j, c)
         /\ \A j \in Things : Final(j, c) => Compose!Entry(j, FALSE) \in h[c]
         /\ \A j \in Things : Compose!Entry(j, FALSE) \in h[c] =>
              Final(j, c) \/ (j = i /\ Temp(i, c) /\ ~(composeShown.live /\ composeShown.of = c))
    BY ConfirmedEntries
  <2>5. h \in [Rooms -> SUBSET Compose!Entries]
    <3>1. h = [c \in Rooms |-> h[c]] BY DEF Compose!Confirmed
    <3> HIDE DEF h
    <3> QED BY <2>4, <3>1
  <2> HIDE DEF h
  <2>6. \A c \in Rooms : composeHistory'[c] = h[c] \/
          (composeHistory'[c] = h[c] \cup {Compose!Entry(i, FALSE)} /\ c = t /\ ~job[i].eph)
    BY <2>1, <2>3, <2>5
  <2>7. /\ composeHistory' \in [Rooms -> SUBSET Compose!Entries]
        /\ disk' \in [Rooms -> SUBSET Compose!Entries]
        /\ memory' \in [Rooms -> SUBSET Things]
        /\ disk' = disk \/ disk' = composeHistory'
    <3>1. Compose!Entry(i, FALSE) \in Compose!Entries BY EntriesDiffer
    <3>2. CASE job[i].eph
      <4>1. /\ memory' = [memory EXCEPT ![t] = @ \cup {i}] /\ composeHistory' = h /\ disk' = disk
        BY <2>3, <3>2
      <4>2. memory' \in [Rooms -> SUBSET Things] BY <1>t, <4>1
      <4> QED BY <1>t, <2>5, <4>1, <4>2
    <3>3. CASE ~job[i].eph
      <4>1. /\ memory' = memory /\ disk' \in {disk, composeHistory'}
            /\ composeHistory' \in {h, [h EXCEPT ![t] = @ \cup {Compose!Entry(i, FALSE)}]}
        BY <2>3, <3>3
      <4>2. composeHistory' \in [Rooms -> SUBSET Compose!Entries]
        <5>1. ASSUME NEW e \in Compose!Entries, NEW g \in [Rooms -> SUBSET Compose!Entries]
              PROVE  [g EXCEPT ![t] = @ \cup {e}] \in [Rooms -> SUBSET Compose!Entries]
          OBVIOUS
        <5>2. [h EXCEPT ![t] = @ \cup {Compose!Entry(i, FALSE)}] \in [Rooms -> SUBSET Compose!Entries]
          BY <2>5, <3>1, <5>1
        <5> QED BY <2>5, <4>1, <5>2
      <4> QED BY <1>t, <4>1, <4>2
    <3> QED BY <3>2, <3>3
  <2>8. \A j \in Things : \A c \in Rooms : Temp(j, c)' => Temp(j, c) /\ j # i
    <3>1. ASSUME NEW j \in Things, NEW c \in Rooms, Temp(j, c)' PROVE Temp(j, c) /\ j # i
      <4>1. Compose!Entry(j, TRUE) \in composeHistory'[c] BY <3>1 DEF Temp
      <4>2. Compose!Entry(j, TRUE) # Compose!Entry(i, FALSE) BY EntriesDiffer
      <4>3. Compose!Entry(j, TRUE) \in h[c]
        <5>1. CASE composeHistory'[c] = h[c] BY <4>1, <5>1
        <5>2. CASE composeHistory'[c] = h[c] \cup {Compose!Entry(i, FALSE)} BY <4>1, <4>2, <5>2
        <5> QED BY <2>6, <5>1, <5>2
      <4> QED BY <2>4, <4>3
    <3> QED BY <3>1
  <2>9. \A j \in Things : \A c \in Rooms : Final(j, c) => Final(j, c)'
    BY <2>4, <2>6 DEF Final
  <2>10. \A j \in Things : \A c \in Rooms : j \in memory[c] => j \in memory'[c]
    BY <1>t, <2>1, <2>3
  <2>11. i \in memory'[t] \/ Compose!Entry(i, FALSE) \in composeHistory'[t]
    BY <1>t, <2>1, <2>3, <2>5
  <2>12. i \in memory'[t] \/ Final(i, t)'
    BY <2>11 DEF Final
  <2>13. ASSUME ~composeDisturbed'
         PROVE  /\ \A j \in Things : \A c \in Rooms :
                     Final(j, c)' => Final(j, c) \/ (j = i /\ c = t /\ ~job[i].eph)
                /\ ~job[i].eph => Final(i, t)' /\ disk' = composeHistory'
    <3>1. ComposeCalm BY <2>2, <2>13 DEF ComposeInv
    <3>2. \A c \in Rooms : Temp(i, c) => composeShown.live /\ composeShown.of = c
      BY <3>1 DEF ComposeCalm
    <3>3. \A c \in Rooms : ~Final(i, c)
      BY <2>1, <3>1 DEF ComposeCalm, Compose!Sent
    <3>4. \A j \in Things : \A c \in Rooms : Compose!Entry(j, FALSE) \in h[c] => Final(j, c)
      BY <2>4, <3>2
    <3>5. \A j \in Things : \A c \in Rooms :
                     Final(j, c)' => Final(j, c) \/ (j = i /\ c = t /\ ~job[i].eph)
      BY <2>6, <3>4 DEF Final, Compose!Entry
    <3>6. Compose!Entry(i, FALSE) \notin h[t]
      BY <2>1, <3>3, <3>4
    <3> QED BY <2>1, <2>3, <2>5, <3>5, <3>6 DEF Final
  <2> QED BY <2>0, <2>1, <2>2, <2>7, <2>8, <2>9, <2>10, <2>12, <2>13, SentKeeps
<1>10. ASSUME NEW i \in Things, Compose!TextFails(i) PROVE ComposeInv'
  <2>1. /\ job[i].at = "sending" /\ Compose!Ends(i, "failed")
        /\ composeHistory' = (IF composeShown.live
             THEN [composeHistory EXCEPT ![composeShown.of] = @ \ {Compose!Entry(i, TRUE)}]
             ELSE composeHistory)
        /\ UNCHANGED <<composeActive, composeShown, disk, memory, once, composeRec, composeDisturbed>>
    BY <1>10 DEF Compose!TextFails
  <2>2. /\ composeHistory' \in [Rooms -> SUBSET Compose!Entries]
        /\ \A c \in Rooms : composeHistory'[c] \in
             {composeHistory[c], composeHistory[c] \ {Compose!Entry(i, TRUE)}}
        /\ composeShown.live => Compose!Entry(i, TRUE) \notin composeHistory'[composeShown.of]
    <3>1. CASE composeShown.live BY <1>t, <2>1, <3>1
    <3>2. CASE ~composeShown.live BY <1>t, <2>1, <3>2
    <3> QED BY <3>1, <3>2
  <2>3. \A j \in Things : \A c \in Rooms : Final(j, c)' <=> Final(j, c)
    BY <2>2 DEF Final, Compose!Entry
  <2>4. \A j \in Things : \A c \in Rooms : Temp(j, c)' => Temp(j, c)
    BY <2>2 DEF Temp
  <2>5. composeShown.live => ~Temp(i, composeShown.of)'
    BY <2>1, <2>2 DEF Temp
  <2> QED BY <2>1, <2>2, <2>3, <2>4, <2>5, FailureKeeps
<1>11. ASSUME NEW i \in Things, Compose!MediaFails(i) PROVE ComposeInv'
  <2>1. /\ job[i].at = "sending" /\ job[i].kind # "text" /\ Compose!Ends(i, "failed")
        /\ UNCHANGED <<composeActive, composeShown, composeHistory, disk, memory, once, composeRec,
                       composeDisturbed>>
    BY <1>11 DEF Compose!MediaFails
  <2>2. /\ \A j \in Things : \A c \in Rooms : Final(j, c)' <=> Final(j, c)
        /\ \A j \in Things : \A c \in Rooms : Temp(j, c)' => Temp(j, c)
        /\ composeHistory' \in [Rooms -> SUBSET Compose!Entries]
    BY <1>t, <2>1 DEF Final, Temp
  <2> QED BY <2>1, <2>2, FailureKeeps
<1>12. ASSUME NEW i \in Things, Compose!PhotoSent(i) \/ Compose!AudioSent(i) PROVE ComposeInv'
  <2>0. PICK t \in Rooms : t = job[i].target
    BY <1>12 DEF Compose!PhotoSent, Compose!AudioSent, ComposeInv, ComposeBase
  <2>1. /\ job[i].at = "sending" /\ job[i].kind # "text"
        /\ Compose!Ends(i, "sent") /\ once' = FALSE /\ composeShown' = Compose!Listed(t)
        /\ composeDisturbed' = (composeDisturbed \/ Compose!InFlight # {i})
        /\ UNCHANGED <<composeActive, composeRec>>
    BY <1>12, <2>0 DEF Compose!PhotoSent, Compose!AudioSent
  <2>2. PICK eph \in {job[i].eph, once} : Compose!Keep(i, t, eph)
    BY <1>12, <2>0 DEF Compose!PhotoSent, Compose!AudioSent, Compose!Eph
  <2>3. ASSUME ~composeDisturbed'
        PROVE  ComposeCalm /\ eph = job[i].eph /\ ~Final(i, t)
    <3>1. ComposeCalm BY <2>1, <2>3 DEF ComposeInv
    <3> QED BY <2>1, <2>2, <3>1 DEF ComposeCalm, Compose!Sent
  <2>4. CASE eph
    <3>1. memory' = [memory EXCEPT ![t] = @ \cup {i}] /\ UNCHANGED <<composeHistory, disk>>
      BY <2>2, <2>4 DEF Compose!Keep
    <3>2. /\ memory' \in [Rooms -> SUBSET Things] /\ i \in memory'[t]
          /\ \A j \in Things : \A c \in Rooms : j \in memory[c] => j \in memory'[c]
      BY <1>t, <3>1
    <3>3. /\ \A j \in Things : \A c \in Rooms : Temp(j, c)' <=> Temp(j, c)
          /\ \A j \in Things : \A c \in Rooms : Final(j, c)' <=> Final(j, c)
      BY <3>1 DEF Temp, Final
    <3>4. /\ composeHistory' \in [Rooms -> SUBSET Compose!Entries]
          /\ disk' \in [Rooms -> SUBSET Compose!Entries] /\ disk' = disk
      BY <1>t, <3>1
    <3>5. ~composeDisturbed' => job[i].eph BY <2>3, <2>4
    <3> QED BY <2>0, <2>1, <3>2, <3>3, <3>4, <3>5, SentKeeps
  <2>5. CASE ~eph
    <3>1. Compose!AddMessage(t, i) /\ memory' = memory
      BY <2>2, <2>5 DEF Compose!Keep
    <3>2. /\ composeHistory' \in [Rooms -> SUBSET Compose!Entries] /\ disk' \in [Rooms -> SUBSET Compose!Entries]
          /\ \A j \in Things : \A c \in Rooms : Temp(j, c)' => Temp(j, c)
          /\ \A j \in Things : \A c \in Rooms : Final(j, c) => Final(j, c)'
          /\ \A j \in Things : \A c \in Rooms : Final(j, c)' => Final(j, c) \/ (j = i /\ c = t)
          /\ Final(i, t)' /\ (disk' = disk \/ disk' = composeHistory')
          /\ ~Final(i, t) => disk' = composeHistory'
      BY <2>1, <3>1, Added
    <3>3. /\ memory' \in [Rooms -> SUBSET Things]
          /\ \A j \in Things : \A c \in Rooms : j \in memory[c] => j \in memory'[c]
      BY <1>t, <3>1
    <3>4. ~composeDisturbed' => ~job[i].eph /\ disk' = composeHistory'
      BY <2>3, <2>5, <3>2
    <3> QED BY <2>0, <2>1, <3>2, <3>3, <3>4, SentKeeps
  <2> QED BY <2>4, <2>5
<1> QED
  BY <1>1, <1>2, <1>3, <1>4, <1>5, <1>6, <1>7, <1>8, <1>9, <1>10, <1>11, <1>12, Zenon
  DEF Compose!Next

-----------------------------------------------------------------------------
(* View-once messages. Nobody who is not logged in has a chat open or, but   *)
(* for a session that was left, an image; a message has no more timers than  *)
(* views, and what is stored or was seen has arrived.                        *)
OnceInv ==
  /\ Once!TypeOK
  /\ Once!ProtectedWhileShown
  /\ Once!SeenIsDoomed
  /\ onceUser = None => onceActive = None /\ (modal # None => left)
  /\ \A m \in Once!Messages : onceTimers[m] <= onceSeen[m]
  /\ \A m \in Once!Messages : m \in store \/ onceSeen[m] > 0 => of[m] # None

(* Before the first login nothing has arrived.                               *)
LEMMA OnceInit == Once!Init => OnceInv
<1> SUFFICES ASSUME Once!Init PROVE OnceInv
  OBVIOUS
<1> USE DEF Once!Init
<1>1. Once!TypeOK
  <2>1. /\ onceTimers \in [Once!Messages -> 0..2] /\ onceSeen \in [Once!Messages -> 0..2]
        /\ of \in [Once!Messages -> People \cup {None}]
    OBVIOUS
  <2> QED BY <2>1 DEF Once!TypeOK
<1>2. Once!ProtectedWhileShown /\ Once!SeenIsDoomed
  BY DEF Once!ProtectedWhileShown, Once!SeenIsDoomed
<1> QED BY <1>1, <1>2 DEF OnceInv

(* A count of at most two goes one down, or up from below two.               *)
LEMMA Counts ==
  ASSUME NEW S, NEW f \in [S -> 0..2], NEW m \in S
  PROVE  /\ f[m] > 0 => [f EXCEPT ![m] = @ - 1] \in [S -> 0..2]
         /\ f[m] < 2 => [f EXCEPT ![m] = @ + 1] \in [S -> 0..2]
OBVIOUS

(* A view, of a text or of an image.                                         *)
LEMMA OnceShown ==
  ASSUME OnceInv, NEW m \in Once!Messages, Once!Shown(m), locked' \subseteq Texts,
         (modal' = modal /\ detector' = detector) \/ (modal' = m /\ detector' = m /\ m \in Things),
         moved' = moved, left' = left
  PROVE  OnceInv'
<1>0. None \notin Rooms /\ ChatOf[m] \in Rooms
  BY NoneAssumption, ChatOfAssumption DEF Once!Messages
<1>1. /\ onceActive = ChatOf[m] /\ m \in store /\ modal = None /\ onceSeen[m] < 2
      /\ onceSeen' = [onceSeen EXCEPT ![m] = @ + 1]
      /\ strangers' = (IF onceUser = of[m] THEN strangers ELSE strangers \cup {m})
      /\ onceTimers' = [onceTimers EXCEPT ![m] = @ + 1]
      /\ of' = of /\ onceUser' = onceUser /\ onceActive' = onceActive /\ store' = store
  BY Zenon DEF Once!Shown, Once!session
<1>2. /\ onceTimers \in [Once!Messages -> 0..2] /\ onceSeen \in [Once!Messages -> 0..2]
      /\ onceTimers[m] <= onceSeen[m]
  BY DEF OnceInv, Once!TypeOK
<1>3. onceTimers[m] < 2 BY <1>1, <1>2
<1>4. onceTimers' \in [Once!Messages -> 0..2] /\ onceSeen' \in [Once!Messages -> 0..2]
  BY <1>1, <1>2, <1>3, Counts
<1>5. Once!TypeOK'
  BY <1>1, <1>4 DEF OnceInv, Once!TypeOK
<1>6. /\ \A k \in Once!Messages : onceTimers'[k] >= onceTimers[k]
      /\ \A k \in Once!Messages \ {m} : onceSeen'[k] = onceSeen[k]
      /\ onceTimers'[m] > 0
      /\ \A k \in Once!Messages : onceTimers'[k] <= onceSeen'[k]
  BY <1>1, <1>2 DEF OnceInv
<1>7. Once!ProtectedWhileShown'
  BY <1>1 DEF Once!ProtectedWhileShown
<1>8. Once!SeenIsDoomed'
  BY <1>1, <1>2, <1>4, <1>6 DEF OnceInv, Once!SeenIsDoomed, Once!TypeOK
<1>9. onceUser # None
  BY <1>0, <1>1 DEF OnceInv
<1> QED BY <1>1, <1>2, <1>5, <1>6, <1>7, <1>8, <1>9 DEF OnceInv

(* A timer runs out, in the chat of its message or in another.               *)
LEMMA OnceDestroyed ==
  ASSUME OnceInv, NEW m \in Once!Messages, Once!Delete(m), onceTimers[m] > 0,
         onceTimers' = [onceTimers EXCEPT ![m] = @ - 1],
         (modal' = modal /\ detector' = detector) \/ (modal' = None /\ detector' = Once!Unprotected),
         onceUser' = onceUser, onceActive' = onceActive, of' = of, onceSeen' = onceSeen,
         strangers' = strangers, left' = left
  PROVE  OnceInv'
<1>1. /\ onceTimers \in [Once!Messages -> 0..2] /\ onceSeen \in [Once!Messages -> 0..2]
  BY DEF OnceInv, Once!TypeOK
<1>2. onceTimers' \in [Once!Messages -> 0..2] BY <1>1, Counts
<1>3. Once!TypeOK'
  BY <1>2 DEF OnceInv, Once!TypeOK, Once!Delete, Once!Unprotected
<1>4. /\ \A k \in Once!Messages : onceTimers'[k] <= onceTimers[k]
      /\ \A k \in Once!Messages \ {m} : onceTimers'[k] = onceTimers[k]
  BY <1>1
<1>5. Once!ProtectedWhileShown'
  BY DEF OnceInv, Once!ProtectedWhileShown
<1>6. Once!SeenIsDoomed'
  BY <1>4 DEF OnceInv, Once!SeenIsDoomed, Once!Delete, Once!TypeOK
<1>7. \A k \in Once!Messages : onceTimers'[k] <= onceSeen'[k]
  BY <1>1, <1>2, <1>4 DEF OnceInv
<1>8. store' \subseteq store BY DEF Once!Delete
<1> QED BY <1>3, <1>5, <1>6, <1>7, <1>8 DEF OnceInv

(* Whatever arrives, is seen, runs out or is left keeps it.                  *)
LEMMA OnceStep == OnceInv /\ [Once!Next]_onceVars => OnceInv'
<1> SUFFICES ASSUME OnceInv, [Once!Next]_onceVars PROVE OnceInv'
  OBVIOUS
<1>0. None \notin Rooms \cup People \cup Things BY NoneAssumption
<1> DEFINE Others == <<store, onceTimers, of, onceSeen, strangers, moved>>
<1>1. CASE UNCHANGED onceVars
  BY <1>1, Zenon DEF onceVars, OnceInv, Once!TypeOK, Once!ProtectedWhileShown, Once!SeenIsDoomed
<1>a. ASSUME UNCHANGED Others, Once!TypeOK', Once!ProtectedWhileShown',
             (onceUser = None => onceActive = None /\ (modal # None => left))'
      PROVE  OnceInv'
  BY <1>a DEF OnceInv, Once!SeenIsDoomed
<1>2. CASE Once!CloseChat \/ \E c \in Rooms : Once!OpenChat(c)
  BY <1>2, <1>a DEF Once!CloseChat, Once!OpenChat, Once!history, OnceInv, Once!TypeOK,
                    Once!ProtectedWhileShown
<1>3. CASE Once!Redraw \/ Once!Screenshot \/ Once!Logout
  BY <1>3, <1>a DEF Once!Redraw, Once!Screenshot, Once!Logout, Once!history, Once!session, OnceInv,
                    Once!TypeOK, Once!ProtectedWhileShown
<1>4. ASSUME NEW u \in People, Once!Login(u) PROVE OnceInv'
  BY <1>0, <1>4, <1>a DEF Once!Login, Once!history, OnceInv, Once!TypeOK, Once!ProtectedWhileShown
<1>5. CASE Once!Reload
  <2>1. /\ store' = {} /\ onceTimers' = [k \in Once!Messages |-> 0] /\ of' = of /\ onceSeen' = onceSeen
        /\ onceActive' = None /\ modal' = None
    BY <1>5 DEF Once!Reload, Once!history
  <2>2. Once!TypeOK'
    BY <1>5 DEF Once!Reload, Once!history, Once!Unprotected, OnceInv, Once!TypeOK
  <2>3. \A k \in Once!Messages : onceTimers'[k] <= onceSeen'[k]
    BY <2>1 DEF OnceInv, Once!TypeOK
  <2> QED BY <2>1, <2>2, <2>3 DEF OnceInv, Once!ProtectedWhileShown, Once!SeenIsDoomed
<1>6. ASSUME NEW m \in Once!Messages, Once!Arrive(m) PROVE OnceInv'
  <2>1. /\ onceUser # None /\ of[m] = None /\ of' = [of EXCEPT ![m] = onceUser]
        /\ store' = store \cup {m} /\ locked' = {} /\ onceUser' = onceUser /\ onceActive' = onceActive
        /\ onceTimers' = onceTimers /\ modal' = modal /\ detector' = detector /\ onceSeen' = onceSeen
        /\ strangers' = strangers /\ moved' = moved /\ left' = left
    BY <1>6 DEF Once!Arrive, Once!session
  <2>2. Once!TypeOK' BY <2>1 DEF OnceInv, Once!TypeOK
  <2>3. onceSeen[m] = 0 BY <2>1 DEF OnceInv, Once!TypeOK
  <2>4. \A k \in Once!Messages : of[k] # None => of'[k] # None
    BY <2>1 DEF OnceInv, Once!TypeOK
  <2>5. of'[m] # None
    BY <2>1 DEF OnceInv, Once!TypeOK
  <2>6. Once!ProtectedWhileShown' BY <2>1 DEF OnceInv, Once!ProtectedWhileShown
  <2>7. Once!SeenIsDoomed' BY <2>1, <2>3 DEF OnceInv, Once!SeenIsDoomed
  <2> QED BY <2>1, <2>2, <2>3, <2>4, <2>5, <2>6, <2>7 DEF OnceInv
<1>7. ASSUME NEW m \in Texts, Once!Tap(m) PROVE OnceInv'
  <2>1. locked \subseteq Texts BY DEF OnceInv, Once!TypeOK
  <2>2. /\ Once!Shown(m) /\ locked' \subseteq Texts /\ modal' = modal /\ detector' = detector
        /\ moved' = moved /\ left' = left /\ m \in Once!Messages
    BY <1>7, <2>1 DEF Once!Tap, Once!Messages
  <2>3. (modal' = modal /\ detector' = detector) \/ (modal' = m /\ detector' = m /\ m \in Things)
    BY <2>2
  <2> QED BY <2>2, <2>3, OnceShown, Zenon
<1>8. ASSUME NEW m \in Things, Once!TapImage(m) PROVE OnceInv'
  <2>1. locked \subseteq Texts BY DEF OnceInv, Once!TypeOK
  <2>2. /\ Once!Shown(m) /\ locked' \subseteq Texts /\ modal' = m /\ detector' = m
        /\ moved' = moved /\ left' = left /\ m \in Once!Messages
    BY <1>8, <2>1 DEF Once!TapImage, Once!Messages
  <2> QED BY <2>2, OnceShown, Zenon
<1>9. ASSUME NEW m \in Texts, Once!Expire(m) PROVE OnceInv'
  <2>1. /\ m \in Once!Messages /\ Once!Delete(m) /\ onceTimers[m] > 0
        /\ onceTimers' = [onceTimers EXCEPT ![m] = @ - 1] /\ modal' = modal /\ detector' = detector
        /\ onceUser' = onceUser /\ onceActive' = onceActive /\ of' = of /\ onceSeen' = onceSeen
        /\ strangers' = strangers /\ left' = left
    BY <1>9, Zenon DEF Once!Expire, Once!Messages, Once!session, Once!history
  <2>2. (modal' = modal /\ detector' = detector) \/ (modal' = None /\ detector' = Once!Unprotected)
    BY <2>1
  <2> QED BY <2>1, <2>2, OnceDestroyed, Zenon
<1>10. ASSUME NEW m \in Things, Once!Destroy(m) PROVE OnceInv'
  <2>1. /\ m \in Once!Messages /\ Once!Delete(m) /\ onceTimers[m] > 0
        /\ onceTimers' = [onceTimers EXCEPT ![m] = @ - 1]
        /\ modal' = None /\ detector' = Once!Unprotected
        /\ onceUser' = onceUser /\ onceActive' = onceActive /\ of' = of /\ onceSeen' = onceSeen
        /\ strangers' = strangers /\ left' = left
    BY <1>10, Zenon DEF Once!Destroy, Once!Messages, Once!session, Once!history
  <2> QED BY <2>1, OnceDestroyed, Zenon
<1> QED
  BY <1>1, <1>2, <1>3, <1>4, <1>5, <1>6, <1>7, <1>8, <1>9, <1>10, Zenon DEF Once!Next

-----------------------------------------------------------------------------
(* The panel. A deletion that nothing came between is of the chat that is    *)
(* active, a contact; after its first step it is not listed, after its       *)
(* second it has no messages.                                                *)
PanelInv ==
  /\ Panel!TypeOK
  /\ Panel!PanelIsActive
  /\ flow.what = "history" => flow.step \in {"no", "first", "last"}
  /\ flow.step # "no" /\ flow.whole =>
       /\ flow.chat # None /\ Panel!Active = flow.chat
       /\ flow.what = "contact" => contact = flow.chat
       /\ flow.what = "contact" /\ flow.step # "first" => flow.chat \notin panelListed
       /\ flow.what = "contact" /\ flow.step \in {"tell", "last"} => flow.chat \notin panelHistory

(* The deletions there can be.                                               *)
Flows == [what : {"none", "history", "contact"}, chat : Panel!Chats \cup {None},
          step : {"no", "first", "history", "tell", "last"}, whole : BOOLEAN]

(* Before the first click nothing is open.                                   *)
LEMMA PanelInit == Panel!Init => PanelInv
<1> SUFFICES ASSUME Panel!Init PROVE PanelInv
  OBVIOUS
<1>1. flow = [what |-> "none", chat |-> None, step |-> "no", whole |-> TRUE]
  BY DEF Panel!Init, Panel!NoFlow
<1>2. Panel!TypeOK
  <2>1. /\ flow \in Flows /\ typing \in [Panel!Chats -> {"no", "plain", "timed"}]
    BY <1>1 DEF Panel!Init, Flows
  <2> QED BY <2>1 DEF Panel!Init, Panel!TypeOK, Flows
<1>3. header = None
  BY DEF Panel!Init
<1>4. Panel!PanelIsActive
  BY <1>3, NoneAssumption
  DEF Panel!PanelIsActive, Panel!ShownIsActive, Panel!TypingOfTheChat, Panel!Quiet, Panel!Chats
<1> QED BY <1>1, <1>2, <1>4 DEF PanelInv

(* What a step of a deletion may do.                                         *)
DeletionStep ==
  flow.step # "no" /\ flow.whole =>
    /\ panelListed \ panelListed' \subseteq {flow.chat}
    /\ panelHistory \ panelHistory' \subseteq {flow.chat}
    /\ flow.what = "contact" /\ flow'.step = "no" => flow.chat \notin panelListed \cup panelHistory

(* A click, an arrow, a contact or a notification leaves no deletion whole.  *)
LEMMA TouchedFlow ==
  ASSUME flow \in Flows, Panel!Touched,
         flow.what = "history" => flow.step \in {"no", "first", "last"}
  PROVE  /\ flow' \in Flows
         /\ flow'.step # "no" => ~flow'.whole
         /\ flow'.what = "history" => flow'.step \in {"no", "first", "last"}
         /\ flow.step # "no" => flow'.step # "no"
<1>1. CASE flow.step = "no"
  <2>1. flow' = [what |-> "none", chat |-> None, step |-> "no", whole |-> TRUE]
    BY <1>1 DEF Panel!Touched, Panel!NoFlow
  <2> QED BY <1>1, <2>1 DEF Flows
<1>2. CASE flow.step # "no"
  BY <1>2 DEF Panel!Touched, Flows
<1> QED BY <1>1, <1>2

(* A step of a deletion changes the step alone.                              *)
LEMMA SteppedFlow ==
  ASSUME flow \in Flows, NEW s \in {"no", "first", "history", "tell", "last"}, Panel!Step(s)
  PROVE  /\ flow' \in Flows /\ flow'.step = s
         /\ flow'.what = flow.what /\ flow'.chat = flow.chat /\ flow'.whole = flow.whole
BY DEF Panel!Step, Flows

(* Clicks, deletions, arrivals and timers keep it, and a deletion deletes    *)
(* what was chosen.                                                          *)
LEMMA PanelStep == PanelInv /\ [Panel!Next]_panelVars => PanelInv' /\ [DeletionStep]_panelVars
<1> SUFFICES ASSUME PanelInv, [Panel!Next]_panelVars PROVE PanelInv' /\ [DeletionStep]_panelVars
  OBVIOUS
<1>0. /\ None \notin People \cup Groups /\ Null \notin People \cup Groups \cup {None}
      /\ People \cap Groups = {}
  BY NoneAssumption, NamesAssumption
<1>t. flow \in Flows BY DEF PanelInv, Panel!TypeOK, Flows
<1> USE DEF Panel!PanelIsActive, Panel!ShownIsActive, Panel!TypingOfTheChat, Panel!Quiet,
            Panel!Chats, Panel!panel, Panel!typers, Panel!data, Panel!Active
<1>1. CASE UNCHANGED panelVars
  <2>1. UNCHANGED <<contact, group, clicks, header, messages, selected, typing, panelTimers,
                    indicator, panelListed, panelHistory, stray, flow>>
    BY <1>1 DEF panelVars
  <2>2. Panel!TypeOK' BY <2>1 DEF PanelInv, Panel!TypeOK
  <2>3. Panel!PanelIsActive' BY <2>1 DEF PanelInv
  <2> QED BY <1>1, <2>1, <2>2, <2>3 DEF PanelInv
(* What touches the deletion deletes nothing.                                *)
<1>a. ASSUME Panel!Touched,
             (contact \in People \cup {None} /\ group \in Groups \cup {None} /\ (contact = None \/ group = None))',
             (clicks \subseteq Panel!Chats /\ header \in Panel!Chats \cup {None, Null})',
             (messages \in Panel!Chats \cup {None} /\ selected \in Panel!Chats \cup {None})',
             (indicator \in Panel!Chats \cup {None} /\ panelListed \subseteq People /\ stray \in BOOLEAN)',
             UNCHANGED <<typing, panelTimers, panelHistory>>, panelListed \subseteq panelListed',
             Panel!PanelIsActive'
      PROVE  PanelInv' /\ [DeletionStep]_panelVars
  <2>1. /\ flow' \in Flows /\ (flow'.step # "no" => ~flow'.whole)
        /\ flow'.what = "history" => flow'.step \in {"no", "first", "last"}
        /\ flow.step # "no" => flow'.step # "no"
    BY <1>a, <1>t, TouchedFlow DEF PanelInv
  <2>2. Panel!TypeOK'
    BY <1>a, <2>1 DEF PanelInv, Panel!TypeOK, Flows
  <2>3. PanelInv'
    BY <1>a, <2>1, <2>2 DEF PanelInv
  <2>4. DeletionStep
    BY <1>a, <2>1 DEF DeletionStep
  <2> QED BY <2>3, <2>4
<1>2. ASSUME NEW c \in Panel!Chats, Panel!Click(c) PROVE PanelInv' /\ [DeletionStep]_panelVars
  BY <1>0, <1>2, <1>a DEF Panel!Click, PanelInv, Panel!TypeOK
<1>3. ASSUME NEW c \in Panel!Chats, Panel!Opened(c) PROVE PanelInv' /\ [DeletionStep]_panelVars
  <2>1. CASE c \in People
    BY <1>0, <1>3, <2>1, <1>a DEF Panel!Opened, Panel!Shows, PanelInv, Panel!TypeOK
  <2>2. CASE c \in Groups
    BY <1>0, <1>3, <2>2, <1>a DEF Panel!Opened, Panel!Shows, PanelInv, Panel!TypeOK
  <2> QED BY <2>1, <2>2
<1>4. CASE Panel!Back
  BY <1>0, <1>4, <1>a DEF Panel!Back, PanelInv, Panel!TypeOK
<1>5. ASSUME NEW c \in People, Panel!Added(c) \/ Panel!Notified(c)
      PROVE PanelInv' /\ [DeletionStep]_panelVars
  BY <1>0, <1>5, <1>a DEF Panel!Added, Panel!Notified, PanelInv, Panel!TypeOK
<1>6. ASSUME NEW c \in Panel!Chats, Panel!Message(c) PROVE PanelInv' /\ [DeletionStep]_panelVars
  BY <1>0, <1>6 DEF Panel!Message, PanelInv, Panel!TypeOK, DeletionStep
<1>7. ASSUME NEW c \in Panel!Chats, Panel!Types(c) \/ Panel!PanelTimer(c) \/ Panel!BadgeTimer(c)
      PROVE PanelInv' /\ [DeletionStep]_panelVars
  <2>1. /\ UNCHANGED <<stray, contact, group, clicks, header, messages, selected, panelListed,
                       panelHistory, flow>>
        /\ indicator' \in {indicator, None, Panel!Active}
    BY <1>7 DEF Panel!Types, Panel!PanelTimer, Panel!BadgeTimer
  <2>2. /\ typing' \in [Panel!Chats -> {"no", "plain", "timed"}]
        /\ panelTimers' \subseteq ({"panel", "badge"} \X Panel!Chats)
    <3>1. /\ <<"panel", c>> \in {"panel", "badge"} \X Panel!Chats
          /\ <<"badge", c>> \in {"panel", "badge"} \X Panel!Chats
      OBVIOUS
    <3>2. CASE Panel!Types(c) BY <3>1, <3>2 DEF Panel!Types, PanelInv, Panel!TypeOK
    <3>3. CASE Panel!PanelTimer(c) BY <3>3 DEF Panel!PanelTimer, PanelInv, Panel!TypeOK
    <3>4. CASE Panel!BadgeTimer(c) BY <3>4 DEF Panel!BadgeTimer, PanelInv, Panel!TypeOK
    <3> QED BY <1>7, <3>2, <3>3, <3>4
  <2>3. Panel!TypeOK'
    BY <2>1, <2>2 DEF PanelInv, Panel!TypeOK
  <2> QED BY <2>1, <2>3 DEF PanelInv, DeletionStep
<1>8. ASSUME NEW w \in {"history", "contact"}, Panel!Delete(w)
      PROVE PanelInv' /\ [DeletionStep]_panelVars
  <2>1. flow' = [what |-> w, chat |-> Panel!Active, step |-> "first", whole |-> TRUE]
        /\ flow.step = "no" /\ Panel!Active # None /\ (w = "contact" => contact \in panelListed)
        /\ UNCHANGED <<stray, contact, group, clicks, header, messages, selected, typing, panelTimers,
                       indicator, panelListed, panelHistory>>
    BY <1>8 DEF Panel!Delete
  <2>2. flow' \in Flows BY <2>1 DEF PanelInv, Panel!TypeOK, Flows
  <2>3. Panel!TypeOK' BY <2>1, <2>2 DEF PanelInv, Panel!TypeOK, Flows
  <2> QED BY <1>0, <2>1, <2>3 DEF PanelInv, Panel!TypeOK, DeletionStep
<1>9. CASE Panel!EmptyHistory \/ Panel!EmptyPanel
  <2>1. \E s \in {"no", "last"} : Panel!Step(s)
    BY <1>9 DEF Panel!EmptyHistory, Panel!EmptyPanel
  <2>2. PICK s \in {"no", "last"} : Panel!Step(s) BY <2>1
  <2>3. /\ flow' \in Flows /\ flow'.step = s
        /\ flow'.what = flow.what /\ flow'.chat = flow.chat /\ flow'.whole = flow.whole
    BY <2>2, <1>t, SteppedFlow
  <2>4. /\ flow.what = "history" /\ flow.step # "no"
        /\ panelHistory' \in {panelHistory, panelHistory \ {flow.chat}}
        /\ messages' \in {messages, None}
        /\ UNCHANGED <<stray, contact, group, clicks, header, selected, typing, panelTimers,
                       indicator, panelListed>>
    BY <1>9 DEF Panel!EmptyHistory, Panel!EmptyPanel
  <2>5. Panel!TypeOK' BY <2>3, <2>4 DEF PanelInv, Panel!TypeOK, Flows
  <2> QED BY <2>3, <2>4, <2>5 DEF PanelInv, DeletionStep
<1>10. CASE Panel!RemoveContact
  <2>1. /\ flow' \in Flows /\ flow'.step = "history"
        /\ flow'.what = flow.what /\ flow'.chat = flow.chat /\ flow'.whole = flow.whole
    BY <1>10, <1>t, SteppedFlow DEF Panel!RemoveContact
  <2>2. flow.what = "contact" /\ flow.step = "first" /\ panelListed' = panelListed \ {contact}
        /\ UNCHANGED <<stray, contact, group, clicks, header, messages, selected, typing, panelTimers,
                       indicator, panelHistory>>
    BY <1>10 DEF Panel!RemoveContact
  <2>3. Panel!TypeOK' BY <2>1, <2>2 DEF PanelInv, Panel!TypeOK, Flows
  <2> QED BY <2>1, <2>2, <2>3 DEF PanelInv, DeletionStep
<1>11. CASE Panel!RemoveHistory
  <2>1. /\ flow' \in Flows /\ flow'.step = "tell"
        /\ flow'.what = flow.what /\ flow'.chat = flow.chat /\ flow'.whole = flow.whole
    BY <1>11, <1>t, SteppedFlow DEF Panel!RemoveHistory
  <2>2. flow.what = "contact" /\ flow.step = "history" /\ panelHistory' = panelHistory \ {contact}
        /\ UNCHANGED <<stray, contact, group, clicks, header, messages, selected, typing, panelTimers,
                       indicator, panelListed>>
    BY <1>11 DEF Panel!RemoveHistory
  <2>3. Panel!TypeOK' BY <2>1, <2>2 DEF PanelInv, Panel!TypeOK, Flows
  <2> QED BY <2>1, <2>2, <2>3 DEF PanelInv, DeletionStep
<1>12. CASE Panel!TellContact
  <2>1. /\ flow' \in Flows /\ flow'.step = "last"
        /\ flow'.what = flow.what /\ flow'.chat = flow.chat /\ flow'.whole = flow.whole
    BY <1>12, <1>t, SteppedFlow DEF Panel!TellContact
  <2>2. flow.what = "contact" /\ flow.step = "tell"
        /\ UNCHANGED <<stray, contact, group, clicks, header, messages, selected, typing, panelTimers,
                       indicator, panelListed, panelHistory>>
    BY <1>12 DEF Panel!TellContact
  <2>3. Panel!TypeOK' BY <2>1, <2>2 DEF PanelInv, Panel!TypeOK, Flows
  <2> QED BY <2>1, <2>2, <2>3 DEF PanelInv, DeletionStep
<1>13. CASE Panel!ClosePanel
  <2>1. /\ flow' \in Flows /\ flow'.step = "no"
        /\ flow'.what = flow.what /\ flow'.chat = flow.chat /\ flow'.whole = flow.whole
    BY <1>13, <1>t, SteppedFlow DEF Panel!ClosePanel
  <2>2. flow.what = "contact" /\ flow.step = "last" /\ contact' = None /\ header' = None
        /\ UNCHANGED <<stray, group, clicks, messages, selected, typing, panelTimers,
                       indicator, panelListed, panelHistory>>
    BY <1>13 DEF Panel!ClosePanel
  <2>3. Panel!TypeOK' BY <2>1, <2>2 DEF PanelInv, Panel!TypeOK, Flows
  <2> QED BY <1>0, <2>1, <2>2, <2>3 DEF PanelInv, DeletionStep
<1> QED
  BY <1>1, <1>2, <1>3, <1>4, <1>5, <1>6, <1>7, <1>8, <1>9, <1>10, <1>11, <1>12, <1>13, Zenon
  DEF Panel!Next

-----------------------------------------------------------------------------
(* The dialogs. What Root holds makes Root active; the promise it belongs to *)
(* is the one being resolved; a phrase that is being resolved blocks.        *)
DialogsInv ==
  /\ Dialog!TypeOK
  /\ Dialog!DialogsInOrder
  /\ content # None => dialogsActive = Root /\ kind[content] # "unused"
  /\ content # None /\ kind[content] # "note" => resolve \in {content, None}
  /\ resolve # None /\ kind[resolve] = "phrase" => block
  /\ \A d \in waiting : kind[d] \notin {"note", "unused"} /\ (~overlapped => resolve = d)

(* Nothing is open on a new page.                                            *)
LEMMA DialogsInit == Dialog!Init => DialogsInv
BY NoneAssumption
DEF Dialog!Init, DialogsInv, Dialog!TypeOK, Dialog!DialogsInOrder, Dialog!WaitingIsShown,
    Dialog!PhraseNeedsWords, Dialog!NoneLeftOpen, Dialog!MaybeDialog, Dialog!Kinds

(* Whoever asks, opens, hides or dismisses keeps it.                         *)
LEMMA DialogsStep == DialogsInv /\ [Dialog!Next]_dialogsVars => DialogsInv'
<1> SUFFICES ASSUME DialogsInv, [Dialog!Next]_dialogsVars PROVE DialogsInv'
  OBVIOUS
<1>0. None \notin Dialogs \cup Named \cup {Root} /\ Root \notin Named
  BY NoneAssumption, NamesAssumption
<1> USE DEF DialogsInv, Dialog!TypeOK, Dialog!DialogsInOrder, Dialog!WaitingIsShown,
            Dialog!PhraseNeedsWords, Dialog!NoneLeftOpen, Dialog!MaybeDialog, Dialog!Kinds
<1>1. CASE UNCHANGED dialogsVars BY <1>1 DEF dialogsVars
<1>2. ASSUME NEW d \in Dialogs, NEW k \in Dialog!Kinds, Dialog!Ask(d, k) PROVE DialogsInv'
  <2>1. /\ kind[d] = "unused" /\ kind' = [kind EXCEPT ![d] = k]
        /\ content' = (IF dialogsActive = Root THEN None ELSE d) /\ dialogsActive' = Root
        /\ second' = FALSE /\ block' = (block \/ k = "phrase")
        /\ overlapped' = (overlapped \/ dialogsActive = Root)
        /\ given' = given /\ dialogsSeen' = dialogsSeen
    BY <1>2 DEF Dialog!Ask
  <2>2. hiding' = IF dialogsActive \in Named THEN hiding \cup {dialogsActive} ELSE hiding
    BY <1>2 DEF Dialog!Ask, Dialog!TimerFor
  <2>3. /\ k = "note" => resolve' = resolve /\ waiting' = waiting
        /\ k # "note" => resolve' = d /\ waiting' = waiting \cup {d}
    BY <1>2 DEF Dialog!Ask
  <2>4. /\ kind' \in [Dialogs -> Dialog!Kinds \cup {"unused"}] /\ kind'[d] = k
        /\ \A e \in Dialogs \ {d} : kind'[e] = kind[e]
        /\ k # "unused"
    BY <2>1
  <2>5. \A e \in Dialogs : e \in waiting => e # d
    BY <2>1
  <2>6. Dialog!TypeOK'
    BY <2>1, <2>2, <2>3, <2>4
  <2>7. Dialog!WaitingIsShown'
    <3>1. CASE dialogsActive = Root \/ overlapped BY <2>1, <3>1
    <3>2. CASE dialogsActive # Root /\ ~overlapped
      <4>1. waiting = {} BY <3>2
      <4> QED BY <2>1, <2>3, <3>2, <4>1
    <3> QED BY <3>1, <3>2
  <2>8. Dialog!PhraseNeedsWords'
    BY <2>1, <2>3, <2>4
  <2>9. Dialog!NoneLeftOpen'
    BY <1>0, <2>1, <2>2
  <2>10. (content # None => dialogsActive = Root /\ kind[content] # "unused")'
    BY <2>1, <2>4
  <2>11. (content # None /\ kind[content] # "note" => resolve \in {content, None})'
    BY <2>1, <2>3, <2>4
  <2>12. (resolve # None /\ kind[resolve] = "phrase" => block)'
    BY <2>1, <2>3, <2>4
  <2>13. (\A e \in waiting : kind[e] \notin {"note", "unused"} /\ (~overlapped => resolve = e))'
    <3>1. CASE k = "note" BY <2>1, <2>3, <2>4, <2>5, <3>1
    <3>2. CASE k # "note"
      <4>1. \A e \in waiting : overlapped'
        BY <2>1
      <4> QED BY <2>1, <2>3, <2>4, <2>5, <3>2, <4>1
    <3> QED BY <3>1, <3>2
  <2> HIDE DEF Dialog!TypeOK, Dialog!WaitingIsShown, Dialog!PhraseNeedsWords, Dialog!NoneLeftOpen
  <2> QED BY <2>6, <2>7, <2>8, <2>9, <2>10, <2>11, <2>12, <2>13
<1>3. ASSUME NEW d \in Dialogs, NEW b \in BOOLEAN, Dialog!Button(d, b) PROVE DialogsInv'
  BY <1>0, <1>3 DEF Dialog!Button, Dialog!CloseModal, Dialog!Emptied, Dialog!TimerFor
<1>4. ASSUME NEW m \in Named, NEW b \in BOOLEAN, Dialog!Open(m, b) PROVE DialogsInv'
  BY <1>0, <1>4 DEF Dialog!Open, Dialog!promises, Dialog!Emptied, Dialog!TimerFor
<1>5. ASSUME NEW m \in Named, Dialog!Hidden(m) PROVE DialogsInv'
  BY <1>0, <1>5 DEF Dialog!Hidden, Dialog!promises
<1>6. ASSUME NEW m \in Named, Dialog!HideDirectly(m) PROVE DialogsInv'
  BY <1>0, <1>6 DEF Dialog!HideDirectly, Dialog!promises
<1>7. CASE Dialog!Close
  BY <1>0, <1>7 DEF Dialog!Close, Dialog!CloseModal, Dialog!Emptied, Dialog!TimerFor
<1>8. CASE Dialog!CloseNote
  BY <1>0, <1>8 DEF Dialog!CloseNote, Dialog!promises, Dialog!Emptied, Dialog!TimerFor
<1>9. CASE Dialog!Dismiss
  BY <1>0, <1>9 DEF Dialog!Dismiss, Dialog!CloseModal, Dialog!promises, Dialog!Emptied, Dialog!TimerFor
<1>10. CASE Dialog!Turn
  BY <1>0, <1>10 DEF Dialog!Turn, Dialog!promises, Dialog!named
<1>11. CASE Dialog!Confirm
  BY <1>0, <1>11 DEF Dialog!Confirm, Dialog!CloseModal, Dialog!Emptied, Dialog!TimerFor
<1> HIDE DEF DialogsInv
<1> QED
  BY <1>1, <1>2, <1>3, <1>4, <1>5, <1>6, <1>7, <1>8, <1>9, <1>10, <1>11 DEF Dialog!Next

-----------------------------------------------------------------------------
(* Privacy. What a user was told is saved is in the vault, and in every copy *)
(* while he is logged in; and no message of his is processed after his       *)
(* session but by his choice, unless another user has come.                  *)
ChosenIsStored ==
  \A u \in People : choice[u] # None /\ ~(pending /\ u = privacyUser) =>
    /\ privacyVault[u].privacy = choice[u] /\ privacyVault[u].settings # None
    /\ privacyVault[u].settings.receipts = choice[u].receipts

ChosenIsUsed ==
  privacyUser # None /\ ~pending /\ choice[privacyUser] # None =>
    /\ privacyShown = choice[privacyUser]
    /\ settings.receipts = choice[privacyUser].receipts
    /\ disabled = ~choice[privacyUser].receipts

ChosenOutlasts ==
  late # None /\ ~crossed =>
    /\ privacyUser \in {None, late}
    /\ privacyUser = None /\ choice[late] # None => disabled = ~choice[late].receipts

PrivacyInv ==
  /\ Privacy!TypeOK
  /\ pending => privacyUser # None /\ privacyShown # None
  /\ socket => privacyUser # None
  /\ ChosenIsStored /\ ChosenIsUsed /\ ChosenOutlasts
  /\ Privacy!ShownAsChosen

(* It says what the users were promised.                                     *)
LEMMA PrivacyKept == PrivacyInv => Privacy!ChoiceIsKept
<1> SUFFICES ASSUME PrivacyInv PROVE Privacy!ChoiceIsKept
  OBVIOUS
<1>1. ASSUME NEW u \in {privacyUser, late} \ {None}, Privacy!HasChosen(u, "receipts"),
             ~(crossed /\ u = late)
      PROVE  ~Privacy!MayTell
  <2>1. choice[u] # None /\ ~pending /\ ~choice[u].receipts
    BY <1>1 DEF Privacy!HasChosen
  <2>2. CASE u = privacyUser
    BY <1>1, <2>1, <2>2 DEF PrivacyInv, ChosenIsUsed, Privacy!MayTell
  <2>3. CASE u = late /\ u # privacyUser
    BY <1>1, <2>1, <2>3 DEF PrivacyInv, ChosenOutlasts, Privacy!MayTell
  <2> QED BY <1>1, <2>2, <2>3
<1>2. ASSUME privacyUser # None, Privacy!HasChosen(privacyUser, "typing")
      PROVE  ~Privacy!MayType
  BY <1>2 DEF PrivacyInv, ChosenIsUsed, Privacy!MayType, Privacy!HasChosen
<1>3. Privacy!OffIsOff
  BY <1>1, <1>2 DEF Privacy!OffIsOff
<1> QED BY <1>3 DEF PrivacyInv, Privacy!ChoiceIsKept

(* Nobody has chosen yet.                                                    *)
LEMMA PrivacyInit == Privacy!Init => PrivacyInv
<1> SUFFICES ASSUME Privacy!Init PROVE PrivacyInv
  OBVIOUS
<1>0. None \notin People BY NoneAssumption
<1>1. /\ settings \in Privacy!Settings /\ privacyShown \in Privacy!Choices
      /\ privacyVault \in [People -> [privacy : Privacy!MaybeChoice, settings : Privacy!Settings \cup {None}]]
      /\ choice \in [People -> Privacy!MaybeChoice]
      /\ \A u \in People : choice[u] = None
  BY DEF Privacy!Init, Privacy!Default, Privacy!Settings, Privacy!Choices, Privacy!MaybeChoice
<1>2. privacyUser = None /\ ~pending /\ ~socket /\ late = None
  BY DEF Privacy!Init
<1>3. Privacy!TypeOK
  BY <1>1 DEF Privacy!Init, Privacy!TypeOK, Privacy!MaybeUser, Privacy!MaybeChoice
<1>4. ChosenIsStored /\ ChosenIsUsed /\ ChosenOutlasts /\ Privacy!ShownAsChosen
  BY <1>1, <1>2 DEF ChosenIsStored, ChosenIsUsed, ChosenOutlasts, Privacy!ShownAsChosen
<1> QED BY <1>2, <1>3, <1>4 DEF PrivacyInv

VaultEntries == [privacy : Privacy!MaybeChoice, settings : Privacy!Settings \cup {None}]

(* What a save of the user's leaves in the vault.                            *)
LEMMA StoredThere ==
  ASSUME privacyVault \in [People -> VaultEntries], privacyUser \in People,
         NEW p \in Privacy!MaybeChoice, NEW s \in Privacy!Settings \cup {None}, Privacy!Stored(p, s)
  PROVE  /\ privacyVault' \in [People -> VaultEntries]
         /\ privacyVault'[privacyUser].privacy = p /\ privacyVault'[privacyUser].settings = s
         /\ \A u \in People \ {privacyUser} : privacyVault'[u] = privacyVault[u]
<1>1. [privacy |-> p, settings |-> s] \in VaultEntries
  BY DEF VaultEntries
<1> QED BY <1>1 DEF Privacy!Stored

(* Settings whose receipts are changed are settings.                         *)
LEMMA ReceiptsOf ==
  ASSUME NEW s \in Privacy!Settings, NEW b \in BOOLEAN
  PROVE  /\ [s EXCEPT !.receipts = b] \in Privacy!Settings
         /\ [s EXCEPT !.receipts = b].receipts = b
         /\ [s EXCEPT !.option = b] \in Privacy!Settings
         /\ [s EXCEPT !.option = b].receipts = s.receipts
BY DEF Privacy!Settings

(* Logins, choices, options, sockets and messages keep it.                   *)
LEMMA PrivacyStep == PrivacyInv /\ [Privacy!Next]_privacyVars => PrivacyInv'
<1> SUFFICES ASSUME PrivacyInv, [Privacy!Next]_privacyVars PROVE PrivacyInv'
  OBVIOUS
<1>0. /\ None \notin People /\ None \notin Privacy!Choices /\ None \notin Privacy!Settings
  BY NoneAssumption, ChoicesAssumption
<1>t. /\ privacyUser \in People \cup {None} /\ privacyShown \in Privacy!Choices \cup {None}
      /\ settings \in Privacy!Settings /\ disabled \in BOOLEAN
      /\ privacyVault \in [People -> VaultEntries]
      /\ pending \in BOOLEAN /\ choice \in [People -> Privacy!Choices \cup {None}]
      /\ socket \in BOOLEAN /\ online \in BOOLEAN
      /\ late \in People \cup {None} /\ crossed \in BOOLEAN
  BY DEF PrivacyInv, Privacy!TypeOK, Privacy!MaybeUser, Privacy!MaybeChoice, VaultEntries
<1>T. ASSUME privacyUser' \in People \cup {None}, privacyShown' \in Privacy!Choices \cup {None},
             settings' \in Privacy!Settings, disabled' \in BOOLEAN,
             privacyVault' \in [People -> VaultEntries],
             pending' \in BOOLEAN, choice' \in [People -> Privacy!Choices \cup {None}],
             socket' \in BOOLEAN, online' \in BOOLEAN,
             late' \in People \cup {None}, crossed' \in BOOLEAN
      PROVE  Privacy!TypeOK'
  BY <1>T DEF Privacy!TypeOK, Privacy!MaybeUser, Privacy!MaybeChoice, VaultEntries
<1>c. \A c \in Privacy!Choices : c.receipts \in BOOLEAN /\ c.online \in BOOLEAN
  BY DEF Privacy!Choices
<1>s. \A s \in Privacy!Settings : s.receipts \in BOOLEAN
  BY DEF Privacy!Settings
<1>v. \A u \in People : /\ privacyVault[u].privacy \in Privacy!Choices \cup {None}
                        /\ privacyVault[u].settings \in Privacy!Settings \cup {None}
  BY <1>t DEF VaultEntries, Privacy!MaybeChoice
<1>1. CASE UNCHANGED privacyVars
  <2>1. UNCHANGED <<privacyUser, privacyShown, settings, disabled, privacyVault, pending, choice,
                    socket, online, late, crossed>>
    BY <1>1 DEF privacyVars
  <2>2. Privacy!TypeOK' BY <1>t, <1>T, <2>1
  <2>3. ChosenIsStored' BY <2>1 DEF PrivacyInv, ChosenIsStored
  <2>4. ChosenIsUsed' /\ ChosenOutlasts' /\ Privacy!ShownAsChosen'
    BY <2>1 DEF PrivacyInv, ChosenIsUsed, ChosenOutlasts, Privacy!ShownAsChosen
  <2> QED BY <2>1, <2>2, <2>3, <2>4 DEF PrivacyInv
<1>2. ASSUME NEW u \in People, Privacy!Login(u) PROVE PrivacyInv'
  <2> DEFINE v == privacyVault[u]
             loaded == IF v.settings = None THEN settings ELSE v.settings
  <2>1. /\ privacyUser = None /\ privacyUser' = u
        /\ privacyShown' = (IF v.privacy = None THEN privacyShown ELSE v.privacy)
        /\ disabled' = ~loaded.receipts
        /\ settings' = IF privacyShown' = None THEN loaded ELSE [loaded EXCEPT !.receipts = privacyShown'.receipts]
        /\ crossed' = (crossed \/ late \notin {None, u})
        /\ UNCHANGED <<privacyVault, pending, choice, socket, online, late>>
    BY <1>2, Zenon DEF Privacy!Login, Privacy!channel
  <2>2. loaded \in Privacy!Settings BY <1>t, <1>v
  <2>3. privacyShown' \in Privacy!Choices \cup {None} BY <1>t, <1>v, <2>1
  <2>4. privacyShown' # None => settings' \in Privacy!Settings /\ settings'.receipts = privacyShown'.receipts
    <3>1. ASSUME privacyShown' # None
          PROVE  settings' = [loaded EXCEPT !.receipts = privacyShown'.receipts]
                 /\ privacyShown'.receipts \in BOOLEAN
      BY <1>c, <2>1, <2>3, <3>1
    <3>2. ASSUME NEW s \in Privacy!Settings, NEW b \in BOOLEAN, settings' = [s EXCEPT !.receipts = b]
          PROVE  settings' \in Privacy!Settings /\ settings'.receipts = b
      BY <3>2, ReceiptsOf
    <3> HIDE DEF loaded
    <3> QED BY <2>2, <3>1, <3>2
  <2>5. settings' \in Privacy!Settings BY <2>1, <2>2, <2>4
  <2>6. Privacy!TypeOK'
    <3>1. disabled' \in BOOLEAN BY <2>1
    <3>2. crossed' \in BOOLEAN BY <1>t, <2>1
    <3> QED BY <1>t, <1>T, <2>1, <2>3, <2>5, <3>1, <3>2
  <2>7. ~pending /\ ~socket BY <2>1 DEF PrivacyInv
  <2>8. choice[u] # None => /\ v.privacy = choice[u] /\ loaded.receipts = choice[u].receipts
                            /\ privacyShown' = choice[u]
    BY <2>1, <2>7 DEF PrivacyInv, ChosenIsStored
  <2>9. ChosenIsStored' BY <2>1, <2>7 DEF PrivacyInv, ChosenIsStored
  <2>10. ChosenIsUsed' BY <2>1, <2>4, <2>8 DEF ChosenIsUsed
  <2>11. ChosenOutlasts' BY <1>0, <2>1 DEF ChosenOutlasts
  <2>12. Privacy!ShownAsChosen' BY <2>1, <2>7 DEF Privacy!ShownAsChosen
  <2> QED BY <2>1, <2>6, <2>7, <2>9, <2>10, <2>11, <2>12 DEF PrivacyInv
<1>3. ASSUME NEW c \in Privacy!Choices, Privacy!Choose(c) PROVE PrivacyInv'
  <2>1. /\ privacyUser # None /\ ~pending /\ privacyShown' = c /\ pending' = TRUE
        /\ UNCHANGED <<privacyUser, settings, disabled, privacyVault, choice, socket, online, late, crossed>>
    BY <1>3, Zenon DEF Privacy!Choose, Privacy!channel, Privacy!arriving
  <2>2. Privacy!TypeOK' BY <1>t, <1>T, <2>1
  <2>3. ChosenIsStored' BY <2>1 DEF PrivacyInv, ChosenIsStored
  <2>4. ChosenIsUsed' /\ ChosenOutlasts' /\ Privacy!ShownAsChosen'
    BY <2>1 DEF PrivacyInv, ChosenIsUsed, ChosenOutlasts, Privacy!ShownAsChosen
  <2> QED BY <1>0, <2>1, <2>2, <2>3, <2>4 DEF PrivacyInv
<1>4. CASE Privacy!Chosen
  <2>1. /\ pending /\ pending' = FALSE /\ settings' = [settings EXCEPT !.receipts = privacyShown.receipts]
        /\ disabled' = ~privacyShown.receipts /\ Privacy!Stored(privacyShown, settings')
        /\ choice' = [choice EXCEPT ![privacyUser] = privacyShown] /\ socket' = FALSE
        /\ UNCHANGED <<privacyUser, privacyShown, online, late, crossed>>
    BY <1>4, Zenon DEF Privacy!Chosen, Privacy!arriving
  <2>2. privacyUser \in People /\ privacyShown \in Privacy!Choices
    BY <1>t, <2>1 DEF PrivacyInv
  <2>3. settings' \in Privacy!Settings /\ settings'.receipts = privacyShown.receipts
    BY <1>c, <1>t, <2>1, <2>2, ReceiptsOf
  <2>4. /\ privacyVault' \in [People -> VaultEntries]
        /\ privacyVault'[privacyUser].privacy = privacyShown
        /\ privacyVault'[privacyUser].settings = settings'
        /\ \A u \in People \ {privacyUser} : privacyVault'[u] = privacyVault[u]
    BY <1>t, <2>1, <2>2, <2>3, StoredThere DEF Privacy!MaybeChoice
  <2>5. /\ choice' \in [People -> Privacy!Choices \cup {None}] /\ choice'[privacyUser] = privacyShown
        /\ \A u \in People \ {privacyUser} : choice'[u] = choice[u]
    BY <1>t, <2>1, <2>2
  <2>6. Privacy!TypeOK'
    <3>1. disabled' \in BOOLEAN BY <2>1
    <3> QED BY <1>t, <1>T, <2>1, <2>3, <2>4, <2>5, <3>1
  <2>7. ChosenIsStored'
    <3>1. ASSUME NEW u \in People, choice'[u] # None
          PROVE  /\ privacyVault'[u].privacy = choice'[u] /\ privacyVault'[u].settings # None
                 /\ privacyVault'[u].settings.receipts = choice'[u].receipts
      <4>1. CASE u = privacyUser BY <1>0, <2>3, <2>4, <2>5, <4>1
      <4>2. CASE u # privacyUser
        BY <2>4, <2>5, <3>1, <4>2 DEF PrivacyInv, ChosenIsStored
      <4> QED BY <4>1, <4>2
    <3> QED BY <2>1, <3>1 DEF ChosenIsStored
  <2>8. ChosenIsUsed' BY <2>1, <2>3, <2>5 DEF ChosenIsUsed
  <2>9. ChosenOutlasts' BY <1>0, <2>1, <2>2 DEF PrivacyInv, ChosenOutlasts
  <2>10. Privacy!ShownAsChosen' BY <2>1 DEF Privacy!ShownAsChosen
  <2> QED BY <2>1, <2>6, <2>7, <2>8, <2>9, <2>10 DEF PrivacyInv
<1>5. ASSUME NEW b \in BOOLEAN, Privacy!SetOption(b) PROVE PrivacyInv'
  <2>1. /\ privacyUser # None /\ settings' = [settings EXCEPT !.option = b]
        /\ Privacy!Stored(privacyVault[privacyUser].privacy, settings')
        /\ disabled' = ~settings.receipts
        /\ UNCHANGED <<privacyUser, privacyShown, pending, choice, socket, online, late, crossed>>
    BY <1>5, Zenon DEF Privacy!SetOption, Privacy!channel, Privacy!arriving
  <2>2. privacyUser \in People /\ privacyVault[privacyUser].privacy \in Privacy!Choices \cup {None}
    BY <1>t, <1>v, <2>1
  <2>3. settings' \in Privacy!Settings /\ settings'.receipts = settings.receipts
    BY <1>t, <2>1, ReceiptsOf
  <2>4. /\ privacyVault' \in [People -> VaultEntries]
        /\ privacyVault'[privacyUser].privacy = privacyVault[privacyUser].privacy
        /\ privacyVault'[privacyUser].settings = settings'
        /\ \A u \in People \ {privacyUser} : privacyVault'[u] = privacyVault[u]
    BY <1>t, <2>1, <2>2, <2>3, StoredThere DEF Privacy!MaybeChoice
  <2>5. Privacy!TypeOK'
    <3>1. disabled' \in BOOLEAN BY <2>1
    <3> QED BY <1>t, <1>T, <2>1, <2>3, <2>4, <3>1
  <2>6. ChosenIsStored'
    <3>1. ASSUME NEW u \in People, choice[u] # None, ~(pending /\ u = privacyUser)
          PROVE  /\ privacyVault'[u].privacy = choice[u] /\ privacyVault'[u].settings # None
                 /\ privacyVault'[u].settings.receipts = choice[u].receipts
      <4>1. CASE u = privacyUser
        BY <1>0, <2>1, <2>3, <2>4, <3>1, <4>1 DEF PrivacyInv, ChosenIsStored, ChosenIsUsed
      <4>2. CASE u # privacyUser
        BY <2>4, <3>1, <4>2 DEF PrivacyInv, ChosenIsStored
      <4> QED BY <4>1, <4>2
    <3> QED BY <2>1, <3>1 DEF ChosenIsStored
  <2>7. ChosenIsUsed' BY <2>1, <2>3 DEF PrivacyInv, ChosenIsUsed
  <2>8. ChosenOutlasts' BY <2>1 DEF PrivacyInv, ChosenOutlasts
  <2>9. Privacy!ShownAsChosen' BY <2>1 DEF PrivacyInv, Privacy!ShownAsChosen
  <2> QED BY <2>1, <2>5, <2>6, <2>7, <2>8, <2>9 DEF PrivacyInv
<1>6. ASSUME NEW b \in BOOLEAN, Privacy!Logout(b) PROVE PrivacyInv'
  <2>1. /\ privacyUser # None
        /\ (pending /\ b) => Privacy!Stored(privacyShown, privacyVault[privacyUser].settings)
        /\ ~(pending /\ b) => privacyVault' = privacyVault
        /\ choice' = (IF pending THEN [choice EXCEPT ![privacyUser] = None] ELSE choice)
        /\ privacyUser' = None /\ privacyShown' = None /\ pending' = FALSE /\ socket' = FALSE
        /\ UNCHANGED <<settings, disabled, online, late, crossed>>
    BY <1>6 DEF Privacy!Logout, Privacy!arriving
  <2>2. privacyUser \in People /\ privacyVault[privacyUser].settings \in Privacy!Settings \cup {None}
    BY <1>t, <1>v, <2>1
  <2>3. /\ privacyVault' \in [People -> VaultEntries]
        /\ ~pending => privacyVault' = privacyVault
        /\ \A u \in People \ {privacyUser} : privacyVault'[u] = privacyVault[u]
    <3>1. CASE pending /\ b
      BY <1>t, <2>1, <2>2, <3>1, StoredThere DEF Privacy!MaybeChoice
    <3>2. CASE ~(pending /\ b) BY <1>t, <2>1, <3>2
    <3> QED BY <3>1, <3>2
  <2>4. /\ choice' \in [People -> Privacy!Choices \cup {None}]
        /\ pending => choice'[privacyUser] = None
        /\ ~pending => choice' = choice
        /\ \A u \in People \ {privacyUser} : choice'[u] = choice[u]
    BY <1>t, <2>1, <2>2
  <2>5. Privacy!TypeOK' BY <1>t, <1>T, <2>1, <2>3, <2>4
  <2>6. ChosenIsStored' BY <2>1, <2>3, <2>4 DEF PrivacyInv, ChosenIsStored
  <2>7. ChosenIsUsed' /\ Privacy!ShownAsChosen' BY <2>1 DEF ChosenIsUsed, Privacy!ShownAsChosen
  <2>8. ChosenOutlasts'
    <3>1. CASE pending
      BY <1>t, <2>1, <2>4, <3>1 DEF PrivacyInv, ChosenOutlasts
    <3>2. CASE ~pending
      BY <1>t, <2>1, <2>4, <3>2 DEF PrivacyInv, ChosenOutlasts, ChosenIsUsed
    <3> QED BY <3>1, <3>2
  <2> QED BY <2>1, <2>5, <2>6, <2>7, <2>8 DEF PrivacyInv
<1>7. CASE Privacy!Reload
  <2>1. /\ privacyUser' = None /\ privacyShown' = Privacy!Default
        /\ settings' = [receipts |-> TRUE, option |-> FALSE] /\ disabled' = FALSE
        /\ choice' = (IF pending THEN [choice EXCEPT ![privacyUser] = None] ELSE choice)
        /\ pending' = FALSE /\ socket' = FALSE /\ late' = None /\ crossed' = FALSE
        /\ UNCHANGED <<privacyVault, online>>
    BY <1>7 DEF Privacy!Reload
  <2>2. settings' \in Privacy!Settings /\ privacyShown' \in Privacy!Choices
    BY <2>1 DEF Privacy!Settings, Privacy!Choices, Privacy!Default
  <2>3. /\ choice' \in [People -> Privacy!Choices \cup {None}]
        /\ \A u \in People : choice'[u] # None => choice'[u] = choice[u] /\ ~(pending /\ u = privacyUser)
    BY <1>t, <2>1
  <2>4. Privacy!TypeOK' BY <1>t, <1>T, <2>1, <2>2, <2>3
  <2>5. ChosenIsStored' BY <2>1, <2>3 DEF PrivacyInv, ChosenIsStored
  <2>6. ChosenIsUsed' /\ ChosenOutlasts' /\ Privacy!ShownAsChosen'
    BY <2>1 DEF ChosenIsUsed, ChosenOutlasts, Privacy!ShownAsChosen
  <2> QED BY <2>1, <2>4, <2>5, <2>6 DEF PrivacyInv
<1>8. CASE Privacy!Connect
  <2>1. /\ privacyUser # None /\ socket' = TRUE
        /\ online' = (privacyShown = None \/ privacyShown.online)
        /\ UNCHANGED <<privacyUser, privacyShown, settings, disabled, privacyVault, pending, choice,
                       late, crossed>>
    BY <1>8, Zenon DEF Privacy!Connect, Privacy!ShowOnline, Privacy!chosen, Privacy!arriving
  <2>2. online' \in BOOLEAN BY <2>1
  <2>3. Privacy!TypeOK' BY <1>t, <1>T, <2>1, <2>2
  <2>4. ChosenIsStored' BY <2>1 DEF PrivacyInv, ChosenIsStored
  <2>5. ChosenIsUsed' /\ ChosenOutlasts'
    BY <2>1 DEF PrivacyInv, ChosenIsUsed, ChosenOutlasts
  <2>6. Privacy!ShownAsChosen'
    <3>1. ASSUME ~pending, choice[privacyUser] # None
          PROVE  online' = choice[privacyUser].online
      <4>1. privacyShown = choice[privacyUser] /\ choice[privacyUser].online \in BOOLEAN
        BY <1>c, <1>t, <2>1, <3>1 DEF PrivacyInv, ChosenIsUsed
      <4> QED BY <2>1, <3>1, <4>1
    <3> QED BY <2>1, <3>1 DEF Privacy!ShownAsChosen
  <2> QED BY <2>1, <2>3, <2>4, <2>5, <2>6 DEF PrivacyInv
<1>9. CASE Privacy!Arrives \/ Privacy!Told
  <2>1. /\ \/ late' = privacyUser /\ privacyUser # None /\ crossed' = crossed
           \/ late' = None /\ crossed' = FALSE
        /\ UNCHANGED <<privacyUser, privacyShown, settings, disabled, privacyVault, pending, choice,
                       socket, online>>
    BY <1>9, Zenon DEF Privacy!Arrives, Privacy!Told, Privacy!chosen, Privacy!channel
  <2>2. Privacy!TypeOK' BY <1>t, <1>T, <2>1
  <2>3. ChosenIsStored' BY <2>1 DEF PrivacyInv, ChosenIsStored
  <2>4. ChosenIsUsed' /\ ChosenOutlasts' /\ Privacy!ShownAsChosen'
    BY <2>1 DEF PrivacyInv, ChosenIsUsed, ChosenOutlasts, Privacy!ShownAsChosen
  <2> QED BY <2>1, <2>2, <2>3, <2>4 DEF PrivacyInv
<1> QED
  BY <1>1, <1>2, <1>3, <1>4, <1>5, <1>6, <1>7, <1>8, <1>9, Zenon DEF Privacy!Next

-----------------------------------------------------------------------------
(* All parts together.                                                       *)
IInv ==
  /\ ListsInv /\ HandsInv /\ GroupInv /\ ComposeInv
  /\ OnceInv /\ PanelInv /\ DialogsInv /\ PrivacyInv

(* A step of one part is a stutter of the others.                            *)
LEMMA PartsStep ==
  [Next]_vars => /\ [Lists!Next]_listsVars /\ [Hands!Next]_handsVars
                 /\ [Group!Next]_groupVars /\ [Compose!Next]_composeVars
                 /\ [Once!Next]_onceVars /\ [Panel!Next]_panelVars
                 /\ [Dialog!Next]_dialogsVars /\ [Privacy!Next]_privacyVars
BY DEF Next, vars

(* Every part begins with its own, whichever of them runs.                   *)
LEMMA IInvInit == Init => IInv
BY ListsInit, HandsInit, GroupInit, ComposeInit, OnceInit, PanelInit, DialogsInit, PrivacyInit
DEF Init, IInv

(* Every step keeps all of them.                                             *)
LEMMA IInvStep == IInv /\ [Next]_vars => IInv'
<1> SUFFICES ASSUME IInv, [Next]_vars PROVE IInv'
  OBVIOUS
<1>1. ListsInv' BY PartsStep, ListsStep DEF IInv
<1>2. HandsInv' BY PartsStep, HandsStep DEF IInv
<1>3. GroupInv' BY PartsStep, GroupStep DEF IInv
<1>4. ComposeInv' BY PartsStep, ComposeStep DEF IInv
<1>5. OnceInv' BY PartsStep, OnceStep DEF IInv
<1>6. PanelInv' BY PartsStep, PanelStep DEF IInv
<1>7. DialogsInv' BY PartsStep, DialogsStep DEF IInv
<1>8. PrivacyInv' BY PartsStep, PrivacyStep DEF IInv
<1> QED BY <1>1, <1>2, <1>3, <1>4, <1>5, <1>6, <1>7, <1>8 DEF IInv

(* The inductive invariant of the client's contacts and chats, for any       *)
(* constants.                                                                *)
THEOREM Inductive == Spec => []IInv
BY IInvInit, IInvStep, PTL DEF Spec

(* However logins, handshakes, removals and losses interleave with the saves *)
(* and with what the server is told, it knows of nobody whose contact the    *)
(* device never stored.                                                      *)
THEOREM KnownAreStored == Spec => []KnownIsStored
<1>1. IInv => KnownIsStored BY DEF IInv, ListsInv, KnownIsStored
<1> QED BY <1>1, Inductive, PTL

(* Whatever requests, accepts, renewals and rejections cross on the way, for *)
(* any number of keys and messages: at rest the two hold one key and nobody  *)
(* waits for an answer that cannot come, and an accepted contact is listed.  *)
THEOREM SettledAtRest == Spec => []HandshakeSettles
<1>1. IInv => HandshakeSettles
  BY HandsTypes, HandsKept DEF IInv, HandsInv, HandshakeSettles
<1> QED BY <1>1, Inductive, PTL

(* Once every blob has arrived, in whatever order, the members of a group of *)
(* any size have one list of members and one key; and nobody has a key that  *)
(* was not made for him.                                                     *)
THEOREM MembersAgreeAtRest == Spec => []GroupAgrees
<1>1. GroupInv => Group!MembersAgree BY Arrived
<1>2. GroupInv => Group!TypeOK /\ Group!KeysOfTheCircle BY GroupTyped DEF GroupInv
<1>3. IInv => GroupAgrees BY <1>1, <1>2 DEF IInv, GroupAgrees, Group!GroupAgrees
<1> QED BY <1>3, Inductive, PTL

(* Whatever is opened, typed, sent or taken back while sends are in flight,  *)
(* what was sent is in its chat and what was not leaves nothing behind.      *)
THEOREM SentIsKept == Spec => []CopiesKept
<1>1. IInv => CopiesKept BY ComposeKept DEF IInv, ComposeInv, CopiesKept
<1> QED BY <1>1, Inductive, PTL

(* A view-once message that is shown is watched, and destroyed in time.      *)
THEOREM ViewsAreWatched == Spec => []ViewIsWatched
<1>1. IInv => ViewIsWatched
  BY DEF IInv, OnceInv, ViewIsWatched, Once!ViewIsWatched
<1> QED BY <1>1, Inductive, PTL

(* What the panel shows and who is seen typing is of the chat it names, for  *)
(* any number of contacts, groups, clicks and timers.                        *)
THEOREM PanelOfTheChat == Spec => []PanelIsActive
<1>1. IInv => PanelIsActive BY DEF IInv, PanelInv, PanelIsActive
<1> QED BY <1>1, Inductive, PTL

(* Whoever asks is on the screen, alone, and a phrase is confirmed.          *)
THEOREM DialogsAreInOrder == Spec => []DialogsInOrder
<1>1. IInv => DialogsInOrder BY DEF IInv, DialogsInv, DialogsInOrder
<1> QED BY <1>1, Inductive, PTL

(* What a user chose not to tell is not told, on the device or to the server.*)
THEOREM ChoicesAreKept == Spec => []ChoiceIsKept
<1>1. PrivacyInv => Privacy!ChoiceIsKept BY PrivacyKept
<1>2. IInv => ChoiceIsKept BY <1>1 DEF IInv, PrivacyInv, ChoiceIsKept
<1> QED BY <1>2, Inductive, PTL

(* No dialog names as missing what is there, and no deletion takes what was  *)
(* not chosen.                                                               *)
THEOREM NamesTheRight == Spec => StepsNameTheRight
<1>1. IInv /\ [Next]_vars => [AlarmStep]_Lists!vars /\ [DeletionStep]_Panel!vars
  <2> SUFFICES ASSUME IInv, [Next]_vars PROVE [AlarmStep]_Lists!vars /\ [DeletionStep]_Panel!vars
    OBVIOUS
  <2>1. [AlarmStep]_listsVars /\ [DeletionStep]_panelVars
    BY PartsStep, ListsStep, PanelStep DEF IInv
  <2>2. UNCHANGED listsVars => UNCHANGED Lists!vars BY DEF listsVars, Lists!vars, Lists!absent
  <2>3. UNCHANGED panelVars => UNCHANGED Panel!vars BY DEF panelVars, Panel!vars
  <2> QED BY <2>1, <2>2, <2>3
<1>2. [][AlarmStep]_Lists!vars => Lists!AlarmIsTrue BY DEF AlarmStep, Lists!AlarmIsTrue
<1>3. [][DeletionStep]_Panel!vars => Panel!DeletesTheChosen BY DEF DeletionStep, Panel!DeletesTheChosen
<1> QED BY <1>1, <1>2, <1>3, Inductive, PTL DEF Spec, StepsNameTheRight
=============================================================================
