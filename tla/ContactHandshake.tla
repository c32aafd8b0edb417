--------------------------- MODULE ContactHandshake ---------------------------
(* Two users become contacts: contact_manager.js, the buttons of chat_ui.js,  *)
(* the contact payloads of processIncomingBlob and the envelopes of sendBlob  *)
(* (sync_manager.js). Each side keeps a record of the other, a list entry, a  *)
(* shared key and a ratchet session made from a shared key once; what arrives *)
(* counts only if it can be opened with what the receiver has by then.        *)
EXTENDS Naturals, Sequences

CONSTANTS
  Parties,      \* the two users
  MaxKeys,      \* bound: shared keys generated
  MaxFlight,    \* bound: messages in flight to one of them
  None

VARIABLES
  rec,          \* status of the record in contactData
  listed,       \* contacts includes the other
  key,          \* sharedKeys of the other, or None
  blocked,
  sess,         \* the key the ratchet session was made from, or None
  net,          \* what is in flight to each, in order
  pc,           \* which handler is between its save and its send
  offer,        \* the key that handler has generated
  issued,
  unread,       \* type of the last message that could not be opened
  disturbed     \* something was lost, dropped or unreadable, or handlers crossed

vars == <<rec, listed, key, blocked, sess, net, pc, offer, issued, unread, disturbed>>
contact == <<rec, listed, key>>
handler == <<pc, offer, issued>>

Keys == 1..MaxKeys
Types == {"request", "accept", "reject", "chat", "resync"}
Other(p) == CHOOSE q \in Parties : q # p

Init ==
  /\ rec = [p \in Parties |-> "none"] /\ listed = [p \in Parties |-> FALSE]
  /\ key = [p \in Parties |-> None] /\ sess = [p \in Parties |-> None]
  /\ blocked = [p \in Parties |-> FALSE]
  /\ net = [p \in Parties |-> <<>>]
  /\ pc = [p \in Parties |-> "idle"] /\ offer = [p \in Parties |-> None]
  /\ issued = 0 /\ unread = None /\ disturbed = FALSE

-----------------------------------------------------------------------------
(* sendBlob: the envelope of p for a payload of this type, and the session it *)
(* makes on the way. A contact request goes as v1, an accept sealed; the rest *)
(* uses the session, making it from the shared key, or v1 when there is none. *)
(* (v1 is keyed with the shared key of the sender, or zeros: None.)           *)
Envelope(p, type) ==
  CASE type = "request" -> <<"v1", key[p]>>
    [] type = "accept"  -> <<"sealed", None>>
    [] sess[p] # None   -> <<"v2", sess[p]>>
    [] key[p] # None    -> <<"v2", key[p]>>
    [] OTHER            -> <<"v1", None>>

Session(p, type) ==
  IF type \in {"request", "accept"} \/ sess[p] # None THEN sess[p] ELSE key[p]

(* The message joins the others on the way to the other side.                 *)
Sends(p, type) ==
  /\ Len(net[Other(p)]) < MaxFlight
  /\ net' = [net EXCEPT ![Other(p)] =
       Append(@, [type |-> type, env |-> Envelope(p, type), key |-> offer[p]])]
  /\ sess' = [sess EXCEPT ![p] = Session(p, type)]

Record(p, status, inList, k) ==
  /\ rec' = [rec EXCEPT ![p] = status]
  /\ listed' = [listed EXCEPT ![p] = inList]
  /\ key' = [key EXCEPT ![p] = k]

(* An accept of the other side that this side has not seen.                   *)
AcceptComing(p) ==
  \/ pc[Other(p)] = "accepting"
  \/ \E i \in 1..Len(net[p]) : net[p][i].type = "accept"

-----------------------------------------------------------------------------
(* sendContactRequest: the request is sent, and recorded after that.          *)
Request(p) ==
  /\ pc[p] = "idle" /\ rec[p] = "none"
  /\ Sends(p, "request")
  /\ pc' = [pc EXCEPT ![p] = "requesting"]
  /\ UNCHANGED <<contact, blocked, offer, issued, unread, disturbed>>

(* addSentRequest, whatever the record says by now.                           *)
Requested(p) ==
  /\ pc[p] = "requesting"
  /\ Record(p, "sent", listed[p], key[p])
  /\ pc' = [pc EXCEPT ![p] = "idle"]
  /\ UNCHANGED <<blocked, sess, net, offer, issued, unread, disturbed>>

(* sendContactAccept: on a received request, and again to renew the           *)
(* invitation of a contact. acceptRequest comes first, with a fresh key.      *)
Accept(p) ==
  /\ pc[p] = "idle"
  /\ rec[p] = "received" \/ (rec[p] = "accepted" /\ listed[p])
  /\ issued < MaxKeys /\ issued' = issued + 1
  /\ Record(p, "accepted", TRUE, issued')
  /\ offer' = [offer EXCEPT ![p] = issued']
  /\ disturbed' = (disturbed \/ AcceptComing(p))
  /\ pc' = [pc EXCEPT ![p] = "accepting"]
  /\ UNCHANGED <<blocked, sess, net, unread>>

AcceptSent(p) ==
  /\ pc[p] = "accepting"
  /\ Sends(p, "accept")
  /\ pc' = [pc EXCEPT ![p] = "idle"] /\ offer' = [offer EXCEPT ![p] = None]
  /\ UNCHANGED <<contact, blocked, issued, unread, disturbed>>

(* The other's keys cannot be fetched: sendBlob throws, the contact stays     *)
(* accepted on this side alone.                                               *)
AcceptFails(p) ==
  /\ pc[p] = "accepting"
  /\ pc' = [pc EXCEPT ![p] = "idle"] /\ offer' = [offer EXCEPT ![p] = None]
  /\ disturbed' = TRUE
  /\ UNCHANGED <<contact, blocked, sess, net, issued, unread>>

(* rejectContactRequestFn and the removal of a contact: rejectRequest, then   *)
(* contact_reject.                                                            *)
Reject(p) ==
  /\ pc[p] = "idle" /\ rec[p] \in {"received", "accepted"}
  /\ Record(p, "none", FALSE, None)
  /\ pc' = [pc EXCEPT ![p] = "rejecting"]
  /\ UNCHANGED <<blocked, sess, net, offer, issued, unread, disturbed>>

(* cancelSentRequest drops the record and nothing else.                       *)
Cancel(p) ==
  /\ pc[p] = "idle" /\ rec[p] = "sent"
  /\ Record(p, "none", listed[p], key[p])
  /\ pc' = [pc EXCEPT ![p] = "rejecting"]
  /\ UNCHANGED <<blocked, sess, net, offer, issued, unread, disturbed>>

RejectSent(p) ==
  /\ pc[p] = "rejecting"
  /\ Sends(p, "reject")
  /\ pc' = [pc EXCEPT ![p] = "idle"]
  /\ UNCHANGED <<contact, blocked, offer, issued, unread, disturbed>>

(* Its failure is only logged.                                                *)
RejectFails(p) ==
  /\ pc[p] = "rejecting"
  /\ pc' = [pc EXCEPT ![p] = "idle"]
  /\ disturbed' = TRUE
  /\ UNCHANGED <<contact, blocked, sess, net, offer, issued, unread>>

Block(p) ==
  /\ listed[p]
  /\ blocked' = [blocked EXCEPT ![p] = ~@]
  /\ UNCHANGED <<contact, sess, net, handler, unread, disturbed>>

Chat(p) ==
  /\ listed[p]
  /\ Sends(p, "chat")
  /\ UNCHANGED <<contact, blocked, handler, unread, disturbed>>

(* acceptRequest leaves getOrInitRatchet running behind it.                   *)
InitSession(p) ==
  /\ key[p] # None /\ sess[p] = None
  /\ sess' = [sess EXCEPT ![p] = key[p]]
  /\ UNCHANGED <<contact, blocked, net, handler, unread, disturbed>>

-----------------------------------------------------------------------------
(* What a v2 envelope meets: the session, made from the shared key if there   *)
(* is none.                                                                   *)
SessionFor(p, env) == IF env[1] = "v2" /\ sess[p] = None THEN key[p] ELSE sess[p]

Readable(p, env) ==
  CASE env[1] = "sealed" -> TRUE
    [] env[1] = "v1"     -> env[2] = key[p]
    [] OTHER             -> env[2] = SessionFor(p, env)

(* Mutant: an accept updates the record and not the shared key.               *)
AppliedOldKey(p, m) ==
  CASE m.type = "request" -> Record(p, "received", listed[p], key[p])
    [] m.type = "accept"  -> Record(p, "accepted", TRUE, IF key[p] = None THEN m.key ELSE key[p])
    [] m.type = "reject"  -> Record(p, "none", FALSE, None)
    [] OTHER              -> UNCHANGED contact

(* processIncomingBlob, by type: a request overwrites the record, an accept   *)
(* is taken whether or not a request was sent, a message of someone not       *)
(* listed makes a contact of him.                                             *)
Applied(p, m) ==
  CASE m.type = "request" -> Record(p, "received", listed[p], key[p])
    [] m.type = "accept"  -> Record(p, "accepted", TRUE, m.key)
    [] m.type = "reject"  -> Record(p, "none", FALSE, None)
    [] m.type = "chat" /\ ~listed[p] -> Record(p, "accepted", TRUE, key[p])
    [] OTHER              -> UNCHANGED contact

Receive(p) ==
  /\ net[p] # <<>> /\ ~blocked[p]
  /\ LET m == Head(net[p]) IN
     /\ net' = [net EXCEPT ![p] = Tail(@)]
     /\ sess' = [sess EXCEPT ![p] = SessionFor(p, m.env)]
     /\ IF Readable(p, m.env)
        THEN Applied(p, m) /\ disturbed' = (disturbed \/ pc[p] = "requesting") /\ UNCHANGED unread
        ELSE unread' = m.type /\ disturbed' = TRUE /\ UNCHANGED contact
  /\ UNCHANGED <<blocked, handler>>

(* The sender is blocked, or the relay dropped it when its time was up.       *)
Lost(p) ==
  /\ net[p] # <<>>
  /\ net' = [net EXCEPT ![p] = Tail(@)]
  /\ disturbed' = TRUE
  /\ UNCHANGED <<contact, blocked, sess, handler, unread>>

(* The local data is gone, the account is not (restored from a backup without *)
(* contacts): the reconciliation asks the contacts to renew the invitation.   *)
DataLost(p) ==
  /\ pc[p] = "idle" /\ rec[p] = "accepted"
  /\ Record(p, "none", FALSE, None)
  /\ blocked' = [blocked EXCEPT ![p] = FALSE]
  /\ Len(net[Other(p)]) < MaxFlight
  /\ net' = [net EXCEPT ![Other(p)] =
       Append(@, [type |-> "resync", env |-> <<"v1", None>>, key |-> None])]
  /\ sess' = [sess EXCEPT ![p] = None]
  /\ disturbed' = TRUE
  /\ UNCHANGED <<handler, unread>>

Next ==
  \E p \in Parties :
    \/ Request(p) \/ Requested(p) \/ Accept(p) \/ AcceptSent(p) \/ AcceptFails(p)
    \/ Reject(p) \/ Cancel(p) \/ RejectSent(p) \/ RejectFails(p)
    \/ Block(p) \/ Chat(p) \/ InitSession(p) \/ Receive(p) \/ Lost(p) \/ DataLost(p)

Spec == Init /\ [][Next]_vars

-----------------------------------------------------------------------------
Messages == [type : Types, env : {"v1", "v2", "sealed"} \X (Keys \cup {None}), key : Keys \cup {None}]

TypeOK ==
  /\ rec \in [Parties -> {"none", "sent", "received", "accepted"}]
  /\ listed \in [Parties -> BOOLEAN] /\ blocked \in [Parties -> BOOLEAN]
  /\ key \in [Parties -> Keys \cup {None}] /\ sess \in [Parties -> Keys \cup {None}]
  /\ \A p \in Parties : Len(net[p]) <= MaxFlight /\ \A i \in 1..Len(net[p]) : net[p][i] \in Messages
  /\ pc \in [Parties -> {"idle", "requesting", "accepting", "rejecting"}]
  /\ offer \in [Parties -> Keys \cup {None}]
  /\ issued \in 0..MaxKeys /\ unread \in Types \cup {None} /\ disturbed \in BOOLEAN

AtRest == \A p \in Parties : net[p] = <<>> /\ pc[p] = "idle"

(* However requests, accepts, renewals, rejections and messages of the two    *)
(* cross on the way, at rest both hold the same shared key, unless something  *)
(* was lost, or both accepted at a time.                                      *)
OneKey ==
  AtRest /\ ~disturbed =>
    \A p, q \in Parties :
      rec[p] = "accepted" /\ rec[q] = "accepted" /\ key[p] # None /\ key[q] # None
        => key[p] = key[q]

(* At rest nobody waits for an answer that cannot come: a request that is     *)
(* shown as sent is shown as received on the other side.                      *)
NobodyWaits ==
  AtRest /\ ~disturbed =>
    \A p \in Parties : rec[p] = "sent" => rec[Other(p)] = "received"

(* Whoever has an accepted record of the other also has him in the list, or   *)
(* the chat could not be opened; no handler of either list gets them apart.   *)
AcceptedIsListed == \A p \in Parties : rec[p] = "accepted" => listed[p]

(* Once all has arrived the two sides agree on being contacts.               *)
HandshakeSettles == OneKey /\ NobodyWaits /\ AcceptedIsListed

-----------------------------------------------------------------------------
(* What the repository says and the code does not keep: TLC refutes it.      *)

(* What the option "Sincronizar con mis contactos" of the reconciliation is   *)
(* for: the contact can read the request of someone who lost his data.        *)
ResyncIsRead == unread # "resync"
=============================================================================
