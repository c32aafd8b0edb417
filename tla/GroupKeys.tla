------------------------------- MODULE GroupKeys -------------------------------
(* The membership and the shared key of one group: group_manager.js, the      *)
(* group dialogs of main.js, group_ui.js and chat_ui.js, and the group_*      *)
(* payloads of processIncomingBlob. Every member keeps copies of his own and  *)
(* nobody decides an order: what one member does reaches each of the others   *)
(* in a blob of its own.                                                      *)
EXTENDS Naturals, Sequences, FiniteSets

CONSTANTS
  Users,
  Creator,
  MaxKeys,     \* bound: keys generated
  None

VARIABLES
  groups,      \* userGroups: the copies of the group each user has
  out,         \* blobs that handlers have still to send
  net,         \* blobs on the way
  issued,      \* keys generated so far
  circle,      \* the members each key was made for, in the view of its maker
  known,       \* the keys each user has ever held
  disturbed    \* a blob was lost, or two changes of the group crossed

vars == <<groups, out, net, issued, circle, known, disturbed>>

Keys == 1..MaxKeys
Copy(members, k) == [members |-> members, key |-> k]
InGroup(u) == groups[u] # <<>>
View(u) == groups[u][1]          \* userGroups.find

Invite(v, g)  == [to |-> v, type |-> "invite", who |-> None, members |-> g.members, key |-> g.key]
Tell(v, t, w) == [to |-> v, type |-> t, who |-> w, members |-> {}, key |-> None]
Rekey(v, k)   == [to |-> v, type |-> "rekey", who |-> None, members |-> {}, key |-> k]

Init ==
  /\ groups = [u \in Users |-> <<>>]
  /\ out = {} /\ net = {} /\ issued = 0
  /\ circle = [k \in Keys |-> {}] /\ known = [u \in Users |-> {}]
  /\ disturbed = FALSE

(* A change that starts while blobs of another are on the way crosses it.     *)
Crossing == disturbed' = (disturbed \/ out \cup net # {})

(* Local changes of one user. Only the first copy is found and changed.       *)
Has(u, copies) ==
  /\ groups' = [groups EXCEPT ![u] = copies]
  /\ known' = [known EXCEPT ![u] = @ \cup {copies[i].key : i \in 1..Len(copies)}]

WithMembers(u, ms) == [groups[u] EXCEPT ![1].members = ms]
Rotated(u, ms)     == [groups[u] EXCEPT ![1] = Copy(ms, issued')]

(* A new key for these members.                                               *)
Generated(ms) ==
  /\ issued < MaxKeys /\ issued' = issued + 1
  /\ circle' = [circle EXCEPT ![issued'] = ms]

-----------------------------------------------------------------------------
(* createGroup with two contacts or more, and the invitations.                *)
Create(others) ==
  /\ issued = 0 /\ Cardinality(others) >= 2 /\ Creator \notin others
  /\ LET g == Copy(others \cup {Creator}, 1) IN
     /\ Generated(g.members)
     /\ Has(Creator, <<g>>)
     /\ out' = {Invite(v, g) : v \in others}
  /\ UNCHANGED <<net, disturbed>>

(* The confirmation of the dialog to add a contact: any member may, the key   *)
(* is rotated, the newcomer gets everything, the others the name and the key. *)
Add(u, v) ==
  /\ InGroup(u) /\ v \notin View(u).members
  /\ LET ms == View(u).members \cup {v} IN
     /\ Generated(ms)
     /\ Has(u, Rotated(u, ms))
     /\ out' = out \cup {Invite(v, Copy(ms, issued'))}
                   \cup UNION {{Tell(w, "add", v), Rekey(w, issued')} : w \in ms \ {u, v}}
  /\ Crossing
  /\ UNCHANGED net

(* Mutant: the key is rotated before the member is taken out.                 *)
KickRotatesFirst(u, v) ==
  /\ InGroup(u) /\ u = Creator /\ v \in View(u).members \ {u}
  /\ LET ms == View(u).members \ {v} IN
     /\ Generated(ms)
     /\ Has(u, Rotated(u, ms))
     /\ out' = out \cup {Tell(v, "remove", v)}
                   \cup {Tell(w, "remove", v) : w \in ms \ {u}}
                   \cup {Rekey(w, issued') : w \in View(u).members \ {u}}
  /\ Crossing
  /\ UNCHANGED net

(* removeGroupMemberFn: the button is shown to the creator.                   *)
Kick(u, v) ==
  /\ InGroup(u) /\ u = Creator /\ v \in View(u).members \ {u}
  /\ LET ms == View(u).members \ {v} IN
     /\ Generated(ms)
     /\ Has(u, Rotated(u, ms))
     /\ out' = out \cup {Tell(v, "remove", v)}
                   \cup UNION {{Tell(w, "remove", v), Rekey(w, issued')} : w \in ms \ {u}}
  /\ Crossing
  /\ UNCHANGED net

(* The rotation the creator may ask for when he edits the group.              *)
Rotate(u) ==
  /\ InGroup(u) /\ u = Creator
  /\ LET ms == View(u).members IN
     /\ Generated(ms)
     /\ Has(u, Rotated(u, ms))
     /\ out' = out \cup {Rekey(w, issued') : w \in ms \ {u}}
  /\ Crossing
  /\ UNCHANGED net

(* Leaving tells the others and drops every copy; no key is rotated here.     *)
Leave(u) ==
  /\ InGroup(u)
  /\ Has(u, <<>>)
  /\ out' = out \cup {Tell(w, "leave", u) : w \in View(u).members \ {u}}
  /\ Crossing
  /\ UNCHANGED <<net, issued, circle>>

-----------------------------------------------------------------------------
(* The sends are not ordered: most are not awaited, and the outbox retries    *)
(* those that failed after the ones that followed.                            *)
Send(m) == /\ m \in out /\ out' = out \ {m} /\ net' = net \cup {m}
           /\ UNCHANGED <<groups, issued, circle, known, disturbed>>

(* No keys of the receiver, an aborted loop: the failure is swallowed.        *)
SendFails(m) == /\ m \in out /\ out' = out \ {m} /\ disturbed' = TRUE
                /\ UNCHANGED <<groups, net, issued, circle, known>>

(* Expired in the relay, or unreadable.                                       *)
Lost(m) == /\ m \in net /\ net' = net \ {m} /\ disturbed' = TRUE
           /\ UNCHANGED <<groups, out, issued, circle, known>>

Arrives(m, type) == m \in net /\ m.type = type /\ net' = net \ {m}

(* An invitation is one more copy, even of a group one is already in.         *)
Invited(m) ==
  /\ Arrives(m, "invite")
  /\ Has(m.to, Append(groups[m.to], Copy(m.members, m.key)))
  /\ UNCHANGED <<out, issued, circle, disturbed>>

Added(m) ==
  /\ Arrives(m, "add")
  /\ IF InGroup(m.to) THEN Has(m.to, WithMembers(m.to, View(m.to).members \cup {m.who}))
                      ELSE UNCHANGED <<groups, known>>
  /\ UNCHANGED <<out, issued, circle, disturbed>>

Rekeyed(m) ==
  /\ Arrives(m, "rekey")
  /\ IF InGroup(m.to) THEN Has(m.to, [groups[m.to] EXCEPT ![1].key = m.key])
                      ELSE UNCHANGED <<groups, known>>
  /\ UNCHANGED <<out, issued, circle, disturbed>>

(* Whoever is removed drops his copies; the others take him off the list.     *)
Removed(m) ==
  /\ Arrives(m, "remove")
  /\ IF ~InGroup(m.to) THEN UNCHANGED <<groups, known>>
     ELSE Has(m.to, IF m.who = m.to THEN <<>> ELSE WithMembers(m.to, View(m.to).members \ {m.who}))
  /\ UNCHANGED <<out, issued, circle, disturbed>>

(* Somebody left. The creator then rotates the key for those who stay.        *)
Left(m) ==
  /\ Arrives(m, "leave")
  /\ IF InGroup(m.to)
     THEN LET ms == View(m.to).members \ {m.who} IN
          IF m.to = Creator
          THEN /\ Generated(ms)
               /\ Has(m.to, Rotated(m.to, ms))
               /\ out' = out \cup {Rekey(w, issued') : w \in ms \ {m.to}}
               /\ disturbed' = (disturbed \/ \E o \in out \cup net : o.key # None)
          ELSE Has(m.to, WithMembers(m.to, ms)) /\ UNCHANGED <<out, issued, circle, disturbed>>
     ELSE UNCHANGED <<groups, out, issued, circle, known, disturbed>>

Next ==
  \/ \E others \in SUBSET Users : Create(others)
  \/ \E u \in Users : Rotate(u) \/ Leave(u)
  \/ \E u, v \in Users : Add(u, v) \/ Kick(u, v)
  \/ \E m \in out : Send(m) \/ SendFails(m)
  \/ \E m \in net : Lost(m) \/ Invited(m) \/ Added(m) \/ Rekeyed(m) \/ Removed(m) \/ Left(m)

Spec == Init /\ [][Next]_vars

-----------------------------------------------------------------------------
Blobs == [to : Users, type : {"invite", "add", "rekey", "remove", "leave"},
          who : Users \cup {None}, members : SUBSET Users, key : Keys \cup {None}]

TypeOK ==
  /\ \A u \in Users : \A i \in 1..Len(groups[u]) :
       groups[u][i] \in [members : SUBSET Users, key : Keys]
  /\ out \subseteq Blobs /\ net \subseteq Blobs /\ issued \in 0..MaxKeys
  /\ circle \in [Keys -> SUBSET Users] /\ known \in [Users -> SUBSET Keys]
  /\ disturbed \in BOOLEAN

AtRest == out \cup net = {}

(* When everything has arrived, in whatever order, and no two changes crossed,*)
(* the members have the group once, with the same members and the same key;   *)
(* or a message of one would be unreadable for another.                       *)
MembersAgree ==
  AtRest /\ ~disturbed =>
    \A u, v \in Users : InGroup(u) /\ v \in View(u).members =>
      Len(groups[v]) = 1 /\ groups[v] = groups[u]

(* A key is never held by somebody it was not made for, whatever is lost,     *)
(* delayed or crosses on the way: who was expelled does not get the next one. *)
KeysOfTheCircle == \A u \in Users : \A k \in known[u] : u \in circle[k]

(* The copies of a group that nobody orders end alike, and its keys stay with*)
(* those they were made for.                                                 *)
GroupAgrees == MembersAgree /\ KeysOfTheCircle

-----------------------------------------------------------------------------
(* What the repository says and the code does not keep: TLC refutes it.      *)

(* The rotation after a departure exists because otherwise "quien se fue      *)
(* conserva acceso a los mensajes futuros del grupo": at rest, who is out of  *)
(* a group does not know the key it uses.                                     *)
LeaverIsOut ==
  AtRest /\ ~disturbed =>
    \A u, v \in Users : InGroup(u) /\ ~InGroup(v) => View(u).key \notin known[v]
=============================================================================
