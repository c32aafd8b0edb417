---------------------------- MODULE SqlReplayStore ----------------------------
(* rust/hermes_replay_sql/src/lib.rs behind SqlReplayRegistry: the table     *)
(* replay_claims shared by the server's worker processes. The binding reads  *)
(* the clock, waits for a pooled connection, and only then runs statements   *)
(* that commit one by one; between any two of them another worker may run    *)
(* its own. What keeps two workers apart is the primary key and the WHERE    *)
(* clause of each UPDATE, not a lock.                                        *)
EXTENDS ReplayModel

CONSTANTS
  Workers,   \* worker processes, each with a call in progress or none
  Lag        \* longest time from reading the clock to the last statement


VARIABLES
  now,
  rows,     \* replay_claims: "missing" is a key without a row
  grants,
  calls     \* worker -> the call it is executing

vars == <<now, rows, grants, calls>>

Idle == [op |-> "idle"]

ClaimCall(op, k, ttl, n) == [op |-> op, key |-> k, ttl |-> ttl, n |-> n]

SettleCall(k, t, outcome, ttl, n) ==
  [op |-> "update", key |-> k, ttl |-> ttl, n |-> n, token |-> t, outcome |-> outcome]

Calls ==
  {Idle}
  \cup [op : {"prune", "insert"}, key : Keys, ttl : Ttls, n : Nat]
  \cup [op : {"update"}, key : Keys, ttl : Ttls, n : Nat,
        token : Tokens, outcome : Settled]

Init ==
  /\ now = 0
  /\ rows = [k \in Keys |-> Missing]
  /\ grants = [t \in Tokens |-> NoGrant]
  /\ calls = [w \in Workers |-> Idle]

(* claim is called: the clock is read.                                       *)
BeginClaim(w, k, ttl) ==
  /\ calls[w] = Idle
  /\ calls' = [calls EXCEPT ![w] = ClaimCall("prune", k, ttl, now)]
  /\ UNCHANGED <<now, rows, grants>>

(* DELETE FROM replay_claims WHERE expires_at < $1; its error is ignored.    *)
Prune(w) ==
  /\ calls[w].op = "prune"
  /\ \/ rows' = Swept(rows, {k \in Keys : Held(rows, k) /\ rows[k].expires < calls[w].n})
     \/ rows' = rows
  /\ calls' = [calls EXCEPT ![w] = [@ EXCEPT !.op = "insert"]]
  /\ UNCHANGED <<now, grants>>

(* INSERT ... VALUES (..., 'pending', ...): the token is granted.            *)
Insert(w, t) ==
  /\ calls[w].op = "insert"
  /\ grants[t].fate = "unused"
  /\ LET k == calls[w].key
         e == calls[w].n + calls[w].ttl
     IN /\ ~Held(rows, k)
        /\ rows' = [rows EXCEPT ![k] = PendingEntry(t, e)]
        /\ grants' = [grants EXCEPT ![t] = OpenGrant(k, now, e)]
  /\ calls' = [calls EXCEPT ![w] = Idle]
  /\ UNCHANGED now

(* Unique violation: AlreadyClaimed.                                         *)
InsertRefused(w) ==
  /\ calls[w].op = "insert" /\ Held(rows, calls[w].key)
  /\ calls' = [calls EXCEPT ![w] = Idle]
  /\ UNCHANGED <<now, rows, grants>>

(* Mutant: the WHERE clause does not compare claim_token.                    *)
HeldByAnyone(k, t) == rows[k].state = "pending" /\ grants[t].key = k

HeldBy(k, t) == rows[k].state = "pending" /\ rows[k].token = t

(* commit and reject are called by the holder of a token.                    *)
BeginSettle(w, k, t, outcome, ttl) ==
  /\ calls[w] = Idle
  /\ grants[t].key = k
  /\ calls' = [calls EXCEPT ![w] = SettleCall(k, t, outcome, ttl, now)]
  /\ UNCHANGED <<now, rows, grants>>

(* UPDATE ... WHERE state = 'pending' AND claim_token = $4: one row or none  *)
(* (InvalidTransition); expires_at is not part of the condition.             *)
Update(w) ==
  /\ calls[w].op = "update"
  /\ LET c == calls[w]
         e == c.n + c.ttl
     IN IF HeldBy(c.key, c.token)
        THEN /\ rows' = [rows EXCEPT ![c.key] =
                           [state |-> c.outcome, token |-> NoToken, expires |-> e]]
             /\ grants' = [grants EXCEPT ![c.token].fate = c.outcome,
                                         ![c.token].until = e]
        ELSE UNCHANGED <<rows, grants>>
  /\ calls' = [calls EXCEPT ![w] = Idle]
  /\ UNCHANGED now

(* release: a single DELETE that reads no clock.                             *)
Release(k, t) ==
  /\ HeldBy(k, t)
  /\ rows' = [rows EXCEPT ![k] = Missing]
  /\ grants' = [grants EXCEPT ![t].fate = "released"]
  /\ UNCHANGED <<now, calls>>

(* StorageError: no connection, or the statement fails.                      *)
Fail(w) ==
  /\ calls[w] # Idle
  /\ calls' = [calls EXCEPT ![w] = Idle]
  /\ UNCHANGED <<now, rows, grants>>

(* No call outlives Lag seconds (the pool gives up waiting after its         *)
(* connection timeout).                                                      *)
Tick ==
  /\ now < MaxTime
  /\ \A w \in Workers : calls[w] # Idle => now < calls[w].n + Lag
  /\ now' = now + 1
  /\ UNCHANGED <<rows, grants, calls>>

Next ==
  \/ \E w \in Workers :
       \/ \E k \in Keys, ttl \in Ttls :
            \/ BeginClaim(w, k, ttl)
            \/ \E t \in Tokens, outcome \in Settled : BeginSettle(w, k, t, outcome, ttl)
       \/ Prune(w)
       \/ \E t \in Tokens : Insert(w, t)
       \/ InsertRefused(w)
       \/ Update(w)
       \/ Fail(w)
  \/ \E k \in Keys, t \in Tokens : Release(k, t)
  \/ Tick

Spec == Init /\ [][Next]_vars

-----------------------------------------------------------------------------
TypeOK ==
  /\ now \in Nat
  /\ rows \in [Keys -> Entry]
  /\ grants \in [Tokens -> Grant]
  /\ calls \in [Workers -> Calls]

(* The contract's view of the table is the table itself.                     *)
Store == INSTANCE ReplayStore WITH claims <- rows

(* The shared table implements the contract of ReplayStore, whatever the     *)
(* workers interleave and however old the clock of a call is (up to Lag).    *)
StoreSpec == Store!Spec
=============================================================================
