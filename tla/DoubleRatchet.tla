---------------------------- MODULE DoubleRatchet ----------------------------
(* The double ratchet with header encryption of the WASM core                *)
(* (hermes_crypto_wasm/src/ratchet/dh_ratchet.rs): two parties over a relay  *)
(* that loses, repeats and reorders. A key is the term that derives it, so   *)
(* two keys are equal exactly when both sides computed the same derivation,  *)
(* and a ciphertext opens exactly under the key that made it.                *)
EXTENDS Integers, Sequences, FiniteSets

CONSTANTS
  Sessions,   \* how sessions are created: "roles", "shared" (create_session)
  MaxSkip,    \* MAX_SKIP, bound of a jump and of skipped_keys
  MaxSent     \* bound on the messages of each party

VARIABLES
  session,   \* the constructor both parties used
  ratchet,   \* party -> RatchetState
  network,   \* every message sent; any of them may arrive, again or never
  read,      \* history: messages decrypted
  dropped    \* history: message keys skipped when skipped_keys was full

vars == <<session, ratchet, network, read, dropped>>

Parties == {"alice", "bob"}
Other(p) == IF p = "alice" THEN "bob" ELSE "alice"

-----------------------------------------------------------------------------
(* The i-th DH key pair of a party, and none.                                *)
Pair(p, i) == [party |-> p, i |-> i]
NoPair == [party |-> "none", i |-> 0]

(* A root key is the list of the DH secrets that went into it; a secret is   *)
(* the pair of public keys it belongs to. hkdf.expand derives, from the      *)
(* secret that makes a root, a chain key and header keys by their labels.    *)
Root(r, a, b) == Append(r, {a, b})
Key(label, r) == <<label, r>>
Empty == <<>>   \* [0u8; 32] or None

FirstRoot == Root(<<>>, Pair("alice", 0), Pair("bob", 0))

(* new_with_role: both X25519 keys are known.                                *)
NewWithRole(p) ==
  [root |-> FirstRoot, dh |-> Pair(p, 0), remote |-> Pair(Other(p), 0),
   sending |-> IF p = "alice" THEN Key("chain", FirstRoot) ELSE Empty,
   receiving |-> IF p = "alice" THEN Empty ELSE Key("chain", FirstRoot),
   hks |-> IF p = "alice" THEN Key("header", FirstRoot) ELSE Empty,
   hkr |-> Key(IF p = "alice" THEN "next header" ELSE "header", FirstRoot),
   nhks |-> Key("next header", FirstRoot), nhkr |-> Key("next header", FirstRoot),
   ns |-> 0, nr |-> 0, pn |-> 0, skipped |-> {}]

(* new_from_shared_secret: only a secret is shared (Kyber keys).             *)
NewFromSharedSecret(p) ==
  [root |-> <<>>, dh |-> Pair(p, 0), remote |-> NoPair,
   sending |-> Key("chain of " \o p, <<>>), hks |-> Key("header of " \o p, <<>>),
   receiving |-> Key("chain of " \o Other(p), <<>>),
   hkr |-> Key("header of " \o Other(p), <<>>),
   nhks |-> Empty, nhkr |-> Empty,
   ns |-> 0, nr |-> 0, pn |-> 0, skipped |-> {}]

Init ==
  /\ session \in Sessions
  /\ ratchet = [p \in Parties |-> IF session = "roles" THEN NewWithRole(p)
                                  ELSE NewFromSharedSecret(p)]
  /\ network = {} /\ read = {} /\ dropped = {}

-----------------------------------------------------------------------------
(* send_ratchet: a new key pair and a new sending chain.                     *)
SendRatchet(s) ==
  LET dh == [s.dh EXCEPT !.i = @ + 1]
      root == Root(s.root, dh, s.remote)
  IN [s EXCEPT !.root = root, !.dh = dh, !.sending = Key("chain", root),
               !.hks = IF s.nhks # Empty THEN s.nhks ELSE Key("header", root),
               !.nhks = Key("next header", root),
               !.pn = s.ns, !.ns = 0]

(* encrypt. (The number in the header is written and never read.)            *)
Send(p) ==
  /\ Cardinality({m \in network : m.from = p}) < MaxSent
  /\ LET s == IF ratchet[p].sending = Empty THEN SendRatchet(ratchet[p]) ELSE ratchet[p]
     IN /\ network' = network \cup
             {[from |-> p, header |-> s.hks, dh |-> s.dh, pn |-> s.pn, n |-> s.ns,
               key |-> <<s.sending, s.ns>>]}
        /\ ratchet' = [ratchet EXCEPT ![p] = [s EXCEPT !.ns = @ + 1]]
  /\ UNCHANGED <<session, read, dropped>>

-----------------------------------------------------------------------------
(* decrypt_header: under the current header key, or else under the next one, *)
(* which then becomes the current one.                                       *)
HeaderOpens(s, m) == m.header \in {s.hkr, s.nhkr}
HeaderRead(s, m) == IF m.header = s.hkr THEN s ELSE [s EXCEPT !.hkr = s.nhkr]

(* skip_message_key_for_dh for the numbers up to n, while there is room.     *)
Skipped(s, n) == s.nr..(n - 1)
KeptOneMore(s, n) ==   \* Mutant: the length is compared with <=
  {i \in Skipped(s, n) : Cardinality(s.skipped) + (i - s.nr) <= MaxSkip}
Kept(s, n) == {i \in Skipped(s, n) : Cardinality(s.skipped) + (i - s.nr) < MaxSkip}
SkipTo(s, n) ==
  [s EXCEPT !.nr = IF n > @ THEN n ELSE @,
            !.skipped = @ \cup {[dh |-> s.remote, n |-> i, key |-> <<s.receiving, i>>] :
                                  i \in Kept(s, n)}]
Dropped(s, n) == {<<s.receiving, i>> : i \in Skipped(s, n) \ Kept(s, n)}

(* dh_ratchet: the receiving chain of a new remote key.                      *)
DhRatchet(s, remote) ==
  LET root == Root(s.root, s.dh, remote)
  IN [s EXCEPT !.root = root, !.receiving = Key("chain", root), !.sending = Empty,
               !.hkr = Key("next header", root), !.nhkr = Key("next header", root),
               !.remote = remote, !.nr = 0]

(* take_skipped_key.                                                         *)
SkippedFor(s, m) == {k \in s.skipped : k.dh = m.dh /\ k.n = m.n}
TakeSkippedCopy(s, k) == s   \* Mutant: the key is read, not removed
TakeSkipped(s, k) == [s EXCEPT !.skipped = @ \ {k}]

(* The header shows a key this side has not seen: it ends the old chain at   *)
(* pn and turns, or, in a session that had none, only records it.            *)
NewKey(s, m) == m.dh # s.remote /\ s.remote # NoPair
JumpTooFar(s, m) == NewKey(s, m) /\ m.pn >= s.nr + MaxSkip
Turned(s, m) == IF NewKey(s, m) THEN DhRatchet(SkipTo(s, m.pn), m.dh)
                ELSE [s EXCEPT !.remote = m.dh]
DroppedByTurn(s, m) == IF NewKey(s, m) THEN Dropped(s, m.pn) ELSE {}

(* Replayed, or too far ahead of the chain it belongs to.                    *)
OutOfRange(s, m) == m.n < s.nr \/ m.n >= s.nr + MaxSkip

Advanced(s, m) == [SkipTo(s, m.n) EXCEPT !.nr = m.n + 1]

(* decrypt_body: the message is read when the key is the sender's; what      *)
(* happened to the state before stays either way.                            *)
Body(m, key) == read' = IF m.key = key THEN read \cup {m} ELSE read

(* The messages for p whose header it can read.                             *)
Given(p) == {m \in network : m.from = Other(p) /\ HeaderOpens(ratchet[p], m)}

ReadSkipped(p) ==
  /\ \E m \in Given(p) :
       LET s == HeaderRead(ratchet[p], m) IN
       \E k \in SkippedFor(s, m) :
         /\ ratchet' = [ratchet EXCEPT ![p] = TakeSkipped(s, k)]
         /\ Body(m, k.key)
  /\ UNCHANGED <<session, network, dropped>>

(* MessageTooFar before the turn: the header key has been replaced.          *)
RefuseJump(p) ==
  /\ \E m \in Given(p) :
       LET s == HeaderRead(ratchet[p], m) IN
       /\ SkippedFor(s, m) = {} /\ JumpTooFar(s, m)
       /\ ratchet' = [ratchet EXCEPT ![p] = s]
  /\ UNCHANGED <<session, network, read, dropped>>

(* OldMessageReplayed or MessageTooFar after the turn, which stays.          *)
Refuse(p) ==
  /\ \E m \in Given(p) :
       LET s == HeaderRead(ratchet[p], m) IN
       /\ SkippedFor(s, m) = {} /\ ~JumpTooFar(s, m) /\ OutOfRange(Turned(s, m), m)
       /\ ratchet' = [ratchet EXCEPT ![p] = Turned(s, m)]
       /\ dropped' = dropped \cup DroppedByTurn(s, m)
  /\ UNCHANGED <<session, network, read>>

ReadNext(p) ==
  /\ \E m \in Given(p) :
       LET s == HeaderRead(ratchet[p], m)
           t == Turned(s, m)
       IN /\ SkippedFor(s, m) = {} /\ ~JumpTooFar(s, m) /\ ~OutOfRange(t, m)
          /\ ratchet' = [ratchet EXCEPT ![p] = Advanced(t, m)]
          /\ dropped' = dropped \cup DroppedByTurn(s, m) \cup Dropped(t, m.n)
          /\ Body(m, <<t.receiving, m.n>>)
  /\ UNCHANGED <<session, network>>

Next ==
  \E p \in Parties :
    Send(p) \/ ReadSkipped(p) \/ RefuseJump(p) \/ Refuse(p) \/ ReadNext(p)

Spec == Init /\ [][Next]_vars

-----------------------------------------------------------------------------
TypeOK ==
  /\ session \in Sessions
  /\ \A p \in Parties :
       /\ ratchet[p].dh.party = p
       /\ ratchet[p].remote.party \in {Other(p), "none"}
       /\ {ratchet[p].ns, ratchet[p].nr, ratchet[p].pn} \subseteq Nat
       /\ Cardinality(ratchet[p].skipped) <= MaxSkip
  /\ read \subseteq network

(* Whether giving m to its receiver now would decrypt it.                    *)
Opens(m) ==
  LET p == Other(m.from)
      s == HeaderRead(ratchet[p], m)
      t == Turned(s, m)
  IN /\ m \in Given(p)
     /\ \/ \E k \in SkippedFor(s, m) : k.key = m.key
        \/ /\ SkippedFor(s, m) = {} /\ ~JumpTooFar(s, m) /\ ~OutOfRange(t, m)
           /\ m.key = <<t.receiving, m.n>>

(* The two sides never diverge: one root extends the other by at most one    *)
(* DH secret, whatever is lost, repeated or reordered and whoever turns      *)
(* first.                                                                    *)
Extends(r, s) == s = r \/ (Len(s) = Len(r) + 1 /\ SubSeq(s, 1, Len(r)) = r)
RootsInStep ==
  \/ Extends(ratchet["alice"].root, ratchet["bob"].root)
  \/ Extends(ratchet["bob"].root, ratchet["alice"].root)

(* A message that has been read cannot be read again, through whichever of   *)
(* chain, skipped key or ratchet step its copy is tried (practical_attacks_  *)
(* test.rs, replay).                                                         *)
ReadOnce == \A m \in read : ~Opens(m)

(* The conversation can always go on: a message of the sender's current      *)
(* chain that would make the receiver turn opens, unless it is out of range. *)
ReplyOpens ==
  \A m \in network :
    LET s == ratchet[Other(m.from)] IN
    /\ m.dh = ratchet[m.from].dh /\ m.dh # s.remote
    /\ m.pn < s.nr + MaxSkip /\ m.n < MaxSkip
    => Opens(m)

(* docs/AUDIT_REPORT.md:403: packets that arrive "desordenados por latencias *)
(* de red" are decrypted. In a session from a shared secret every message    *)
(* is, in whatever order it comes, unless it is MAX_SKIP ahead or its key    *)
(* was dropped because skipped_keys was full.                                *)
Readable(m) ==
  \/ m \in read \/ m.key \in dropped
  \/ m.n >= ratchet[Other(m.from)].nr + MaxSkip
  \/ Opens(m)
SharedAnyOrder == session = "shared" => \A m \in network : Readable(m)

(* The same of every session: a message of the receiver's current chain, or  *)
(* one whose key it has kept, opens.                                         *)
AnyOrder ==
  \A m \in network :
    LET s == ratchet[Other(m.from)] IN
    m.dh = s.remote \/ SkippedFor(s, m) # {} => Readable(m)

(* What the session keeps under any loss, repetition and order of messages.  *)
SessionSound == RootsInStep /\ ReadOnce /\ ReplyOpens /\ SharedAnyOrder
=============================================================================
