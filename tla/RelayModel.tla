------------------------------ MODULE RelayModel ------------------------------
(* What the queue (BlindRelay) and the endpoints over it (RelayServer) are    *)
(* parameters of.                                                             *)
EXTENDS Naturals

CONSTANTS
  Blobs,      \* encrypted payloads; the same payload may be queued twice
  Users,      \* receivers
  Ttls,       \* ttl_seconds of a request, or the relay's own default
  Slack,      \* how late the event loop may wake a task whose sleep is over
  MaxTime,    \* bound on the clock
  MaxCount    \* bound on blind_counter

ASSUME TtlsAssumption == Ttls \subseteq Nat
ASSUME SlackAssumption == Slack \in Nat
ASSUME BoundsAssumption == MaxTime \in Nat /\ MaxCount \in Nat
=============================================================================
