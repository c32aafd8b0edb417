----------------------------- MODULE RelayChannel -----------------------------
(* What the relay promises about one blob: "FAIL-CLOSED AT-MOST-ONCE"        *)
(* (api.py:761). Once accepted a blob is delivered or lost, for good; it is  *)
(* never delivered again and never accepted again.                           *)
CONSTANT Blobs

VARIABLE stage   \* blob -> how far it has come

(* A blob may be lost before it is inside (its nonce was taken, and the      *)
(* request failed).                                                          *)
Edges == {<<"unsent", "inside">>, <<"unsent", "lost">>,
          <<"inside", "delivered">>, <<"inside", "lost">>}

Init == stage = [b \in Blobs |-> "unsent"]

(* A fetch or a crash moves several blobs at once.                           *)
Next ==
  /\ stage' \in [Blobs -> {"unsent", "inside", "delivered", "lost"}]
  /\ \A b \in Blobs : stage'[b] = stage[b] \/ <<stage[b], stage'[b]>> \in Edges

Spec == Init /\ [][Next]_stage
=============================================================================
