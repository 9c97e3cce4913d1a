-------------------------- MODULE MCTransferLifecycle --------------------------
(* A small instance of TransferLifecycle for TLC. *)
EXTENDS TransferLifecycle, TLC

CONSTANTS b, m1, m2, t0

MCBase == {b}
MCTransfer == {m1, m2}
MCOnchain == {m2}
MCDated == {m1}
MCTx == {m1, m2, t0}
MCProof == Base \cup (Transfer \X Role)

\* One base proof: whoever comes first swaps it, and the rest covers the other, which
\* can go out while the first is still in flight; the change of m1 covers m2 as well.
MCNeed == (m1 :> 4) @@ (m2 :> 2)
MCAmount == (m1 :> 2) @@ (m2 :> 1)
MCValue ==
    [p \in Proof |-> CASE p \in Base -> 6
                      [] p \notin Base /\ p[2] = "swap" -> Need[p[1]]
                      [] p \notin Base /\ p[2] = "rest" -> 6 - Need[p[1]]
                      [] OTHER -> Need[p[1]] - Amount[p[1]]]
MCMishaps == {"crash", "timeout", "signed", "byhand", "late"}
==============================================================================
