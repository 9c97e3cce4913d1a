---------------------------- MODULE MCSendLifecycle ----------------------------
(* Small instances of SendLifecycle for TLC. *)
EXTENDS SendLifecycle, TLC

CONSTANTS b1, b2, s1, s2, t0

MCBase == {b1, b2}
MCOneBase == {b1}
MCSend == {s1, s2}
MCTx == {s1, s2, t0}
MCProof == Base \cup (Index \X Slots)

\* s1 sends less than any proof is worth, s2 a whole one.
MCAmount == (s1 :> 1) @@ (s2 :> 2)
MCSwapped == {s2}
MCByHand == {s2}
MCNone == {}
==============================================================================
