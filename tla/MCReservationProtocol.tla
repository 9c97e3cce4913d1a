------------------------- MODULE MCReservationProtocol -------------------------
(* Small instances of ReservationProtocol for TLC. *)
EXTENDS ReservationProtocol, TLC

CONSTANTS p1, p2, p3, t1, t2

MCProof == {p1, p2, p3}
MCTx == {t1, t2}

Symmetry == Permutations({p1, p2, p3}) \cup Permutations({t1, t2})
==============================================================================
