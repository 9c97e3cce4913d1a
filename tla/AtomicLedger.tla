----------------------------- MODULE AtomicLedger -----------------------------
(***************************************************************************)
(* What a reservation promises, with no reservations in sight.             *)
(*                                                                         *)
(* `ledger` says what each proof is worth to the wallet once every         *)
(* operation in progress is either finished or forgotten.  An operation    *)
(* has no effect until it settles, and then it has all of it at once: its  *)
(* inputs leave, its outputs arrive, in one step.  A proof that is SPENT   *)
(* stays SPENT, and an output is never written over a proof that exists.   *)
(***************************************************************************)

CONSTANTS Proof, Tx, NoTx

VARIABLE ledger

Owned(s, t) == [state |-> s, tx |-> t]
NoProof     == Owned("none", NoTx)
Spent       == Owned("SPENT", NoTx)     \* whose it was does not matter any more

Init == ledger = [p \in Proof |-> NoProof]

\* One operation settles: everything it touches changes under its id in one step.
\* Spent ecash is out of its reach.
Settle(t) ==
    \E S \in SUBSET {p \in Proof : ledger[p] # Spent} :
        \E outcome \in [S -> {Spent, Owned("UNSPENT", t), Owned("PENDING", t)}] :
            ledger' = [p \in Proof |-> IF p \in S THEN outcome[p] ELSE ledger[p]]

\* The mint reports proofs SPENT, or never took proofs that were handed out: the
\* state changes, the owner does not.
WriteOff ==
    \E S \in SUBSET {p \in Proof : ledger[p] # NoProof} :
        ledger' = [p \in Proof |-> IF p \in S THEN Spent ELSE ledger[p]]

Release ==
    \E S \in SUBSET {p \in Proof : ledger[p].state = "PENDING"} :
        ledger' = [p \in Proof |-> IF p \in S THEN [ledger[p] EXCEPT !.state = "UNSPENT"]
                                             ELSE ledger[p]]

Next == WriteOff \/ Release \/ \E t \in Tx : Settle(t)

Spec == Init /\ [][Next]_ledger
==============================================================================
