-------------------------- MODULE ReservationProtocol --------------------------
(***************************************************************************)
(* Every wallet operation that moves ecash goes through a reservation:     *)
(* lock the inputs, talk to the mint, then commit or roll back.  This      *)
(* module runs any number of such operations over the primitives of        *)
(* ProofsStore, interleaved at any point, with the process dying at any    *)
(* point and setupRootStore bringing it back, and shows that together they *)
(* implement AtomicLedger: an operation has all of its effect or none.     *)
(*                                                                         *)
(* The guards state the callers' discipline: what they select before       *)
(* reserve, and what they pass to commit.  The mint is not in this module: *)
(* whether to commit or roll back is any operation's own choice, and an    *)
(* operation may also never resolve its row.                               *)
(***************************************************************************)
EXTENDS ProofsStore

VARIABLE phase      \* where the process is in its life

vars == <<storeVars, phase>>

Phases == {"up", "loading", "recovering"}
Ops    == {"spend", "revert", "retry"}

Row == [tx : Tx, op : Ops, locked : UNION {[S -> ProofRec] : S \in SUBSET Proof}]

Init ==
    /\ disk = [p \in Proof |-> Absent]
    /\ mem  = [p \in Proof |-> Absent]
    /\ rows = {}
    /\ phase = "up"

------------------------------------------------------------------------------
(* Opening: the selections the callers make.                               *)

\* Reservation ids are random: a new row never equals an open one.
Open(t, op, S, back) ==
    /\ phase = "up"
    /\ RowFor(t, op, S, back) \notin rows
    /\ Reserve(t, op, S, back)
    /\ UNCHANGED phase

\* send and melt lock spendable proofs.  With S = {} this is what the incoming
\* operations (receive, topup) do: lock nothing, then commit the new proofs.
OpenSpend(t) ==
    \E S \in SUBSET Having(mem, "UNSPENT") : Open(t, "spend", S, "UNSPENT")

\* revertTask locks the PENDING proofs the transaction handed out, which no
\* operation holds any more.
OpenRevert(t) ==
    LET S == {p \in Having(mem, "PENDING") : mem[p].tx = t /\ ~Locked(p)}
    IN  S # {} /\ Open(t, "revert", S, "PENDING")

\* Mutant: the retry puts UNSPENT back.
OpenRetryUnspending(t) ==
    \E S \in SUBSET {p \in Live : ~Locked(p)} : S # {} /\ Open(t, "retry", S, "UNSPENT")

\* The in-flight retry locks whatever nodes the stored request names, SPENT ones too.
OpenRetry(t) ==
    \E S \in SUBSET {p \in Live : ~Locked(p)} : S # {} /\ Open(t, "retry", S, "preserve")

------------------------------------------------------------------------------
(* Resolving.                                                              *)

\* A revert and a retry spend all of their inputs; a send or a melt those the mint
\* took, releasing some of the others or leaving them handed out.  The outputs are
\* proofs the wallet has never stored: SendLifecycle shows why.
Settle(r) ==
    \E spent \in SUBSET DOMAIN r.locked :
    \E released \in SUBSET (DOMAIN r.locked \ spent) :
    \E added \in SUBSET {p \in Proof : disk[p] = Absent} :
    \E s \in [added -> {"UNSPENT", "PENDING"}] :
        /\ phase = "up"
        /\ r.op # "spend" => spent = DOMAIN r.locked
        /\ Commit(r, spent, released, [p \in added |-> Held(s[p], r.tx)])
        /\ UNCHANGED phase

Abort(r) ==
    /\ phase = "up"
    /\ Rollback(r)
    /\ UNCHANGED phase

\* Sync writes off proofs that no operation holds, or returns them to spendable.
SyncWriteOff ==
    \E S \in SUBSET {p \in Live : ~Locked(p)} :
        /\ phase = "up"
        /\ S # {}
        /\ MoveToSpent(S)
        /\ UNCHANGED phase

SyncRelease ==
    \E S \in SUBSET {p \in Having(mem, "PENDING") : ~Locked(p)} :
        /\ phase = "up"
        /\ S # {}
        /\ RevertToSpendable(S)
        /\ UNCHANGED phase

------------------------------------------------------------------------------
(* Dying and coming back (setupRootStore).                                 *)

Crash ==
    /\ phase' = "loading"
    /\ mem' = [p \in Proof |-> Absent]
    /\ UNCHANGED <<disk, rows>>

Load ==
    /\ phase = "loading"
    /\ LoadProofs
    /\ phase' = "recovering"
    /\ UNCHANGED <<disk, rows>>

\* recoverOrphanReservations, one row of its loop at a time.
RecoverOrphan(r) ==
    /\ phase = "recovering"
    /\ Rollback(r)
    /\ UNCHANGED phase

Recovered ==
    /\ phase = "recovering"
    /\ rows = {}
    /\ phase' = "up"
    /\ UNCHANGED storeVars

Next ==
    \/ \E t \in Tx : OpenSpend(t) \/ OpenRevert(t) \/ OpenRetry(t)
    \/ \E r \in rows : Settle(r) \/ Abort(r) \/ RecoverOrphan(r)
    \/ SyncWriteOff \/ SyncRelease
    \/ Crash \/ Load \/ Recovered

Spec == Init /\ [][Next]_vars

------------------------------------------------------------------------------
(* Properties.                                                             *)

\* Types.  Every stored proof has an owner: commit always writes a tId.
StoredRec == [state : ProofState, tx : Tx]

TypeOK ==
    /\ disk \in [Proof -> StoredRec \cup {Absent}]
    /\ mem \in [Proof -> StoredRec \cup {Absent}]
    /\ rows \subseteq Row
    /\ phase \in Phases

LocksAreExclusive ==
    \A r1, r2 \in rows : r1 # r2 => DOMAIN r1.locked \cap DOMAIN r2.locked = {}

LocksAreOwned ==
    \A r \in rows : \A p \in DOMAIN r.locked : disk[p] = Held("PENDING", r.tx)

\* A row is a claim on its proofs: no two open reservations lock the same proof
\* (ProofsStore.reserve), and every locked proof is PENDING and owned by the
\* operation on disk, so that sync attributes a spend to the operation that made it.
LocksAreSafe == LocksAreExclusive /\ LocksAreOwned

\* The cache agrees with the authority (ProofsStore.ts mirrors every batch): a
\* node that is not SPENT equals its row, a SPENT node is SPENT on disk or will be
\* again when its reservation is rolled back, and a proof without a node is not
\* spendable.
MirrorOf(p) ==
    CASE mem[p].state \in {"UNSPENT", "PENDING"} -> disk[p] = mem[p]
      [] mem[p].state = "SPENT" ->
            \/ disk[p].state = "SPENT"
            \/ \E r \in rows : p \in DOMAIN r.locked /\ r.locked[p].state = "SPENT"
      [] OTHER -> disk[p].state \in {"none", "SPENT"}

MemoryMirrorsDisk == phase # "loading" => \A p \in Proof : MirrorOf(p)

\* What the proofs table would hold if every open reservation were forgotten.
\* Who spent a SPENT proof is not part of the ledger.
Forgotten(p) ==
    IF Locked(p) THEN (CHOOSE r \in rows : p \in DOMAIN r.locked).locked[p] ELSE disk[p]

Durable ==
    [p \in Proof |-> IF Forgotten(p).state = "SPENT" THEN Held("SPENT", NoTx)
                                                    ELSE Forgotten(p)]

\* Opening, rolling back, dying and recovering are invisible; committing is one
\* step (reservationsRepo.ts, "all in a single SQLite transaction").
Ledger == INSTANCE AtomicLedger WITH ledger <- Durable

ImplementsLedger == Ledger!Spec
==============================================================================
