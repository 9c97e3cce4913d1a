----------------------------- MODULE ProofsStore -----------------------------
(***************************************************************************)
(* The proof store of the wallet: the primitives of models/ProofsStore.ts  *)
(* with the SQLite batches behind them (services/db/reservationsRepo.ts,   *)
(* proofsRepo.ts).                                                         *)
(*                                                                         *)
(* `disk` is the proofs table, the authority.  `mem` is the in-memory MST  *)
(* map the operations read.  `rows` is the reservations table: one row per *)
(* operation that has locked proofs and is not resolved yet, holding what  *)
(* to put back on rollback.                                                *)
(*                                                                         *)
(* Every primitive is one executeBatch followed by a synchronous mirror    *)
(* into memory, so each is one atomic step here.  Nothing in this module   *)
(* says when a primitive is called: ReservationProtocol and SendLifecycle  *)
(* do.                                                                     *)
(***************************************************************************)

CONSTANTS
    Proof,      \* secrets of ecash proofs
    Tx,         \* transaction ids
    NoTx        \* the null tId

ASSUME NoTxAssumption == NoTx \notin Tx

VARIABLES
    disk,       \* proofs table: Proof -> ProofRec
    mem,        \* proofs map in memory: Proof -> ProofRec
    rows        \* reservations table: a set of rows

storeVars == <<disk, mem, rows>>

ProofState == {"UNSPENT", "PENDING", "SPENT"}

Held(s, t) == [state |-> s, tx |-> t]
Absent     == Held("none", NoTx)
ProofRec   == [state : ProofState, tx : Tx \cup {NoTx}]

\* `preserve` keeps each proof's own state; any other value is put back on all.
RollbackTo == ProofState \cup {"preserve"}

\* Mutants: a snapshot that forgets the owner; one that forgets the state.
SnapshotWithoutOwner(p, back) == Held(IF back = "preserve" THEN mem[p].state ELSE back, NoTx)
SnapshotAlwaysUnspent(p, back) == Held("UNSPENT", mem[p].tx)

Snapshot(p, back) ==
    Held(IF back = "preserve" THEN mem[p].state ELSE back, mem[p].tx)

Live == {p \in Proof : mem[p] # Absent}

\* reserve: the row and the locked proofs in one batch.  On disk every locked
\* proof becomes PENDING and owned by t, even one whose node is SPENT; the mirror
\* leaves SPENT nodes alone.
RowFor(t, op, S, back) ==
    [tx |-> t, op |-> op, locked |-> [p \in S |-> Snapshot(p, back)]]

\* Mutant: the lock is not mirrored into memory.
ReserveOnDiskOnly(t, op, S, back) ==
    /\ S \subseteq Live
    /\ rows' = rows \cup {RowFor(t, op, S, back)}
    /\ disk' = [p \in Proof |-> IF p \in S THEN Held("PENDING", t) ELSE disk[p]]
    /\ UNCHANGED mem

Reserve(t, op, S, back) ==
    /\ S \subseteq Live
    /\ rows' = rows \cup {RowFor(t, op, S, back)}
    /\ disk' = [p \in Proof |-> IF p \in S THEN Held("PENDING", t) ELSE disk[p]]
    /\ mem'  = [p \in Proof |-> IF p \in S /\ mem[p].state # "SPENT"
                                THEN Held("PENDING", t) ELSE mem[p]]

\* The two UPDATEs of a commit change the state and leave the owner alone.
Move(table, S, s) ==
    [p \in Proof |-> IF p \in S /\ table[p] # Absent
                     THEN [table[p] EXCEPT !.state = s] ELSE table[p]]

\* commitReservation: toSpent, then toUnspent, then the new proofs, then the row
\* is deleted, all in one batch.  `new` maps each new proof to its record.  On disk
\* a new proof replaces whatever is there; in memory a SPENT node is skipped.
Commit(r, toSpent, toUnspent, new) ==
    LET moved(table) == Move(Move(table, toSpent, "SPENT"), toUnspent, "UNSPENT")
    IN  /\ disk' = [p \in Proof |-> IF p \in DOMAIN new THEN new[p] ELSE moved(disk)[p]]
        /\ mem'  = [p \in Proof |-> IF p \in DOMAIN new /\ moved(mem)[p].state # "SPENT"
                                    THEN new[p] ELSE moved(mem)[p]]
        /\ rows' = rows \ {r}

\* Mutant: the mirror of a rollback restores the state and not the owner.
RollbackStateOnly(r) ==
    LET back(p) == p \in DOMAIN r.locked
    IN  /\ disk' = [p \in Proof |-> IF back(p) /\ disk[p] # Absent
                                    THEN r.locked[p] ELSE disk[p]]
        /\ mem'  = [p \in Proof |->
                       IF back(p) /\ mem[p] # Absent /\ mem[p].state # "SPENT"
                       THEN [mem[p] EXCEPT !.state = r.locked[p].state] ELSE mem[p]]
        /\ rows' = rows \ {r}

\* rollbackReservation, and one iteration of recoverOrphanReservations.  The
\* UPDATEs are unconditional: they do not ask whether the row is still there.
Rollback(r) ==
    LET back(p) == p \in DOMAIN r.locked
    IN  /\ disk' = [p \in Proof |-> IF back(p) /\ disk[p] # Absent
                                    THEN r.locked[p] ELSE disk[p]]
        /\ mem'  = [p \in Proof |->
                       IF back(p) /\ mem[p] # Absent /\ mem[p].state # "SPENT"
                       THEN Held(r.locked[p].state,
                                 IF r.locked[p].tx = NoTx THEN mem[p].tx
                                                          ELSE r.locked[p].tx)
                       ELSE mem[p]]
        /\ rows' = rows \ {r}

\* addOrUpdateProofs under moveToSpent / revertToSpendable: the row written is the
\* node in memory with the new state, so disk takes the owner memory has.
Overwrite(S, s) ==
    LET node(p) == [mem[p] EXCEPT !.state = s]
    IN  /\ disk' = [p \in Proof |-> IF p \in S THEN node(p) ELSE disk[p]]
        /\ mem'  = [p \in Proof |-> IF p \in S THEN node(p) ELSE mem[p]]
        /\ UNCHANGED rows

MoveToSpent(S)       == S \subseteq Live /\ Overwrite(S, "SPENT")
RevertToSpendable(S) == S \subseteq Live /\ Overwrite(S, "UNSPENT")

\* loadProofsFromDatabase with includeSpent = false: SPENT proofs have no node
\* after a restart.
LoadProofs ==
    mem' = [p \in Proof |-> IF disk[p].state \in {"UNSPENT", "PENDING"}
                            THEN disk[p] ELSE Absent]

------------------------------------------------------------------------------
Locked(p) == \E r \in rows : p \in DOMAIN r.locked

\* The proofs in state s of a table.
Having(table, s) == {p \in Proof : table[p].state = s}
==============================================================================
