---------------------- MODULE CoinsAndReservations_proofs ---------------------
(***************************************************************************)
(* Proofs about ReservationProtocol, for any sets of proofs and            *)
(* transactions: its safety invariants, and that it implements             *)
(* AtomicLedger.                                                           *)
(*                                                                         *)
(* And about CoinSelection, for any wallet of proofs, fees and amounts: a  *)
(* selection that is taken covers its fee, and one that is refused could   *)
(* not have been paid.  That rests on AllPayBest: as no proof costs more   *)
(* than it is worth, what some proofs can pay all of them can.             *)
(***************************************************************************)
EXTENDS ReservationProtocol, CoinSelection, FiniteSums

\* What a rollback puts back is a stored proof with an owner, and only a retry locks
\* proofs that are already SPENT.
SnapshotsAreStored ==
    \A r \in rows : \A p \in DOMAIN r.locked :
        /\ r.locked[p] \in StoredRec
        /\ r.op = "retry" \/ r.locked[p].state # "SPENT"

IInv ==
    /\ TypeOK
    /\ LocksAreExclusive
    /\ LocksAreOwned
    /\ MemoryMirrorsDisk
    /\ SnapshotsAreStored

------------------------------------------------------------------------------
(* Facts about rows.                                                       *)

\* A row's snapshot is a function on some of the proofs.
LEMMA RowShape ==
    ASSUME NEW r \in Row
    PROVE  /\ r.tx \in Tx
           /\ r.op \in Ops
           /\ DOMAIN r.locked \subseteq Proof
           /\ r.locked \in [DOMAIN r.locked -> ProofRec]
BY DEF Row

\* With exclusive locks the row that locks a proof is the one CHOOSE finds.
LEMMA ChosenRow ==
    ASSUME NEW R, NEW p, NEW r \in R, p \in DOMAIN r.locked,
           \A r1, r2 \in R : r1 # r2 => DOMAIN r1.locked \cap DOMAIN r2.locked = {}
    PROVE  (CHOOSE x \in R : p \in DOMAIN x.locked) = r
<1> DEFINE x == CHOOSE x \in R : p \in DOMAIN x.locked
<1>1. x \in R /\ p \in DOMAIN x.locked
    OBVIOUS
<1>2. QED
    BY <1>1

\* A new row built by reserve is a row.
LEMMA RowForShape ==
    ASSUME NEW t \in Tx, NEW op \in Ops, NEW S \in SUBSET Live, NEW back \in RollbackTo,
           TypeOK
    PROVE  /\ RowFor(t, op, S, back) \in Row
           /\ DOMAIN RowFor(t, op, S, back).locked = S
           /\ RowFor(t, op, S, back).tx = t /\ RowFor(t, op, S, back).op = op
           /\ \A p \in S : RowFor(t, op, S, back).locked[p] = Snapshot(p, back)
           /\ \A p \in S : Snapshot(p, back) \in StoredRec
<1> DEFINE L == [p \in S |-> Snapshot(p, back)]
<1>1. S \subseteq Proof
    BY DEF Live
<1>2. \A p \in S : mem[p] \in StoredRec
    BY <1>1 DEF TypeOK, Live
<1>3. \A p \in S : Snapshot(p, back) \in StoredRec
    BY <1>2 DEF Snapshot, Held, StoredRec, RollbackTo, ProofState
<1>4. StoredRec \subseteq ProofRec
    BY DEF StoredRec, ProofRec
<1>5. L \in [S -> ProofRec]
    BY <1>3, <1>4
<1>6. L \in UNION {[Q -> ProofRec] : Q \in SUBSET Proof}
    BY <1>1, <1>5
<1>7. QED
    BY <1>3, <1>6 DEF RowFor, Row

------------------------------------------------------------------------------
(* The two primitives that must be invisible.                              *)

\* Locking proofs that no other operation holds, with a snapshot that agrees with
\* the memory, keeps the invariant and leaves the ledger as it was.
LEMMA OpenStep ==
    ASSUME IInv,
           NEW t \in Tx, NEW op \in Ops, NEW S \in SUBSET Live, NEW back \in RollbackTo,
           \A p \in S : ~Locked(p),
           \A p \in S : Snapshot(p, back) = mem[p],
           op = "retry" \/ \A p \in S : mem[p].state # "SPENT",
           Open(t, op, S, back)
    PROVE  IInv' /\ Durable' = Durable
<1> DEFINE n == RowFor(t, op, S, back)
<1> USE DEF IInv
<1>1. /\ n \in Row /\ DOMAIN n.locked = S /\ n.tx = t /\ n.op = op
      /\ \A p \in S : n.locked[p] = mem[p] /\ mem[p] \in StoredRec
    <2>1. TypeOK
        OBVIOUS
    <2>2. n \in Row
        BY <2>1, RowForShape
    <2>a. DOMAIN n.locked = S
        BY DEF RowFor
    <2>3. n.tx = t /\ n.op = op
        BY <2>1, RowForShape
    <2>4. \A p \in S : n.locked[p] = Snapshot(p, back)
        BY <2>1, RowForShape
    <2>5. \A p \in S : Snapshot(p, back) \in StoredRec
        BY <2>1, RowForShape
    <2>6. QED
        BY <2>2, <2>a, <2>3, <2>4, <2>5
<1>2. /\ phase = "up" /\ phase' = phase /\ rows' = rows \cup {n}
      /\ disk' = [p \in Proof |-> IF p \in S THEN Held("PENDING", t) ELSE disk[p]]
      /\ mem'  = [p \in Proof |-> IF p \in S /\ mem[p].state # "SPENT"
                                  THEN Held("PENDING", t) ELSE mem[p]]
    BY DEF Open, Reserve
<1> HIDE DEF n
<1>3. S \subseteq Proof
    BY DEF Live
<1>4. \A r \in rows : DOMAIN r.locked \cap S = {}
    BY DEF Locked
<1>5. TypeOK'
    <2>1. Held("PENDING", t) \in StoredRec
        BY DEF Held, StoredRec, ProofState
    <2>2. disk' \in [Proof -> StoredRec \cup {Absent}] /\ mem' \in [Proof -> StoredRec \cup {Absent}]
        BY <1>2, <2>1 DEF TypeOK
    <2>3. QED
        BY <1>1, <1>2, <2>2 DEF TypeOK
<1>6. LocksAreExclusive'
    BY <1>1, <1>2, <1>4 DEF LocksAreExclusive
<1>7. LocksAreOwned'
    <2>1. ASSUME NEW r \in rows', NEW p \in DOMAIN r.locked
          PROVE  disk'[p] = Held("PENDING", r.tx)
        <3>1. CASE r = n
            BY <3>1, <1>1, <1>2, <1>3
        <3>2. CASE r \in rows
            BY <3>2, <1>2, <1>4, RowShape DEF LocksAreOwned, TypeOK
        <3>3. QED
            BY <2>1, <3>1, <3>2, <1>2
    <2>2. QED
        BY <2>1 DEF LocksAreOwned
<1>8. SnapshotsAreStored'
    BY <1>1, <1>2 DEF SnapshotsAreStored
<1>9. MemoryMirrorsDisk'
    <2>1. ASSUME NEW p \in Proof
          PROVE  MirrorOf(p)'
        <3>1. MirrorOf(p)
            BY <1>2 DEF MemoryMirrorsDisk
        <3>2. CASE p \in S /\ mem[p].state = "SPENT"
            BY <3>2, <1>1, <1>2 DEF MirrorOf
        <3>3. CASE p \in S /\ mem[p].state # "SPENT"
            BY <3>3, <1>2 DEF MirrorOf, Held
        <3>4. CASE p \notin S
            <4>1. disk'[p] = disk[p] /\ mem'[p] = mem[p]
                BY <3>4, <1>2
            <4>2. QED
                BY <3>1, <4>1, <1>2 DEF MirrorOf
        <3>5. QED
            BY <3>2, <3>3, <3>4
    <2>2. QED
        BY <2>1 DEF MemoryMirrorsDisk
<1>10. ASSUME NEW p \in Proof
       PROVE  Durable'[p] = Durable[p]
    <2>1. CASE p \in S
        <3>1. Forgotten(p)' = mem[p]
            <4>1. n \in rows' /\ p \in DOMAIN n.locked
                BY <2>1, <1>1, <1>2
            <4>2. (CHOOSE x \in rows' : p \in DOMAIN x.locked) = n
                BY <4>1, <1>6, ChosenRow DEF LocksAreExclusive
            <4>3. QED
                BY <2>1, <4>1, <4>2, <1>1 DEF Forgotten, Locked
        <3>2. Forgotten(p) = disk[p] /\ ~Locked(p)
            BY <2>1 DEF Forgotten
        <3>3. \/ disk[p] = mem[p]
              \/ disk[p].state = "SPENT" /\ mem[p].state = "SPENT"
            <4>1. MirrorOf(p)
                BY <1>2 DEF MemoryMirrorsDisk
            <4>2. mem[p].state \in ProofState
                BY <2>1, <1>1 DEF StoredRec
            <4>3. QED
                BY <4>1, <4>2, <3>2 DEF MirrorOf, ProofState, Locked
        <3>4. QED
            BY <3>1, <3>2, <3>3 DEF Durable
    <2>2. CASE p \notin S
        <3>1. disk'[p] = disk[p]
            BY <2>2, <1>2
        <3>2. \A r : r \in rows' /\ p \in DOMAIN r.locked <=> r \in rows /\ p \in DOMAIN r.locked
            BY <2>2, <1>1, <1>2
        <3>3. Forgotten(p)' = Forgotten(p)
            <4>1. CASE Locked(p)
                <5>1. PICK r \in rows : p \in DOMAIN r.locked
                    BY <4>1 DEF Locked
                <5>2. (CHOOSE x \in rows : p \in DOMAIN x.locked) = r
                    BY <5>1, ChosenRow DEF LocksAreExclusive
                <5>3. (CHOOSE x \in rows' : p \in DOMAIN x.locked) = r
                    BY <5>1, <3>2, <1>6, ChosenRow DEF LocksAreExclusive
                <5>4. QED
                    BY <5>1, <5>2, <5>3, <3>2, <4>1 DEF Forgotten, Locked
            <4>2. CASE ~Locked(p)
                BY <4>2, <3>1, <3>2 DEF Forgotten, Locked
            <4>3. QED
                BY <4>1, <4>2
        <3>4. QED
            BY <3>3 DEF Durable
    <2>3. QED
        BY <2>1, <2>2
<1>11. Durable' = Durable
    BY <1>10 DEF Durable
<1>12. QED
    BY <1>5, <1>6, <1>7, <1>8, <1>9, <1>11

\* Rolling back an open reservation, in a live process or while recovering, keeps
\* the invariant and leaves the ledger as it was.
LEMMA RollbackStep ==
    ASSUME IInv, phase # "loading", NEW r \in rows, Rollback(r), UNCHANGED phase
    PROVE  IInv' /\ Durable' = Durable
<1> DEFINE D == DOMAIN r.locked
<1> USE DEF IInv
<1>1. /\ r \in Row /\ r.tx \in Tx /\ D \subseteq Proof
      /\ \A p \in D : r.locked[p] \in StoredRec
    BY RowShape DEF TypeOK, SnapshotsAreStored
<1>2. \A p \in D : r.locked[p].tx # NoTx
    BY <1>1, NoTxAssumption DEF StoredRec
<1>3. \A p \in D : disk[p] = Held("PENDING", r.tx) /\ disk[p] # Absent
    BY DEF LocksAreOwned, Held, Absent
<1>4. /\ disk' = [p \in Proof |-> IF p \in D THEN r.locked[p] ELSE disk[p]]
      /\ mem'  = [p \in Proof |-> IF p \in D /\ mem[p] # Absent /\ mem[p].state # "SPENT"
                                  THEN r.locked[p] ELSE mem[p]]
      /\ rows' = rows \ {r}
      /\ phase' = phase
    <2>1. \A p \in D : Held(r.locked[p].state, r.locked[p].tx) = r.locked[p]
        BY <1>1 DEF Held, StoredRec
    <2>2. QED
        BY <1>2, <1>3, <2>1 DEF Rollback
<1>5. \A q \in rows' : q \in rows /\ DOMAIN q.locked \cap D = {}
    BY <1>4 DEF LocksAreExclusive
<1>6. TypeOK'
    BY <1>1, <1>4 DEF TypeOK
<1>7. LocksAreExclusive'
    BY <1>4 DEF LocksAreExclusive
<1>8. LocksAreOwned'
    BY <1>4, <1>5, RowShape DEF LocksAreOwned, TypeOK
<1>9. SnapshotsAreStored'
    BY <1>4 DEF SnapshotsAreStored
<1>10. MemoryMirrorsDisk'
    <2>1. ASSUME NEW p \in Proof
          PROVE  MirrorOf(p)'
        <3>1. MirrorOf(p)
            BY DEF MemoryMirrorsDisk
        <3>2. CASE p \notin D
            <4>1. disk'[p] = disk[p] /\ mem'[p] = mem[p]
                BY <3>2, <1>4
            <4>2. \A q \in rows : p \in DOMAIN q.locked => q \in rows'
                BY <3>2, <1>4
            <4>3. QED
                BY <3>1, <4>1, <4>2 DEF MirrorOf
        <3>3. CASE p \in D /\ mem[p].state = "SPENT"
            <4>1. disk[p].state = "PENDING"
                BY <3>3, <1>3 DEF Held
            <4>2. PICK q \in rows : p \in DOMAIN q.locked /\ q.locked[p].state = "SPENT"
                BY <3>1, <3>3, <4>1 DEF MirrorOf
            <4>3. q = r
                BY <3>3, <4>2 DEF LocksAreExclusive
            <4>4. disk'[p].state = "SPENT" /\ mem'[p].state = "SPENT"
                BY <3>3, <4>2, <4>3, <1>4
            <4>5. QED
                BY <4>4 DEF MirrorOf
        <3>4. CASE p \in D /\ mem[p].state # "SPENT"
            <4>1. mem[p].state \in {"UNSPENT", "PENDING"}
                BY <3>1, <3>4, <1>3 DEF MirrorOf, Held
            <4>2. mem[p] # Absent
                BY <4>1 DEF Absent, Held
            <4>3. mem'[p] = r.locked[p] /\ disk'[p] = r.locked[p] /\ r.locked[p] \in StoredRec
                BY <3>4, <4>2, <1>1, <1>4
            <4>4. QED
                BY <4>3 DEF MirrorOf, StoredRec, ProofState
        <3>5. QED
            BY <3>2, <3>3, <3>4
    <2>2. QED
        BY <2>1 DEF MemoryMirrorsDisk
<1>11. ASSUME NEW p \in Proof
       PROVE  Forgotten(p)' = Forgotten(p)
    <2>1. CASE p \in D
        <3>1. ~Locked(p)'
            BY <2>1, <1>5 DEF Locked
        <3>2. (CHOOSE x \in rows : p \in DOMAIN x.locked) = r
            BY <2>1, ChosenRow DEF LocksAreExclusive
        <3>3. QED
            BY <2>1, <3>1, <3>2, <1>4 DEF Forgotten, Locked
    <2>2. CASE p \notin D /\ Locked(p)
        <3>1. PICK q \in rows : p \in DOMAIN q.locked
            BY <2>2 DEF Locked
        <3>2. q \in rows'
            BY <2>2, <3>1, <1>4
        <3>3. (CHOOSE x \in rows : p \in DOMAIN x.locked) = q
            BY <3>1, ChosenRow DEF LocksAreExclusive
        <3>4. (CHOOSE x \in rows' : p \in DOMAIN x.locked) = q
            BY <3>1, <3>2, <1>7, ChosenRow DEF LocksAreExclusive
        <3>5. QED
            BY <3>1, <3>2, <3>3, <3>4 DEF Forgotten, Locked
    <2>3. CASE p \notin D /\ ~Locked(p)
        BY <2>3, <1>4, <1>5 DEF Forgotten, Locked
    <2>4. QED
        BY <2>1, <2>2, <2>3
<1>12. Durable' = Durable
    BY <1>11 DEF Durable
<1>13. QED
    BY <1>6, <1>7, <1>8, <1>9, <1>10, <1>12

------------------------------------------------------------------------------
(* The steps the ledger sees.                                              *)

\* A commit is one step of the ledger, made by the transaction that holds the row.
LEMMA SettleStep ==
    ASSUME IInv, NEW r \in rows, Settle(r)
    PROVE  IInv' /\ Ledger!Settle(r.tx) /\ r.tx \in Tx
<1> DEFINE D == DOMAIN r.locked
           t == r.tx
<1> USE DEF IInv
<1>0. PICK spent \in SUBSET D : \E released \in SUBSET (D \ spent) :
      \E added \in SUBSET {p \in Proof : disk[p] = Absent} :
      \E s \in [added -> {"UNSPENT", "PENDING"}] :
        /\ phase = "up" /\ phase' = phase
        /\ r.op # "spend" => spent = D
        /\ Commit(r, spent, released, [p \in added |-> Held(s[p], t)])
    BY DEF Settle
<1>a. PICK released \in SUBSET (D \ spent) :
      \E added \in SUBSET {p \in Proof : disk[p] = Absent} :
      \E s \in [added -> {"UNSPENT", "PENDING"}] :
        /\ phase = "up" /\ phase' = phase
        /\ r.op # "spend" => spent = D
        /\ Commit(r, spent, released, [p \in added |-> Held(s[p], t)])
    BY <1>0
<1>b. PICK added \in SUBSET {p \in Proof : disk[p] = Absent} :
      \E s \in [added -> {"UNSPENT", "PENDING"}] :
        /\ phase = "up" /\ phase' = phase
        /\ r.op # "spend" => spent = D
        /\ Commit(r, spent, released, [p \in added |-> Held(s[p], t)])
    BY <1>a
<1>1. PICK s \in [added -> {"UNSPENT", "PENDING"}] :
        /\ phase = "up" /\ phase' = phase
        /\ r.op # "spend" => spent = D
        /\ Commit(r, spent, released, [p \in added |-> Held(s[p], t)])
    BY <1>b
<1>2. /\ r \in Row /\ t \in Tx /\ D \subseteq Proof /\ r.op \in Ops
      /\ \A p \in D : /\ r.locked[p] \in StoredRec
                      /\ r.op = "retry" \/ r.locked[p].state # "SPENT"
      /\ \A p \in D : disk[p] = Held("PENDING", t) /\ disk[p].state = "PENDING"
    BY RowShape DEF TypeOK, SnapshotsAreStored, LocksAreOwned, Held
<1>3. added \cap D = {}
    BY <1>2 DEF Absent, Held
<1>4. \A p \in D : \/ mem[p] = Held("PENDING", t)
                   \/ mem[p].state = "SPENT" /\ p \in spent /\ r.locked[p].state = "SPENT"
    <2>1. ASSUME NEW p \in D, mem[p].state = "SPENT"
          PROVE  p \in spent /\ r.locked[p].state = "SPENT"
        <3>1. PICK q \in rows : p \in DOMAIN q.locked /\ q.locked[p].state = "SPENT"
            BY <2>1, <1>1, <1>2 DEF MemoryMirrorsDisk, MirrorOf
        <3>2. q = r
            BY <2>1, <3>1 DEF LocksAreExclusive
        <3>3. QED
            BY <3>1, <3>2, <1>1, <1>2
    <2>2. ASSUME NEW p \in D, mem[p].state # "SPENT"
          PROVE  mem[p] = Held("PENDING", t)
        BY <2>2, <1>1, <1>2 DEF MemoryMirrorsDisk, MirrorOf
    <2>3. QED
        BY <2>1, <2>2
<1>5. \A p \in added : disk[p] = Absent /\ mem[p].state # "SPENT" /\ mem[p] = Absent
    <2>1. ASSUME NEW p \in added
          PROVE  mem[p].state # "SPENT" /\ mem[p] = Absent
        <3>1. p \in Proof /\ disk[p] = Absent /\ disk[p].state = "none"
            BY DEF Absent, Held
        <3>2. \A q \in rows : p \notin DOMAIN q.locked
            <4>1. ASSUME NEW q \in rows, p \in DOMAIN q.locked
                  PROVE  FALSE
                <5>1. disk[p] = Held("PENDING", q.tx)
                    BY <4>1 DEF LocksAreOwned
                <5>2. QED
                    BY <3>1, <5>1 DEF Held
            <4>2. QED
                BY <4>1
        <3>3. mem[p].state \notin ProofState
            BY <3>1, <3>2, <1>1 DEF MemoryMirrorsDisk, MirrorOf, ProofState
        <3>4. QED
            BY <3>1, <3>3 DEF TypeOK, StoredRec, ProofState, Absent, Held
    <2>2. QED
        BY <2>1
<1>b5. \A p \in added : ~Locked(p)
    <2>1. ASSUME NEW p \in added, NEW q \in rows, p \in DOMAIN q.locked
          PROVE  FALSE
        <3>1. disk[p] = Absent /\ disk[p] = Held("PENDING", q.tx)
            BY <2>1, <1>5 DEF LocksAreOwned
        <3>2. QED
            BY <3>1 DEF Absent, Held
    <2>2. QED
        BY <2>1 DEF Locked
<1> DEFINE Outcome(p) == CASE p \in added    -> Held(s[p], t)
                           [] p \in spent    -> Held("SPENT", t)
                           [] p \in released -> Held("UNSPENT", t)
                           [] OTHER          -> Held("PENDING", t)
<1>6. \A p \in Proof : disk'[p] = IF p \in D \cup added THEN Outcome(p) ELSE disk[p]
    <2>1. ASSUME NEW p \in Proof
          PROVE  disk'[p] = IF p \in D \cup added THEN Outcome(p) ELSE disk[p]
        <3>1. CASE p \in added
            BY <3>1, <1>1, <1>3 DEF Commit
        <3>2. CASE p \in D
            <4>1. p \notin added /\ disk[p] = Held("PENDING", t) /\ disk[p] # Absent
                BY <3>2, <1>2, <1>3 DEF Absent, Held
            <4>2. disk'[p] = Move(Move(disk, spent, "SPENT"), released, "UNSPENT")[p]
                BY <4>1, <1>1 DEF Commit
            <4>3. QED
                BY <3>2, <4>1, <4>2 DEF Move, Held, Absent
        <3>3. CASE p \notin D \cup added
            BY <3>3, <1>1 DEF Commit, Move
        <3>4. QED
            BY <3>1, <3>2, <3>3
    <2>2. QED
        BY <2>1
<1>7. \A p \in Proof : /\ p \notin D \cup added => mem'[p] = mem[p]
                       /\ p \in (D \cup added) \ spent => mem'[p] = Outcome(p)
                       /\ p \in spent => mem'[p] = [mem[p] EXCEPT !.state = "SPENT"]
    BY <1>1, <1>2, <1>3, <1>4, <1>5 DEF Commit, Move, Held, Absent
<1>8. /\ \A p \in spent : Outcome(p) = Held("SPENT", t) /\ p \in D /\ p \notin added
      /\ \A p \in (D \cup added) \ spent :
            Outcome(p) \in {Held("UNSPENT", t), Held("PENDING", t)}
    BY <1>1, <1>3
<1>9. rows' = rows \ {r} /\ \A q \in rows' : q \in rows /\ DOMAIN q.locked \cap D = {}
    BY <1>1 DEF Commit, LocksAreExclusive
<1> HIDE DEF Outcome
<1>a8. \A p \in spent : mem'[p] \in StoredRec /\ mem'[p].state = "SPENT"
    <2>1. ASSUME NEW p \in spent
          PROVE  mem[p] \in StoredRec
        <3>1. mem[p].state # "none" /\ p \in Proof
            BY <1>2, <1>4 DEF Held
        <3>2. QED
            BY <3>1 DEF TypeOK, Absent, Held
    <2>2. ASSUME NEW p \in spent
          PROVE  mem'[p] \in StoredRec /\ mem'[p].state = "SPENT"
        <3>1. mem'[p] = [mem[p] EXCEPT !.state = "SPENT"]
            BY <1>2, <1>7
        <3>2. mem[p] \in StoredRec
            BY <2>1
        <3>3. QED
            BY <3>1, <3>2 DEF StoredRec, ProofState
    <2>3. QED
        BY <2>2
<1>10. TypeOK'
    <2>1. \A p \in D \cup added : Outcome(p) \in StoredRec
        BY <1>2, <1>8 DEF Held, StoredRec, ProofState
    <2>2. ASSUME NEW p \in Proof
          PROVE  mem'[p] \in StoredRec \cup {Absent}
        <3>1. CASE p \in spent
            BY <3>1, <1>a8
        <3>2. CASE p \in (D \cup added) \ spent
            BY <3>2, <1>7, <2>1
        <3>3. CASE p \notin D \cup added
            BY <3>3, <1>7 DEF TypeOK
        <3>4. QED
            BY <3>1, <3>2, <3>3
    <2>3. \A p \in Proof : disk'[p] \in StoredRec \cup {Absent}
        BY <1>6, <2>1 DEF TypeOK
    <2>4. QED
        BY <1>1, <1>9, <2>2, <2>3 DEF TypeOK, Commit
<1>11. LocksAreExclusive' /\ SnapshotsAreStored'
    BY <1>9 DEF LocksAreExclusive, SnapshotsAreStored
<1>12. LocksAreOwned'
    <2>1. ASSUME NEW q \in rows', NEW p \in DOMAIN q.locked
          PROVE  disk'[p] = Held("PENDING", q.tx)
        <3>1. disk[p] = Held("PENDING", q.tx) /\ p \notin D /\ p \in Proof
            BY <1>9, RowShape DEF LocksAreOwned, TypeOK
        <3>2. p \notin added
            BY <3>1, <1>5 DEF Absent, Held
        <3>3. QED
            BY <3>1, <3>2, <1>6
    <2>2. QED
        BY <2>1 DEF LocksAreOwned
<1>13. MemoryMirrorsDisk'
    <2>1. ASSUME NEW p \in Proof
          PROVE  MirrorOf(p)'
        <3>1. CASE p \in spent
            <4>1. disk'[p].state = "SPENT" /\ mem'[p].state = "SPENT"
                BY <3>1, <1>a8, <1>6, <1>8 DEF Held
            <4>2. QED
                BY <4>1 DEF MirrorOf
        <3>2. CASE p \in (D \cup added) \ spent
            <4>1. disk'[p] = Outcome(p) /\ mem'[p] = Outcome(p)
                BY <3>2, <1>6, <1>7
            <4>2. Outcome(p).state \in {"UNSPENT", "PENDING"}
                BY <3>2, <1>8 DEF Held
            <4>3. QED
                BY <4>1, <4>2 DEF MirrorOf
        <3>3. CASE p \notin D \cup added
            <4>1. disk'[p] = disk[p] /\ mem'[p] = mem[p]
                BY <3>3, <1>6, <1>7
            <4>2. MirrorOf(p)
                BY <1>1 DEF MemoryMirrorsDisk
            <4>3. \A q \in rows : p \in DOMAIN q.locked => q \in rows'
                BY <3>3, <1>9
            <4>4. QED
                BY <4>1, <4>2, <4>3 DEF MirrorOf
        <3>4. QED
            BY <3>1, <3>2, <3>3
    <2>2. QED
        BY <2>1 DEF MemoryMirrorsDisk
<1>14. Ledger!Settle(t)
    <2> DEFINE S == {p \in D \cup added : Durable[p] # Ledger!Spent}
               out == [p \in S |-> IF p \in spent THEN Ledger!Spent ELSE Outcome(p)]
    <2>1. S \in SUBSET {p \in Proof : Durable[p] # Ledger!Spent}
        BY <1>1, <1>2
    <2>2. out \in [S -> {Ledger!Spent, Ledger!Owned("UNSPENT", t), Ledger!Owned("PENDING", t)}]
        BY <1>8 DEF Held, Ledger!Owned
    <2>3. ASSUME NEW p \in Proof
          PROVE  Durable'[p] = IF p \in S THEN out[p] ELSE Durable[p]
        <3>1. CASE p \in D \cup added
            <4>1. ~Locked(p)'
                <5>1. \A q \in rows' : p \in DOMAIN q.locked => p \in added /\ q \in rows
                    BY <3>1, <1>9
                <5>2. QED
                    BY <5>1, <1>b5 DEF Locked
            <4>2. Durable'[p] = IF Outcome(p).state = "SPENT" THEN Held("SPENT", NoTx)
                                                              ELSE Outcome(p)
                BY <3>1, <4>1, <1>6 DEF Durable, Forgotten
            <4>3. CASE p \in S
                <5>1. (Outcome(p).state = "SPENT") <=> p \in spent
                    BY <3>1, <1>8 DEF Held
                <5>2. QED
                    BY <4>2, <4>3, <5>1 DEF Ledger!Spent, Ledger!Owned, Held
            <4>4. CASE p \notin S
                <5>1. Durable[p] = Held("SPENT", NoTx)
                    BY <3>1, <4>4 DEF Ledger!Spent, Ledger!Owned, Held
                <5>2. p \in D
                    <6>1. ASSUME p \in added
                          PROVE  FALSE
                        <7>1. ~Locked(p)
                            BY <6>1, <1>b5
                        <7>2. Durable[p] = disk[p] /\ disk[p] = Absent
                            BY <6>1, <7>1, <1>5 DEF Durable, Forgotten, Absent, Held
                        <7>3. QED
                            BY <5>1, <7>2 DEF Absent, Held
                    <6>2. QED
                        BY <3>1, <6>1
                <5>3. Forgotten(p) = r.locked[p]
                    BY <5>2, ChosenRow DEF Forgotten, Locked, LocksAreExclusive
                <5>4. r.locked[p].state = "SPENT"
                    BY <5>1, <5>2, <5>3, <1>2 DEF Durable, Held
                <5>5. p \in spent
                    BY <5>2, <5>4, <1>1, <1>2 DEF Ops
                <5>6. QED
                    BY <4>2, <4>4, <5>1, <5>5, <1>8 DEF Held
            <4>5. QED
                BY <4>3, <4>4
        <3>2. CASE p \notin D \cup added
            <4>1. Forgotten(p)' = Forgotten(p)
                <5>1. CASE Locked(p)
                    <6>1. PICK q \in rows : p \in DOMAIN q.locked
                        BY <5>1 DEF Locked
                    <6>2. q \in rows'
                        BY <3>2, <6>1, <1>9
                    <6>3. (CHOOSE x \in rows : p \in DOMAIN x.locked) = q
                        BY <6>1, ChosenRow DEF LocksAreExclusive
                    <6>4. (CHOOSE x \in rows' : p \in DOMAIN x.locked) = q
                        BY <6>1, <6>2, <1>11, ChosenRow DEF LocksAreExclusive
                    <6>5. QED
                        BY <6>1, <6>2, <6>3, <6>4 DEF Forgotten, Locked
                <5>2. CASE ~Locked(p)
                    BY <3>2, <5>2, <1>6, <1>9 DEF Forgotten, Locked
                <5>3. QED
                    BY <5>1, <5>2
            <4>2. p \notin S
                BY <3>2
            <4>3. QED
                BY <4>1, <4>2 DEF Durable
        <3>3. QED
            BY <3>1, <3>2
    <2>4. Durable' = [p \in Proof |-> IF p \in S THEN out[p] ELSE Durable[p]]
        BY <2>3 DEF Durable
    <2>5. QED
        BY <2>1, <2>2, <2>4 DEF Ledger!Settle
<1>15. QED
    BY <1>2, <1>10, <1>11, <1>12, <1>13, <1>14

\* Sync overwrites proofs that no operation holds: the invariant survives and the
\* ledger changes for those proofs only.
LEMMA OverwriteStep ==
    ASSUME IInv, phase = "up", UNCHANGED phase,
           NEW S \in SUBSET Live, \A p \in S : ~Locked(p),
           NEW st \in {"SPENT", "UNSPENT"}, Overwrite(S, st)
    PROVE  /\ IInv'
           /\ \A p \in Proof \ S : Durable'[p] = Durable[p]
           /\ \A p \in S : Forgotten(p)' = [mem[p] EXCEPT !.state = st]
<1> USE DEF IInv
<1>1. /\ S \subseteq Proof
      /\ \A p \in S : mem[p] \in StoredRec
      /\ \A p \in S : \A r \in rows : p \notin DOMAIN r.locked
    BY DEF Live, TypeOK, Locked
<1>2. /\ disk' = [p \in Proof |-> IF p \in S THEN [mem[p] EXCEPT !.state = st] ELSE disk[p]]
      /\ mem'  = [p \in Proof |-> IF p \in S THEN [mem[p] EXCEPT !.state = st] ELSE mem[p]]
      /\ rows' = rows /\ phase' = phase
    BY DEF Overwrite
<1>3. \A p \in S : [mem[p] EXCEPT !.state = st] \in StoredRec
    BY <1>1 DEF StoredRec, ProofState
<1>4. TypeOK'
    BY <1>2, <1>3 DEF TypeOK
<1>5. LocksAreExclusive' /\ SnapshotsAreStored'
    BY <1>2 DEF LocksAreExclusive, SnapshotsAreStored
<1>6. LocksAreOwned'
    BY <1>1, <1>2, RowShape DEF LocksAreOwned, TypeOK
<1>7. MemoryMirrorsDisk'
    <2>1. ASSUME NEW p \in Proof
          PROVE  MirrorOf(p)'
        <3>1. CASE p \in S
            <4>1. mem'[p] = disk'[p] /\ mem'[p].state \in {"SPENT", "UNSPENT"}
                BY <3>1, <1>1, <1>2 DEF StoredRec
            <4>2. QED
                BY <4>1 DEF MirrorOf
        <3>2. CASE p \notin S
            <4>1. mem'[p] = mem[p] /\ disk'[p] = disk[p]
                BY <3>2, <1>2
            <4>2. MirrorOf(p)
                BY DEF MemoryMirrorsDisk
            <4>3. QED
                BY <4>1, <4>2, <1>2 DEF MirrorOf
        <3>3. QED
            BY <3>1, <3>2
    <2>2. QED
        BY <2>1 DEF MemoryMirrorsDisk
<1>8. \A p \in Proof \ S : Durable'[p] = Durable[p]
    <2>1. ASSUME NEW p \in Proof \ S
          PROVE  Forgotten(p)' = Forgotten(p)
        BY <1>2 DEF Forgotten, Locked
    <2>2. QED
        BY <2>1 DEF Durable
<1>9. \A p \in S : Forgotten(p)' = [mem[p] EXCEPT !.state = st]
    BY <1>1, <1>2 DEF Forgotten, Locked
<1>10. QED
    BY <1>4, <1>5, <1>6, <1>7, <1>8, <1>9

\* The memory of an unlocked proof is what the ledger says of it.
LEMMA UnlockedNode ==
    ASSUME IInv, phase = "up", NEW p \in Live, ~Locked(p)
    PROVE  /\ mem[p] \in StoredRec
           /\ mem[p].state = "SPENT" => Durable[p] = Held("SPENT", NoTx)
           /\ mem[p].state # "SPENT" => Durable[p] = mem[p]
<1>1. p \in Proof /\ mem[p] \in StoredRec
    BY DEF IInv, TypeOK, Live
<1>2. MirrorOf(p)
    BY <1>1 DEF IInv, MemoryMirrorsDisk
<1>3. Forgotten(p) = disk[p]
    BY DEF Forgotten
<1>4. CASE mem[p].state = "SPENT"
    <2>1. disk[p].state = "SPENT"
        BY <1>2, <1>4 DEF MirrorOf, Locked
    <2>2. QED
        BY <2>1, <1>1, <1>3, <1>4 DEF Durable
<1>5. CASE mem[p].state # "SPENT"
    <2>1. mem[p].state \in {"UNSPENT", "PENDING"}
        BY <1>1, <1>5 DEF StoredRec, ProofState
    <2>2. disk[p] = mem[p]
        BY <1>2, <2>1 DEF MirrorOf
    <2>3. QED
        BY <2>2, <1>1, <1>3, <1>5 DEF Durable
<1>6. QED
    BY <1>1, <1>4, <1>5

\* Writing off proofs that no operation holds is the ledger's WriteOff.
LEMMA WriteOffStep ==
    ASSUME IInv, SyncWriteOff
    PROVE  IInv' /\ Ledger!WriteOff
<1>1. PICK S \in SUBSET {p \in Live : ~Locked(p)} :
        phase = "up" /\ MoveToSpent(S) /\ UNCHANGED phase
    BY DEF SyncWriteOff
<1>2. /\ S \in SUBSET Live /\ S \subseteq Proof
      /\ \A p \in S : ~Locked(p)
      /\ Overwrite(S, "SPENT")
    BY <1>1 DEF MoveToSpent, Live
<1>3. /\ IInv'
      /\ \A p \in Proof \ S : Durable'[p] = Durable[p]
      /\ \A p \in S : Forgotten(p)' = [mem[p] EXCEPT !.state = "SPENT"]
    BY <1>1, <1>2, OverwriteStep
<1>4. \A p \in S : mem[p] \in StoredRec /\ Durable[p] # Ledger!NoProof
    <2>1. ASSUME NEW p \in S
          PROVE  mem[p] \in StoredRec /\ Durable[p] # Ledger!NoProof
        <3>1. /\ mem[p] \in StoredRec
              /\ mem[p].state = "SPENT" => Durable[p] = Held("SPENT", NoTx)
              /\ mem[p].state # "SPENT" => Durable[p] = mem[p]
            BY <1>1, <1>2, UnlockedNode
        <3>2. QED
            BY <3>1 DEF Held, Ledger!NoProof, Ledger!Owned, StoredRec, ProofState
    <2>2. QED
        BY <2>1
<1>5. \A p \in S : Durable'[p] = Ledger!Spent
    BY <1>2, <1>3, <1>4 DEF Durable, Ledger!Spent, Ledger!Owned, Held, StoredRec
<1>6. Durable' = [p \in Proof |-> IF p \in S THEN Ledger!Spent ELSE Durable[p]]
    BY <1>3, <1>5 DEF Durable
<1>7. S \in SUBSET {p \in Proof : Durable[p] # Ledger!NoProof}
    BY <1>2, <1>4
<1>8. QED
    BY <1>3, <1>6, <1>7 DEF Ledger!WriteOff

\* Returning handed-out proofs that no operation holds is the ledger's Release.
LEMMA ReleaseStep ==
    ASSUME IInv, SyncRelease
    PROVE  IInv' /\ Ledger!Release
<1>1. PICK S \in SUBSET {p \in Having(mem, "PENDING") : ~Locked(p)} :
        phase = "up" /\ RevertToSpendable(S) /\ UNCHANGED phase
    BY DEF SyncRelease
<1>2. /\ S \in SUBSET Live /\ S \subseteq Proof
      /\ \A p \in S : ~Locked(p) /\ mem[p].state = "PENDING"
      /\ Overwrite(S, "UNSPENT")
    BY <1>1 DEF RevertToSpendable, Having
<1>3. /\ IInv'
      /\ \A p \in Proof \ S : Durable'[p] = Durable[p]
      /\ \A p \in S : Forgotten(p)' = [mem[p] EXCEPT !.state = "UNSPENT"]
    BY <1>1, <1>2, OverwriteStep
<1>4. \A p \in S : mem[p] \in StoredRec /\ Durable[p] = mem[p]
    <2>1. ASSUME NEW p \in S
          PROVE  mem[p] \in StoredRec /\ Durable[p] = mem[p]
        <3>1. mem[p].state # "SPENT"
            BY <1>2
        <3>2. QED
            BY <1>1, <1>2, <3>1, UnlockedNode
    <2>2. QED
        BY <2>1
<1>5. \A p \in S : Durable'[p] = [Durable[p] EXCEPT !.state = "UNSPENT"]
    BY <1>2, <1>3, <1>4 DEF Durable, StoredRec
<1>6. Durable' = [p \in Proof |-> IF p \in S THEN [Durable[p] EXCEPT !.state = "UNSPENT"]
                                             ELSE Durable[p]]
    BY <1>3, <1>5 DEF Durable
<1>7. S \in SUBSET {p \in Proof : Durable[p].state = "PENDING"}
    BY <1>2, <1>4
<1>8. QED
    BY <1>3, <1>6, <1>7 DEF Ledger!Release

------------------------------------------------------------------------------
(* The steps the ledger does not see.                                      *)

\* The selections of the three kinds of operation meet the hypotheses of OpenStep.
LEMMA OpenSpendStep ==
    ASSUME IInv, NEW t \in Tx, OpenSpend(t)
    PROVE  IInv' /\ Durable' = Durable
<1>1. PICK S \in SUBSET Having(mem, "UNSPENT") : Open(t, "spend", S, "UNSPENT")
    BY DEF OpenSpend
<1>2. phase = "up" /\ S \in SUBSET Live
    BY <1>1 DEF Open, Reserve
<1>3. ASSUME NEW p \in S
      PROVE  ~Locked(p) /\ Snapshot(p, "UNSPENT") = mem[p] /\ mem[p].state # "SPENT"
    <2>1. p \in Proof /\ mem[p].state = "UNSPENT" /\ mem[p] \in StoredRec
        BY <1>1, <1>2 DEF Having, IInv, TypeOK, Live
    <2>2. disk[p] = mem[p]
        BY <2>1, <1>2 DEF IInv, MemoryMirrorsDisk, MirrorOf
    <2>3. ~Locked(p)
        <3>1. ASSUME NEW r \in rows, p \in DOMAIN r.locked
              PROVE  FALSE
            <4>1. disk[p] = Held("PENDING", r.tx)
                BY <3>1 DEF IInv, LocksAreOwned
            <4>2. QED
                BY <2>1, <2>2, <4>1 DEF Held
        <3>2. QED
            BY <3>1 DEF Locked
    <2>4. QED
        BY <2>1, <2>3 DEF Snapshot, Held, StoredRec
<1>4. "spend" \in Ops /\ "UNSPENT" \in RollbackTo
    BY DEF Ops, RollbackTo, ProofState
<1>5. /\ \A p \in S : ~Locked(p)
      /\ \A p \in S : Snapshot(p, "UNSPENT") = mem[p]
      /\ \A p \in S : mem[p].state # "SPENT"
    BY <1>3
<1>6. QED
    BY <1>1, <1>2, <1>4, <1>5, OpenStep

LEMMA OpenRevertStep ==
    ASSUME IInv, NEW t \in Tx, OpenRevert(t)
    PROVE  IInv' /\ Durable' = Durable
<1> DEFINE S == {p \in Having(mem, "PENDING") : mem[p].tx = t /\ ~Locked(p)}
<1>1. Open(t, "revert", S, "PENDING")
    BY DEF OpenRevert
<1>2. phase = "up" /\ S \in SUBSET Live
    BY <1>1 DEF Open, Reserve
<1>3. ASSUME NEW p \in S
      PROVE  Snapshot(p, "PENDING") = mem[p] /\ mem[p].state # "SPENT"
    <2>1. p \in Proof /\ mem[p].state = "PENDING" /\ mem[p] \in StoredRec
        BY <1>2 DEF Having, IInv, TypeOK, Live
    <2>2. QED
        BY <2>1 DEF Snapshot, Held, StoredRec
<1>4. "revert" \in Ops /\ "PENDING" \in RollbackTo
    BY DEF Ops, RollbackTo, ProofState
<1>5. /\ \A p \in S : ~Locked(p)
      /\ \A p \in S : Snapshot(p, "PENDING") = mem[p]
      /\ \A p \in S : mem[p].state # "SPENT"
    BY <1>3
<1> HIDE DEF S
<1>6. QED
    BY <1>1, <1>2, <1>4, <1>5, OpenStep

LEMMA OpenRetryStep ==
    ASSUME IInv, NEW t \in Tx, OpenRetry(t)
    PROVE  IInv' /\ Durable' = Durable
<1>1. PICK S \in SUBSET {p \in Live : ~Locked(p)} : Open(t, "retry", S, "preserve")
    BY DEF OpenRetry
<1>2. S \in SUBSET Live /\ \A p \in S : ~Locked(p)
    BY <1>1
<1>3. \A p \in S : Snapshot(p, "preserve") = mem[p]
    BY <1>2 DEF Snapshot, Held, StoredRec, IInv, TypeOK, Live
<1>4. "retry" \in Ops /\ "preserve" \in RollbackTo
    BY DEF Ops, RollbackTo
<1>5. QED
    BY <1>1, <1>2, <1>3, <1>4, OpenStep

\* Dying, loading and finishing recovery touch neither the table nor the rows.
LEMMA LifeStep ==
    ASSUME IInv, Crash \/ Load \/ Recovered
    PROVE  IInv' /\ Durable' = Durable
<1> USE DEF IInv
<1>1. disk' = disk /\ rows' = rows
    BY DEF Crash, Load, Recovered, storeVars
<1>2. LocksAreExclusive' /\ LocksAreOwned' /\ SnapshotsAreStored' /\ Durable' = Durable
    BY <1>1 DEF LocksAreExclusive, LocksAreOwned, SnapshotsAreStored, Durable, Forgotten, Locked
<1>3. CASE Crash
    <2>1. TypeOK'
        BY <1>1, <1>3 DEF Crash, TypeOK, Phases
    <2>2. MemoryMirrorsDisk'
        BY <1>3 DEF Crash, MemoryMirrorsDisk
    <2>3. QED
        BY <1>2, <2>1, <2>2
<1>4. CASE Load
    <2>1. mem' = [p \in Proof |-> IF disk[p].state \in {"UNSPENT", "PENDING"}
                                  THEN disk[p] ELSE Absent]
        BY <1>4 DEF Load, LoadProofs
    <2>2. TypeOK'
        BY <1>1, <1>4, <2>1 DEF Load, TypeOK, Phases
    <2>3. MemoryMirrorsDisk'
        <3>1. ASSUME NEW p \in Proof
              PROVE  MirrorOf(p)'
            <4>1. CASE disk[p].state \in {"UNSPENT", "PENDING"}
                BY <4>1, <1>1, <2>1 DEF MirrorOf
            <4>2. CASE disk[p].state \notin {"UNSPENT", "PENDING"}
                <5>1. mem'[p].state = "none" /\ disk'[p].state \in {"none", "SPENT"}
                    BY <4>2, <1>1, <2>1 DEF TypeOK, StoredRec, ProofState, Absent, Held
                <5>2. QED
                    BY <5>1 DEF MirrorOf
            <4>3. QED
                BY <4>1, <4>2
        <3>2. QED
            BY <3>1 DEF MemoryMirrorsDisk
    <2>4. QED
        BY <1>2, <2>2, <2>3
<1>5. CASE Recovered
    <2>1. mem' = mem /\ phase = "recovering" /\ phase' = "up"
        BY <1>5 DEF Recovered, storeVars
    <2>2. TypeOK'
        BY <1>1, <2>1 DEF TypeOK, Phases
    <2>3. MemoryMirrorsDisk'
        BY <1>1, <2>1 DEF MemoryMirrorsDisk, MirrorOf
    <2>4. QED
        BY <1>2, <2>2, <2>3
<1>6. QED
    BY <1>3, <1>4, <1>5

------------------------------------------------------------------------------
(* The theorems.                                                           *)

LEMMA InitStep ==
    ASSUME Init
    PROVE  IInv /\ Ledger!Init
<1>1. TypeOK
    BY DEF Init, TypeOK, Phases
<1>2. LocksAreExclusive /\ LocksAreOwned /\ SnapshotsAreStored
    BY DEF Init, LocksAreExclusive, LocksAreOwned, SnapshotsAreStored
<1>3. MemoryMirrorsDisk
    BY DEF Init, MemoryMirrorsDisk, MirrorOf, Absent, Held
<1>4. Ledger!Init
    BY DEF Init, Ledger!Init, Durable, Forgotten, Locked, Absent, Held,
           Ledger!NoProof, Ledger!Owned
<1>5. QED
    BY <1>1, <1>2, <1>3, <1>4 DEF IInv

\* Every step keeps the invariant and is a step of the ledger or invisible to it.
LEMMA NextStep ==
    ASSUME IInv, [Next]_vars
    PROVE  IInv' /\ [Ledger!Next]_Durable
<1>1. CASE UNCHANGED vars
    BY <1>1 DEF vars, storeVars, IInv, TypeOK, LocksAreExclusive, LocksAreOwned,
                MemoryMirrorsDisk, MirrorOf, SnapshotsAreStored, Durable, Forgotten, Locked
<1>2. ASSUME NEW t \in Tx, OpenSpend(t) \/ OpenRevert(t) \/ OpenRetry(t)
      PROVE  IInv' /\ Durable' = Durable
    BY <1>2, OpenSpendStep, OpenRevertStep, OpenRetryStep
<1>3. ASSUME NEW r \in rows, Settle(r)
      PROVE  IInv' /\ Ledger!Next
    BY <1>3, SettleStep DEF Ledger!Next
<1>4. ASSUME NEW r \in rows, Abort(r) \/ RecoverOrphan(r)
      PROVE  IInv' /\ Durable' = Durable
    <2>1. phase # "loading" /\ Rollback(r) /\ UNCHANGED phase
        BY <1>4 DEF Abort, RecoverOrphan
    <2>2. QED
        BY <2>1, RollbackStep
<1>5. CASE SyncWriteOff \/ SyncRelease
    BY <1>5, WriteOffStep, ReleaseStep DEF Ledger!Next
<1>6. CASE Crash \/ Load \/ Recovered
    BY <1>6, LifeStep
<1>7. QED
    BY <1>1, <1>2, <1>3, <1>4, <1>5, <1>6 DEF Next

\* IInv is inductive.
THEOREM Invariance == Spec => []IInv
<1>1. Init => IInv
    BY InitStep
<1>2. IInv /\ [Next]_vars => IInv'
    BY NextStep
<1>3. QED
    BY <1>1, <1>2, PTL DEF Spec

\* The proofs table, the memory and the reservation rows keep their types, and every
\* stored proof has an owner (commitReservation always writes a tId).
THEOREM TypeCorrect == Spec => []TypeOK
<1>1. IInv => TypeOK
    BY DEF IInv
<1>2. QED
    BY <1>1, Invariance, PTL

\* However operations, sync, crashes and recovery interleave, no proof is ever locked
\* by two open reservations (ProofsStore.reserve), and a locked proof is PENDING under
\* its operation's id on disk for as long as it is locked.
THEOREM SafeLocks == Spec => []LocksAreSafe
<1>1. IInv => LocksAreSafe
    BY DEF IInv, LocksAreSafe
<1>2. QED
    BY <1>1, Invariance, PTL

\* The in-memory proofs never disagree with the proofs table once they are loaded.
THEOREM Mirror == Spec => []MemoryMirrorsDisk
<1>1. IInv => MemoryMirrorsDisk
    BY DEF IInv
<1>2. QED
    BY <1>1, Invariance, PTL

\* Reservations are atomic: the protocol implements AtomicLedger, so an operation has
\* all of its effect on the proofs table or none, whatever happens to the process.
THEOREM Atomicity == Spec => ImplementsLedger
<1>1. Init => Ledger!Init
    BY InitStep
<1>2. IInv /\ [Next]_vars => [Ledger!Next]_Durable
    BY NextStep
<1>3. QED
    BY <1>1, <1>2, Invariance, PTL DEF Spec, ImplementsLedger, Ledger!Spec

-----------------------------------------------------------------------------
(* What a choice is worth, and what the mint charges for it.               *)

PurseRecord ==
    [worth : Seq(Nat \ {0}), old : SUBSET Nat, oldFee : 0..1000, newFee : 0..1000,
     target : Nat \ {0}, asItIs : BOOLEAN]

PurseFits == purse \in PurseRecord /\ purse.old \subseteq Coins

SearchFits ==
    /\ search \in [at : {"asked", "refused", "taken", "pool", "drain"}, pool : SUBSET Coins,
                   chosen : SUBSET Coins, rounds : 0..MaxIterations]
    /\ search.at = "pool" /\ purse.old = {} => search.pool = Coins
    /\ search.at = "drain" => search.pool = Young

CInv == PurseFits /\ SearchFits /\ FundsSuffice

LEMMA AmountIsSum ==
    ASSUME NEW S
    PROVE  AmountOf(S) = SumOver(purse.worth, S)
BY DEF AmountOf, MapThenSumSet, MapThenFoldSet, SumOver, Sums, Adds

LEMMA CoinsAre ==
    ASSUME PurseFits
    PROVE  /\ IsFiniteSet(Coins) /\ \A c \in Coins : c \in Nat \ {0} /\ purse.worth[c] \in Nat \ {0}
           /\ purse.old \subseteq Coins /\ Young \subseteq Coins
           /\ \E n \in Nat : Coins = 1..n
<1>1. purse.worth \in Seq(Nat \ {0})
    BY DEF PurseFits, PurseRecord
<1>2. Len(purse.worth) \in Nat /\ Coins = 1..Len(purse.worth)
    BY <1>1 DEF Coins
<1>3. IsFiniteSet(Coins)
    BY <1>2, FS_Interval
<1>4. \A c \in Coins : c \in Nat \ {0} /\ purse.worth[c] \in Nat \ {0}
    BY <1>1, <1>2
<1> QED
    BY <1>2, <1>3, <1>4 DEF PurseFits, Young

LEMMA AmountGrows ==
    ASSUME PurseFits, NEW S \in SUBSET Coins
    PROVE  /\ AmountOf(S) \in Nat /\ AmountOf(Coins) \in Nat
           /\ AmountOf(S) + Cardinality(Coins \ S) <= AmountOf(Coins)
           /\ AmountOf(S) <= AmountOf(Coins)
<1>1. /\ IsFiniteSet(Coins) /\ IsFiniteSet(S)
      /\ \A c \in Coins : purse.worth[c] \in Nat /\ purse.worth[c] >= 1
    BY CoinsAre, FS_Subset
<1>2. SumOver(purse.worth, S) \in Nat /\ SumOver(purse.worth, Coins) \in Nat
    BY <1>1, SumTyped
<1>3. /\ SumOver(purse.worth, S) + Cardinality(Coins \ S) <= SumOver(purse.worth, Coins)
      /\ SumOver(purse.worth, S) <= SumOver(purse.worth, Coins)
    <2> DEFINE one == 1
    <2>1. one \in {0, 1} /\ one = 1 /\ \A c \in Coins : purse.worth[c] \in Nat /\ purse.worth[c] >= one
        BY <1>1
    <2> HIDE DEF one
    <2> QED
        BY <1>1, <2>1, SumGrows
<1> QED
    BY <1>2, <1>3, AmountIsSum

\* Rounding up: a thousandth more for each of m proofs is at most m units more.
LEMMA RoundsUp ==
    ASSUME NEW a \in Nat, NEW b \in Nat, NEW m \in Nat, a <= b, b <= a + 1000 * m
    PROVE  /\ (a + 999) \div 1000 \in Nat /\ (b + 999) \div 1000 \in Nat
           /\ (a + 999) \div 1000 <= (b + 999) \div 1000
           /\ (b + 999) \div 1000 <= (a + 999) \div 1000 + m
OBVIOUS

\* No proof costs more than it is worth: the fee grows with a choice, and by a unit at most
\* for every proof.
LEMMA FeeGrows ==
    ASSUME PurseFits, NEW S \in SUBSET Coins
    PROVE  /\ FeeOf(S) \in Nat /\ FeeOf(Coins) \in Nat
           /\ FeeOf(S) <= FeeOf(Coins)
           /\ FeeOf(Coins) <= FeeOf(S) + Cardinality(Coins \ S)
<1> DEFINE so == Cardinality(S \cap purse.old)
           sn == Cardinality(S \ purse.old)
           do == Cardinality((Coins \ S) \cap purse.old)
           dn == Cardinality((Coins \ S) \ purse.old)
           fo == purse.oldFee
           fn == purse.newFee
<1>1. IsFiniteSet(Coins) /\ fo \in 0..1000 /\ fn \in 0..1000
    BY CoinsAre DEF PurseFits, PurseRecord
<1>2. /\ IsFiniteSet(S \cap purse.old) /\ IsFiniteSet(S \ purse.old)
      /\ IsFiniteSet((Coins \ S) \cap purse.old) /\ IsFiniteSet((Coins \ S) \ purse.old)
    BY <1>1, FS_Subset
<1>3. so \in Nat /\ sn \in Nat /\ do \in Nat /\ dn \in Nat
    BY <1>2, FS_CardinalityType
<1>4. \A A, B : IsFiniteSet(A) /\ IsFiniteSet(B) /\ A \cap B = {} =>
          Cardinality(A \cup B) = Cardinality(A) + Cardinality(B)
    <2> SUFFICES ASSUME NEW A, NEW B, IsFiniteSet(A), IsFiniteSet(B), A \cap B = {}
                 PROVE  Cardinality(A \cup B) = Cardinality(A) + Cardinality(B)
        OBVIOUS
    <2>1. Cardinality(A \cup B) = Cardinality(A) + Cardinality(B) - Cardinality(A \cap B)
        BY FS_Union
    <2>2. Cardinality(A \cap B) = 0 /\ Cardinality(A) \in Nat /\ Cardinality(B) \in Nat
        BY FS_EmptySet, FS_CardinalityType
    <2> QED
        BY <2>1, <2>2
<1>5. /\ Cardinality(Coins \cap purse.old) = so + do
      /\ Cardinality(Coins \ purse.old) = sn + dn
      /\ Cardinality(Coins \ S) = do + dn
    <2>1. /\ Coins \cap purse.old = (S \cap purse.old) \cup ((Coins \ S) \cap purse.old)
          /\ (S \cap purse.old) \cap ((Coins \ S) \cap purse.old) = {}
        OBVIOUS
    <2>2. /\ Coins \ purse.old = (S \ purse.old) \cup ((Coins \ S) \ purse.old)
          /\ (S \ purse.old) \cap ((Coins \ S) \ purse.old) = {}
        OBVIOUS
    <2>3. /\ Coins \ S = ((Coins \ S) \cap purse.old) \cup ((Coins \ S) \ purse.old)
          /\ ((Coins \ S) \cap purse.old) \cap ((Coins \ S) \ purse.old) = {}
        OBVIOUS
    <2>4. Cardinality(Coins \cap purse.old) = so + do
        BY <1>2, <1>4, <2>1
    <2>5. Cardinality(Coins \ purse.old) = sn + dn
        BY <1>2, <1>4, <2>2
    <2>6. Cardinality(Coins \ S) = do + dn
        BY <1>2, <1>4, <2>3
    <2> QED
        BY <2>4, <2>5, <2>6
<1>6. /\ FeeOf(S) = (so * fo + sn * fn + 999) \div 1000
      /\ FeeOf(Coins) = ((so + do) * fo + (sn + dn) * fn + 999) \div 1000
    BY <1>5 DEF FeeOf
<1> HIDE DEF so, sn, do, dn, fo, fn
<1>7. /\ so * fo + sn * fn \in Nat /\ (so + do) * fo + (sn + dn) * fn \in Nat /\ do + dn \in Nat
      /\ so * fo + sn * fn <= (so + do) * fo + (sn + dn) * fn
      /\ (so + do) * fo + (sn + dn) * fn <= so * fo + sn * fn + 1000 * (do + dn)
    <2>1. /\ so * fo \in Nat /\ sn * fn \in Nat /\ do * fo \in Nat /\ dn * fn \in Nat
          /\ do * fo <= 1000 * do /\ dn * fn <= 1000 * dn
        BY <1>1, <1>3
    <2>2. /\ (so + do) * fo = so * fo + do * fo
          /\ (sn + dn) * fn = sn * fn + dn * fn
          /\ 1000 * (do + dn) = 1000 * do + 1000 * dn
        BY <1>1, <1>3
    <2> QED
        BY <1>3, <2>1, <2>2
<1> QED
    BY <1>5, <1>6, <1>7, RoundsUp

\* What pays for itself still does with all the proofs there are.
LEMMA AllPayBest ==
    ASSUME PurseFits, NEW S \in SUBSET Coins, NEW x \in Nat, AmountOf(S) >= x + FeeOf(S)
    PROVE  \A R \in SUBSET Coins : AmountOf(Coins) >= x + FeeOf(R)
<1> SUFFICES ASSUME NEW R \in SUBSET Coins PROVE AmountOf(Coins) >= x + FeeOf(R)
    OBVIOUS
<1>1. /\ AmountOf(S) \in Nat /\ AmountOf(Coins) \in Nat
      /\ AmountOf(S) + Cardinality(Coins \ S) <= AmountOf(Coins)
    BY AmountGrows
<1>2. /\ FeeOf(S) \in Nat /\ FeeOf(Coins) \in Nat
      /\ FeeOf(Coins) <= FeeOf(S) + Cardinality(Coins \ S)
    BY FeeGrows
<1>3. FeeOf(R) \in Nat /\ FeeOf(R) <= FeeOf(Coins)
    BY FeeGrows
<1>4. Cardinality(Coins \ S) \in Nat
    BY CoinsAre, FS_Subset, FS_CardinalityType
<1> QED
    BY <1>1, <1>2, <1>3, <1>4

\* What is due depends on the purse alone.
LEMMA PurseKept ==
    ASSUME purse' = purse
    PROVE  /\ PaysNoFee' <=> PaysNoFee
           /\ \A S : AmountOf(S)' = AmountOf(S) /\ FeeOf(S)' = FeeOf(S)
           /\ AmountOf(Candidates)' = AmountOf(Candidates)
<1>1. \A S : AmountOf(S)' = AmountOf(S)
    BY DEF AmountOf, MapThenSumSet, MapThenFoldSet
<1>2. \A x, pool : ExactMatches(x, pool)' = ExactMatches(x, pool)
    BY <1>1 DEF ExactMatches
<1>3. \A x, pool : MinExcess(x, pool)' = MinExcess(x, pool)
    BY <1>1 DEF MinExcess
<1>4. \A x, pool : ToSend(x, pool)' = ToSend(x, pool)
    BY <1>2, <1>3 DEF ToSend
<1>5. Coins' = Coins /\ Young' = Young
    BY DEF Coins, Young
<1>6. Candidates' = Candidates
    BY <1>1, <1>3, <1>4, <1>5, Zenon DEF Candidates
<1> QED
    <2>1. \A S : FeeOf(S)' = FeeOf(S)
        BY DEF FeeOf
    <2>2. AmountOf(Candidates)' = AmountOf(Candidates)
        BY <1>1, <1>6
    <2>3. PaysNoFee' <=> PaysNoFee
        BY <2>2 DEF PaysNoFee
    <2> QED
        BY <1>1, <2>1, <2>2, <2>3
-----------------------------------------------------------------------------
(* One selection takes from its pool.                                      *)

\* The order in which findExactMatch meets exact selections has a first one.
LEMMA FirstIsFound ==
    ASSUME NEW n \in Nat, NEW found \in SUBSET SUBSET (1..n), found # {}
    PROVE  FirstFound(found) \in found
<1> DEFINE First(S, F) == \A T \in F : \A c \in T \ S : \E d \in S \ T : d > c
           Q == {m \in Nat : \A F \in SUBSET SUBSET (1..m) : F # {} => \E S \in F : First(S, F)}
<1>1. 0 \in Q
    <2> SUFFICES ASSUME NEW F \in SUBSET SUBSET (1..0), F # {} PROVE \E S \in F : First(S, F)
        OBVIOUS
    <2>1. 1..0 = {}
        OBVIOUS
    <2>2. F = {{}}
        BY <2>1
    <2> QED
        BY <2>2
<1>2. ASSUME NEW m \in Q PROVE m + 1 \in Q
    <2> SUFFICES ASSUME NEW F \in SUBSET SUBSET (1..(m + 1)), F # {}
                 PROVE  \E S \in F : First(S, F)
        OBVIOUS
    <2>1. m \in Nat /\ 1..(m + 1) = (1..m) \cup {m + 1} /\ m + 1 \notin 1..m
        OBVIOUS
    <2>2. CASE \A S \in F : m + 1 \notin S
        <3>1. F \in SUBSET SUBSET (1..m)
            BY <2>1, <2>2
        <3> QED
            BY <3>1
    <2>3. CASE \E S \in F : m + 1 \in S
        <3> DEFINE G == {U \in SUBSET (1..m) : U \cup {m + 1} \in F}
        <3>1. G \in SUBSET SUBSET (1..m) /\ G # {}
            <4>1. PICK S \in F : m + 1 \in S
                BY <2>3
            <4>2. S \ {m + 1} \in SUBSET (1..m) /\ (S \ {m + 1}) \cup {m + 1} = S
                BY <2>1, <4>1
            <4>3. S \ {m + 1} \in G
                BY <4>2
            <4> QED
                BY <4>3
        <3>2. PICK U \in G : First(U, G)
            BY <3>1
        <3>3. PICK S \in F : S = U \cup {m + 1}
            BY <3>2
        <3>4. ASSUME NEW T \in F, NEW c \in T \ S PROVE \E d \in S \ T : d > c
            <4>1. c \in 1..m
                BY <2>1, <3>3
            <4>2. CASE m + 1 \notin T
                <5>1. m + 1 > c
                    BY <4>1
                <5> QED
                    BY <3>3, <4>2, <5>1
            <4>3. CASE m + 1 \in T
                <5>1. T \ {m + 1} \in G
                    <6>1. T \ {m + 1} \in SUBSET (1..m) /\ (T \ {m + 1}) \cup {m + 1} = T
                        BY <2>1, <4>3
                    <6> QED
                        BY <6>1
                <5>2. c \in (T \ {m + 1}) \ U
                    BY <2>1, <3>3, <4>1
                <5>3. PICK d \in U \ (T \ {m + 1}) : d > c
                    BY <3>2, <5>1, <5>2
                <5> QED
                    BY <3>3, <5>3
            <4> QED
                BY <4>2, <4>3
        <3>5. First(S, F)
            BY <3>4
        <3> QED
            BY <3>5
    <2> QED
        BY <2>2, <2>3
<1>3. Q = Nat
    <2>1. Q \in SUBSET Nat
        OBVIOUS
    <2> HIDE DEF Q
    <2> QED
        BY <1>1, <1>2, <2>1, AllNumbers
<1>4. \E S \in found : First(S, found)
    BY <1>3
<1> QED
    BY <1>4 DEF FirstFound

LEMMA TakenFromPool ==
    ASSUME PurseFits, NEW x, NEW pool \in SUBSET Coins
    PROVE  ToSend(x, pool) \in SUBSET pool
<1>1. CASE ExactMatches(x, pool) = {}
    BY <1>1 DEF ToSend, MinExcess
<1>2. CASE ExactMatches(x, pool) # {}
    <2>1. PICK n \in Nat : Coins = 1..n
        BY CoinsAre
    <2>2. ExactMatches(x, pool) \in SUBSET SUBSET (1..n)
        BY <2>1 DEF ExactMatches
    <2>3. ToSend(x, pool) \in ExactMatches(x, pool)
        BY <1>2, <2>2, FirstIsFound DEF ToSend
    <2> QED
        BY <2>3 DEF ExactMatches
<1> QED
    BY <1>1, <1>2

-----------------------------------------------------------------------------
(* Every step of the selection.                                            *)

LEMMA CoinStarts == CoinInit => CInv
<1> SUFFICES ASSUME CoinInit PROVE CInv
    OBVIOUS
<1>1. PurseFits
    <2>1. PICK w \in Wallets, oldFee \in FeeRates, newFee \in FeeRates, target \in Targets :
              \E old \in SUBSET DOMAIN w, asItIs \in BOOLEAN :
                  purse = [worth |-> w, old |-> old, oldFee |-> oldFee, newFee |-> newFee,
                           target |-> target, asItIs |-> asItIs]
        BY Zenon DEF CoinInit
    <2>4. PICK old \in SUBSET DOMAIN w, asItIs \in BOOLEAN :
              purse = [worth |-> w, old |-> old, oldFee |-> oldFee, newFee |-> newFee,
                       target |-> target, asItIs |-> asItIs]
        BY <2>1
    <2>2. /\ w \in Seq(Nat \ {0}) /\ oldFee \in 0..1000 /\ newFee \in 0..1000
          /\ target \in Nat \ {0}
        BY CoinAssumptions
    <2>3. DOMAIN w \subseteq Nat
        BY <2>2
    <2> QED
        BY <2>2, <2>3, <2>4 DEF PurseFits, PurseRecord, Coins
<1>2. search = [at |-> "asked", pool |-> {}, chosen |-> {}, rounds |-> 0]
    BY DEF CoinInit
<1>3. SearchFits
    BY <1>2, CoinAssumptions DEF SearchFits
<1>4. FundsSuffice
    BY <1>2 DEF FundsSuffice
<1> QED
    BY <1>1, <1>3, <1>4 DEF CInv

\* The choice covers its fee, so it covers what is due.
LEMMA TakenCovers ==
    ASSUME CInv, UNCHANGED purse, search.at \in {"pool", "drain"}, Covered, Taken(search.chosen)
    PROVE  CInv'
<1>1. PurseFits /\ SearchFits
    BY DEF CInv
<1>2. search' = [search EXCEPT !.at = "taken", !.chosen = search.chosen]
    BY DEF Taken
<1>3. /\ search'.at = "taken" /\ search'.chosen = search.chosen
      /\ search' \in [at : {"asked", "refused", "taken", "pool", "drain"}, pool : SUBSET Coins,
                      chosen : SUBSET Coins, rounds : 0..MaxIterations]
    BY <1>1, <1>2 DEF SearchFits
<1>4. search.chosen \in SUBSET Coins /\ purse.target \in Nat
    BY <1>1 DEF SearchFits, PurseFits, PurseRecord
<1>5. AmountOf(search.chosen) \in Nat /\ FeeOf(search.chosen) \in Nat
    BY <1>1, <1>4, AmountGrows, FeeGrows
<1>6. AmountOf(search.chosen) >= purse.target + FeeOf(search.chosen)
    BY DEF Covered, AmountWithFees
<1>7. \A S : AmountOf(S)' = AmountOf(S) /\ FeeOf(S)' = FeeOf(S)
    BY PurseKept
<1>8. PurseFits' /\ SearchFits'
    BY <1>1, <1>3 DEF PurseFits, SearchFits, Coins
<1>9. FundsSuffice'
    BY <1>3, <1>4, <1>5, <1>6, <1>7 DEF FundsSuffice
<1> QED
    BY <1>8, <1>9 DEF CInv

\* The selection goes on, somewhere in the purse.
LEMMA SearchGoesOn ==
    ASSUME CInv, UNCHANGED purse, NEW pool \in SUBSET Coins, NEW chosen \in SUBSET Coins,
           NEW at \in {"pool", "drain"}, NEW rounds \in 0..MaxIterations,
           search' = [at |-> at, pool |-> pool, chosen |-> chosen, rounds |-> rounds],
           at = "pool" /\ purse.old = {} => pool = Coins, at = "drain" => pool = Young
    PROVE  CInv'
<1>1. PurseFits /\ SearchFits
    BY DEF CInv
<1>2. PurseFits'
    BY <1>1 DEF PurseFits, Coins
<1>3. SearchFits'
    BY DEF SearchFits, Coins, Young
<1>4. FundsSuffice'
    BY DEF FundsSuffice
<1> QED
    BY <1>2, <1>3, <1>4 DEF CInv

\* A refusal is true.
LEMMA RefusedTruly ==
    ASSUME CInv, UNCHANGED purse, Refused,
           \/ search.rounds = MaxIterations
           \/ \E R \in SUBSET Coins : AmountOf(Coins) < purse.target + FeeOf(R)
           \/ AmountOf(Coins) < purse.target
    PROVE  CInv'
<1>1. PurseFits /\ SearchFits
    BY DEF CInv
<1>2. /\ search'.at = "refused" /\ search'.rounds = search.rounds
      /\ search' \in [at : {"asked", "refused", "taken", "pool", "drain"}, pool : SUBSET Coins,
                      chosen : SUBSET Coins, rounds : 0..MaxIterations]
    BY <1>1 DEF Refused, SearchFits
<1>3. PurseFits' /\ SearchFits'
    BY <1>1, <1>2 DEF PurseFits, SearchFits, Coins
<1>4. \A S : AmountOf(S)' = AmountOf(S) /\ FeeOf(S)' = FeeOf(S)
    BY PurseKept
<1>5. purse.target \in Nat
    BY <1>1 DEF PurseFits, PurseRecord
<1>6. \/ search.rounds = MaxIterations
      \/ \A S \in SUBSET Coins : AmountOf(S) < purse.target + FeeOf(S)
    <2> SUFFICES ASSUME search.rounds # MaxIterations, NEW S \in SUBSET Coins
                 PROVE  AmountOf(S) < purse.target + FeeOf(S)
        OBVIOUS
    <2>1. /\ AmountOf(S) \in Nat /\ AmountOf(Coins) \in Nat /\ AmountOf(S) <= AmountOf(Coins)
          /\ FeeOf(S) \in Nat
        BY <1>1, AmountGrows, FeeGrows
    <2>2. CASE AmountOf(Coins) < purse.target
        BY <1>5, <2>1, <2>2
    <2>3. ASSUME NEW R \in SUBSET Coins, AmountOf(Coins) < purse.target + FeeOf(R)
          PROVE  AmountOf(S) < purse.target + FeeOf(S)
        <3>1. FeeOf(R) \in Nat
            BY <1>1, FeeGrows
        <3>2. ~(AmountOf(S) >= purse.target + FeeOf(S))
            <4> SUFFICES ASSUME AmountOf(S) >= purse.target + FeeOf(S) PROVE FALSE
                OBVIOUS
            <4>1. AmountOf(Coins) >= purse.target + FeeOf(R)
                BY <1>1, <1>5, AllPayBest
            <4> QED
                BY <1>5, <2>1, <2>3, <3>1, <4>1
        <3> QED
            BY <1>5, <2>1, <3>2
    <2> QED
        BY <2>2, <2>3
<1>7. FundsSuffice'
    BY <1>2, <1>4, <1>6 DEF FundsSuffice, Coins
<1> QED
    BY <1>3, <1>7 DEF CInv

LEMMA CandidatesAreCoins ==
    ASSUME PurseFits
    PROVE  Candidates \in SUBSET Coins
<1>1. purse.old \in SUBSET Coins /\ Coins \in SUBSET Coins
    BY DEF PurseFits
<1>2. CASE purse.old = {}
    <2>1. Candidates = ToSend(purse.target, Coins)
        BY <1>2, Zenon DEF Candidates
    <2> QED
        BY <1>1, <2>1, TakenFromPool
<1>3. CASE purse.old # {} /\ AmountOf(purse.old) >= purse.target
    <2>1. Candidates = ToSend(purse.target, purse.old)
        BY <1>3, Zenon DEF Candidates
    <2> QED
        BY <1>1, <2>1, TakenFromPool
<1>4. CASE purse.old # {} /\ ~(AmountOf(purse.old) >= purse.target)
    <2> DEFINE pool == purse.old \cup MinExcess(purse.target - AmountOf(purse.old), Young)
    <2>1. Candidates = ToSend(purse.target, pool)
        BY <1>4, Zenon DEF Candidates
    <2>2. pool \in SUBSET Coins
        BY <1>1 DEF MinExcess, Young
    <2> HIDE DEF pool
    <2> QED
        BY <2>1, <2>2, TakenFromPool
<1> QED
    BY <1>2, <1>3, <1>4

LEMMA DrainKeeps ==
    ASSUME CInv, UNCHANGED purse, Drain
    PROVE  CInv'
<1>1. search' = [at |-> "drain", pool |-> Young, chosen |-> purse.old, rounds |-> 0]
    BY DEF Drain
<1>2. Young \in SUBSET Coins /\ purse.old \in SUBSET Coins /\ 0 \in 0..MaxIterations
    BY CoinAssumptions DEF CInv, PurseFits, Young
<1> QED
    BY <1>1, <1>2, SearchGoesOn

LEMMA GrowsOn ==
    ASSUME CInv, UNCHANGED purse, search.at \in {"pool", "drain"}, NEW available,
           CanGrow(available), NEW S \in SUBSET Coins,
           search' = [search EXCEPT !.chosen = S, !.rounds = @ + 1]
    PROVE  CInv'
<1>1. SearchFits /\ search.rounds < MaxIterations
    BY DEF CInv, CanGrow
<1>2. search.pool \in SUBSET Coins /\ search.rounds + 1 \in 0..MaxIterations
    BY <1>1, CoinAssumptions DEF SearchFits
<1>3. search' = [at |-> search.at, pool |-> search.pool, chosen |-> S, rounds |-> search.rounds + 1]
    BY <1>1 DEF SearchFits
<1>4. /\ search.at = "pool" /\ purse.old = {} => search.pool = Coins
      /\ search.at = "drain" => search.pool = Young
    BY <1>1 DEF SearchFits
<1> QED
    BY <1>2, <1>3, <1>4, SearchGoesOn

\* When all the proofs do not cover what is asked for, nothing does.
LEMMA CannotGrow ==
    ASSUME CInv, UNCHANGED purse, Refused, ~CanGrow(Coins)
    PROVE  CInv'
<1>1. search.rounds \in 0..MaxIterations /\ search.chosen \in SUBSET Coins /\ MaxIterations \in Nat
    BY CoinAssumptions DEF CInv, SearchFits
<1>2. CASE search.rounds = MaxIterations
    BY <1>2, RefusedTruly
<1>3. CASE search.rounds # MaxIterations
    <2>1. ~(AmountOf(Coins) >= purse.target + FeeOf(search.chosen))
        BY <1>1, <1>3 DEF CanGrow, AmountWithFees
    <2>2. AmountOf(Coins) \in Nat /\ FeeOf(search.chosen) \in Nat /\ purse.target \in Nat
        BY <1>1, AmountGrows, FeeGrows DEF CInv, PurseFits, PurseRecord
    <2>3. AmountOf(Coins) < purse.target + FeeOf(search.chosen)
        BY <2>1, <2>2
    <2> QED
        BY <1>1, <2>3, RefusedTruly
<1> QED
    BY <1>2, <1>3

LEMMA AskKeeps ==
    ASSUME CInv, Ask
    PROVE  CInv'
<1>1. PurseFits /\ SearchFits /\ UNCHANGED purse
    BY DEF CInv, Ask
<1>2. /\ Coins \in SUBSET Coins /\ purse.old \in SUBSET Coins /\ Young \in SUBSET Coins
      /\ purse.target \in Nat \ {0} /\ AmountOf(Coins) \in Nat /\ 0 \in 0..MaxIterations
    <2>1. purse.old \in SUBSET Coins /\ Young \in SUBSET Coins /\ purse.target \in Nat \ {0}
        BY <1>1, CoinsAre DEF PurseFits, PurseRecord
    <2>2. Coins \in SUBSET Coins /\ 0 \in 0..MaxIterations
        BY CoinAssumptions
    <2>3. AmountOf(Coins) \in Nat
        BY <1>1, <2>2, AmountGrows
    <2> QED
        BY <2>1, <2>2, <2>3
<1>3. CASE AmountOf(Coins) < purse.target
    <2>2. ~(AmountOf(Coins) >= purse.target)
        BY <1>2, <1>3
    <2>1. Refused
        BY <1>3, <2>2, Zenon DEF Ask
    <2> QED
        BY <1>1, <1>3, <2>1, RefusedTruly
<1>4. CASE ~(AmountOf(Coins) < purse.target) /\ PaysNoFee
    <2>1. AmountOf(Coins) >= purse.target
        BY <1>2, <1>4
    <2>2. Taken(Candidates)
        BY <1>4, <2>1, Zenon DEF Ask
    <2>3. Candidates \in SUBSET Coins
        BY <1>1, CandidatesAreCoins
    <2>4. /\ search'.at = "taken" /\ search'.chosen = Candidates
          /\ search' \in [at : {"asked", "refused", "taken", "pool", "drain"}, pool : SUBSET Coins,
                          chosen : SUBSET Coins, rounds : 0..MaxIterations]
        BY <1>1, <2>2, <2>3 DEF Taken, SearchFits
    <2>5. PurseFits' /\ SearchFits'
        BY <1>1, <2>4 DEF PurseFits, SearchFits, Coins
    <2>6. AmountOf(Candidates) = purse.target /\ PaysNoFee'
        BY <1>1, <1>4, PurseKept DEF PaysNoFee
    <2>7. AmountOf(search.chosen)' = purse.target
        BY <1>1, <2>4, <2>6, PurseKept
    <2>8. AmountOf(search.chosen)' >= purse'.target
        BY <1>1, <1>2, <2>7
    <2>9. FundsSuffice'
        BY <1>1, <1>2, <2>4, <2>6, <2>8 DEF FundsSuffice
    <2> QED
        BY <2>5, <2>9 DEF CInv
<1>5. CASE ~(AmountOf(Coins) < purse.target) /\ ~PaysNoFee
    <2>1. IF purse.old = {} THEN SearchIn(Coins)
          ELSE IF AmountOf(purse.old) >= purse.target THEN SearchIn(purse.old) ELSE Drain
        BY <1>5, Zenon DEF Ask
    <2>2. CASE purse.old = {}
        <3>1. search' = [at |-> "pool", pool |-> Coins, chosen |-> ToSend(purse.target, Coins),
                         rounds |-> 0]
            BY <2>1, <2>2 DEF SearchIn
        <3>2. ToSend(purse.target, Coins) \in SUBSET Coins
            BY <1>1, <1>2, TakenFromPool
        <3> QED
            BY <1>1, <1>2, <3>1, <3>2, SearchGoesOn
    <2>3. CASE purse.old # {} /\ AmountOf(purse.old) >= purse.target
        <3>1. search' = [at |-> "pool", pool |-> purse.old,
                         chosen |-> ToSend(purse.target, purse.old), rounds |-> 0]
            BY <2>1, <2>3 DEF SearchIn
        <3>2. ToSend(purse.target, purse.old) \in SUBSET Coins
            BY <1>1, <1>2, TakenFromPool
        <3> QED
            BY <1>1, <1>2, <2>3, <3>1, <3>2, SearchGoesOn
    <2>4. CASE purse.old # {} /\ ~(AmountOf(purse.old) >= purse.target)
        <3>1. Drain
            BY <2>1, <2>4
        <3> QED
            BY <1>1, <3>1, DrainKeeps
    <2> QED
        BY <2>2, <2>3, <2>4
<1> QED
    BY <1>3, <1>4, <1>5

LEMMA FromPoolKeeps ==
    ASSUME CInv, FromPool
    PROVE  CInv'
<1>1. PurseFits /\ SearchFits /\ UNCHANGED purse /\ search.at = "pool"
    BY DEF CInv, FromPool
<1>2. /\ Coins \in SUBSET Coins /\ search.pool \in SUBSET Coins /\ search.chosen \in SUBSET Coins
      /\ purse.target \in Nat /\ FeeOf(search.chosen) \in Nat
    BY <1>1, FeeGrows DEF PurseFits, PurseRecord, SearchFits
<1>3. CASE Covered
    <2>1. Taken(search.chosen)
        BY <1>3 DEF FromPool
    <2> QED
        BY <1>1, <1>3, <2>1, TakenCovers
<1>4. CASE ~Covered /\ CanGrow(search.pool)
    <2>1. search' = [search EXCEPT !.chosen = ToSend(AmountWithFees, search.pool), !.rounds = @ + 1]
        BY <1>4 DEF FromPool, Grown
    <2> QED
        BY <1>1, <1>2, <1>4, <2>1, TakenFromPool, GrowsOn
<1>5. CASE ~Covered /\ ~CanGrow(search.pool) /\ purse.old = {}
    <2>1. Refused
        BY <1>5 DEF FromPool
    <2>2. search.pool = Coins
        BY <1>1, <1>5 DEF SearchFits
    <2> QED
        BY <1>1, <1>2, <1>5, <2>1, <2>2, CannotGrow
<1>6. CASE ~Covered /\ ~CanGrow(search.pool) /\ purse.old # {}
    <2>1. Drain
        BY <1>6 DEF FromPool
    <2> QED
        BY <1>1, <2>1, DrainKeeps
<1> QED
    BY <1>3, <1>4, <1>5, <1>6

LEMMA TopUpKeeps ==
    ASSUME CInv, TopUp
    PROVE  CInv'
<1>1. PurseFits /\ SearchFits /\ UNCHANGED purse /\ search.at = "drain"
    BY DEF CInv, TopUp
<1>2. /\ search.pool \in SUBSET Coins /\ search.pool = Young /\ purse.old \in SUBSET Coins
    BY <1>1 DEF PurseFits, SearchFits
<1>3. CASE Covered
    <2>1. Taken(search.chosen)
        BY <1>3 DEF TopUp
    <2> QED
        BY <1>1, <1>3, <2>1, TakenCovers
<1>4. CASE ~Covered /\ CanGrow(Coins)
    <2> DEFINE S == purse.old \cup ToSend(AmountWithFees - AmountOf(purse.old), search.pool)
    <2>1. search' = [search EXCEPT !.chosen = S, !.rounds = @ + 1]
        BY <1>4 DEF TopUp, Grown
    <2>2. ToSend(AmountWithFees - AmountOf(purse.old), search.pool) \in SUBSET Coins
        BY <1>1, <1>2, TakenFromPool
    <2>3. S \in SUBSET Coins
        BY <1>2, <2>2
    <2> HIDE DEF S
    <2> QED
        BY <1>1, <1>4, <2>1, <2>3, GrowsOn
<1>5. CASE ~Covered /\ ~CanGrow(Coins)
    <2>1. Refused
        BY <1>5 DEF TopUp
    <2> QED
        BY <1>1, <1>5, <2>1, CannotGrow
<1> QED
    BY <1>3, <1>4, <1>5

LEMMA CoinKeeps == CInv /\ [CoinNext]_coinVars => CInv'
<1> SUFFICES ASSUME CInv, [CoinNext]_coinVars PROVE CInv'
    OBVIOUS
<1>1. CASE UNCHANGED coinVars
    <2>1. purse' = purse /\ search' = search
        BY <1>1 DEF coinVars
    <2>2. PurseFits' /\ SearchFits'
        BY <2>1 DEF CInv, PurseFits, SearchFits, Coins, Young
    <2>3. FundsSuffice'
        <3>1. /\ \A S : AmountOf(S)' = AmountOf(S) /\ FeeOf(S)' = FeeOf(S)
              /\ PaysNoFee' <=> PaysNoFee
            BY <2>1, PurseKept
        <3> QED
            BY <2>1, <3>1 DEF CInv, FundsSuffice, Coins
    <2> QED
        BY <2>2, <2>3 DEF CInv
<1>2. CASE CoinNext
    BY <1>2, AskKeeps, FromPoolKeeps, TopUpKeeps DEF CoinNext
<1> QED
    BY <1>1, <1>2

\* A selection that is taken covers its fee, and one that is refused for want of funds could
\* not have been paid with any of the proofs.
THEOREM FundsAlwaysSuffice == CoinSpec => []FundsSuffice
<1>1. CoinInit => CInv
    BY CoinStarts
<1>2. CInv /\ [CoinNext]_coinVars => CInv'
    BY CoinKeeps
<1>3. CInv => FundsSuffice
    BY DEF CInv
<1> QED
    BY <1>1, <1>2, <1>3, PTL DEF CoinSpec
===============================================================================
