-------------------------- MODULE SendLifecycle_proofs --------------------------
(***************************************************************************)
(* No ecash secret is derived twice, for any number of sends, crashes,     *)
(* lost answers and failed counter writes.                                 *)
(*                                                                         *)
(* The derivation counter lives in three places: cashu-ts, memory and      *)
(* SQLite.  A stored proof is below the stored counter because the commit  *)
(* that stored it raised that counter in the same batch, whatever became   *)
(* of the write-through; so it is below the counter in memory too, once    *)
(* that is loaded; and a call derives at or above the counter in memory.   *)
(* Proofs that are not outputs enter the table only if they are in it      *)
(* already: the nodes an operation locks, the inputs cashu-ts returns      *)
(* unchanged, the inputs a stored request names.                           *)
(*                                                                         *)
(* The other safety properties are about what the tables say of the mint   *)
(* and the payees, which a process death or a lost answer may falsify.     *)
(* Until there is one (Calm) the running task has the only reservation and *)
(* the only request, and what it writes off has been spent (CalmInv): no   *)
(* ecash is stranded.  If payees redeem tokens whole and proofs picked by  *)
(* hand are still free when they are locked, what is PENDING are tokens,   *)
(* each of them whole, and a token at the mint is untouched, a payee's or  *)
(* reclaimed, as a whole (HonestInv).                                      *)
(*                                                                         *)
(* What is written off stays so whatever dies or is lost: it was taken by  *)
(* the mint first, and no task can lock it for anything else, since it has *)
(* no node or a SPENT one (SpentInv).                                      *)
(***************************************************************************)
EXTENDS SendLifecycle, FiniteSetTheorems, TLAPS

Row == [tx : Tx, op : Calling, locked : UNION {[S -> ProofRec] : S \in SUBSET Proof}]

Request == [kind : {"send", "revert"}, used : SUBSET Proof, offered : SUBSET Proof]

CallJob ==
    [kind : Calling, tx : Send, row : Row \cup {NoRow},
     pc : {"select", "reserved", "prepared", "call", "wait", "commit", "undo", "failed"},
     offered : SUBSET Proof, used : SUBSET Proof, index : Nat, healed : BOOLEAN,
     answer : {"none", "ok", "spent", "signed"}]

AskJob    == [kind : {"sync"}, pc : {"check"}, batch : SUBSET Proof,
              from : {"PENDING", "UNSPENT"}]
ToldJob   == [kind : {"sync"}, pc : {"move"}, from : {"PENDING", "UNSPENT"},
              spent : SUBSET Proof, unspent : SUBSET Proof]
SettleJob == [kind : {"sync"}, pc : {"settle", "release"}, from : {"PENDING", "UNSPENT"},
              spent : SUBSET Proof, unspent : SUBSET Proof, todo : SUBSET (Tx \cup {NoTx})]

\* The tables, and that every node in memory has a row on disk.
StoreOK ==
    /\ disk \in [Proof -> ProofRec \cup {Absent}]
    /\ mem \in [Proof -> ProofRec \cup {Absent}]
    /\ rows \subseteq Row
    /\ Live \subseteq Stored

\* The stored outputs were derived at indices below n.
DerivedBelow(n) == \A k \in Index, i \in Slots : <<k, i>> \in Stored => k < n

CountersOK ==
    /\ counter \in Nat /\ dcounter \in Nat /\ derived \in Nat
    /\ DerivedBelow(dcounter)
    /\ phase # "loading" => DerivedBelow(counter)

\* A request names stored proofs.
RequestsOK ==
    /\ inflight \in [Send -> Request \cup {NoRequest}]
    /\ \A t \in Send : inflight[t] # NoRequest => inflight[t].offered \subseteq Stored

JobsOK ==
    /\ job \in {Idle} \cup CallJob \cup AskJob \cup ToldJob \cup SettleJob
    /\ phase # "up" => job = Idle

\* What a task that calls the mint relies on.
CallOK ==
    job.kind \in Calling =>
        /\ job.offered \subseteq Stored
        /\ job.pc \notin {"select", "failed"} => job.row \in Row
        /\ job.pc = "wait" => counter <= job.index
        /\ job.pc = "commit" => counter = job.index + 1

IInv == StoreOK /\ CountersOK /\ RequestsOK /\ JobsOK /\ CallOK

------------------------------------------------------------------------------
(* The kinds of job.                                                       *)

LEMMA CallingJob ==
    ASSUME JobsOK, job.kind \in Calling
    PROVE  job \in CallJob /\ phase = "up" /\ job # Idle
<1>1. job # Idle
    BY DEF Idle, Calling
<1>2. job \notin AskJob \cup ToldJob \cup SettleJob
    BY DEF AskJob, ToldJob, SettleJob, Calling
<1>3. QED
    BY <1>1, <1>2 DEF JobsOK

LEMMA SyncJob ==
    ASSUME JobsOK, job.kind = "sync"
    PROVE  /\ job \in AskJob \cup ToldJob \cup SettleJob /\ phase = "up"
           /\ job.kind \notin Calling
           /\ job.pc = "check" => job \in AskJob
           /\ job.pc = "move" => job \in ToldJob
           /\ job.pc \in {"settle", "release"} => job \in SettleJob
<1>1. job # Idle /\ job.kind \notin Calling
    BY DEF Idle, Calling
<1>2. job \notin CallJob
    BY <1>1 DEF CallJob
<1>3. job \in AskJob \cup ToldJob \cup SettleJob /\ phase = "up"
    BY <1>1, <1>2 DEF JobsOK
<1>4. QED
    BY <1>1, <1>3 DEF AskJob, ToldJob, SettleJob

\* A sync task and an idle queue promise nothing about a call.
LEMMA NoCall ==
    ASSUME phase' = "up" \/ job' = Idle,
           job' \in {Idle} \cup AskJob \cup ToldJob \cup SettleJob
    PROVE  JobsOK' /\ CallOK'
<1>1. job'.kind \notin Calling
    BY DEF Idle, AskJob, ToldJob, SettleJob, Calling
<1>2. QED
    BY <1>1 DEF JobsOK, CallOK

------------------------------------------------------------------------------
(* What the primitives of the proof store keep.                            *)

LEMMA RowForShape ==
    ASSUME StoreOK, NEW t \in Tx, NEW op \in Calling, NEW S \in SUBSET Live,
           NEW back \in RollbackTo
    PROVE  RowFor(t, op, S, back) \in Row
<1> DEFINE L == [p \in S |-> Snapshot(p, back)]
<1>1. S \subseteq Proof
    BY DEF Live
<1>2. \A p \in S : mem[p] \in ProofRec
    BY <1>1 DEF StoreOK, Live
<1>3. \A p \in S : Snapshot(p, back) \in ProofRec
    BY <1>2 DEF Snapshot, Held, ProofRec, RollbackTo
<1>4. L \in [S -> ProofRec]
    BY <1>3
<1>5. L \in UNION {[Q -> ProofRec] : Q \in SUBSET Proof}
    BY <1>1, <1>4
<1>6. QED
    BY <1>5 DEF RowFor, Row

LEMMA RowShape ==
    ASSUME NEW r \in Row
    PROVE  DOMAIN r.locked \subseteq Proof /\ \A p \in DOMAIN r.locked : r.locked[p] \in ProofRec
BY DEF Row

LEMMA AbsentShape ==
    /\ Absent \notin ProofRec
    /\ \A s \in ProofState, t \in Tx \cup {NoTx} : Held(s, t) \in ProofRec
BY DEF Absent, Held, ProofRec, ProofState

LEMMA ReserveStep ==
    ASSUME StoreOK, NEW t \in Tx, NEW op \in Calling, NEW S \in SUBSET Live,
           NEW back \in RollbackTo, Reserve(t, op, S, back)
    PROVE  StoreOK' /\ Stored' = Stored
<1>1. /\ rows' = rows \cup {RowFor(t, op, S, back)}
      /\ disk' = [p \in Proof |-> IF p \in S THEN Held("PENDING", t) ELSE disk[p]]
      /\ mem'  = [p \in Proof |-> IF p \in S /\ mem[p].state # "SPENT"
                                  THEN Held("PENDING", t) ELSE mem[p]]
    BY DEF Reserve
<1>2. Held("PENDING", t) \in ProofRec /\ Held("PENDING", t) # Absent
    BY AbsentShape DEF ProofState
<1>3. rows' \subseteq Row
    BY <1>1, RowForShape DEF StoreOK
<1>4. /\ disk' \in [Proof -> ProofRec \cup {Absent}]
      /\ mem' \in [Proof -> ProofRec \cup {Absent}]
    BY <1>1, <1>2 DEF StoreOK
<1>5. S \subseteq Live /\ Live \subseteq Stored
    BY DEF StoreOK
<1>6. Stored' = Stored
    BY <1>1, <1>2, <1>5 DEF Stored
<1>7. Live' = Live
    BY <1>1, <1>2, <1>5 DEF Live
<1>8. QED
    BY <1>3, <1>4, <1>5, <1>6, <1>7 DEF StoreOK

LEMMA CommitStep ==
    ASSUME StoreOK, NEW r, NEW A, NEW B, NEW new,
           \A p \in DOMAIN new : new[p] \in ProofRec,
           Commit(r, A, B, new)
    PROVE  StoreOK' /\ Stored' = Stored \cup (DOMAIN new \cap Proof)
<1> DEFINE moved(table) == Move(Move(table, A, "SPENT"), B, "UNSPENT")
<1>1. /\ rows' = rows \ {r}
      /\ disk' = [p \in Proof |-> IF p \in DOMAIN new THEN new[p] ELSE moved(disk)[p]]
      /\ mem'  = [p \in Proof |-> IF p \in DOMAIN new /\ moved(mem)[p].state # "SPENT"
                                  THEN new[p] ELSE moved(mem)[p]]
    BY DEF Commit
<1>2. ASSUME NEW table \in [Proof -> ProofRec \cup {Absent}]
      PROVE  /\ moved(table) \in [Proof -> ProofRec \cup {Absent}]
             /\ \A p \in Proof : moved(table)[p] = Absent <=> table[p] = Absent
    <2>1. ASSUME NEW x \in [Proof -> ProofRec \cup {Absent}], NEW S, NEW s \in ProofState
          PROVE  /\ Move(x, S, s) \in [Proof -> ProofRec \cup {Absent}]
                 /\ \A p \in Proof : Move(x, S, s)[p] = Absent <=> x[p] = Absent
        <3>1. \A y \in ProofRec : [y EXCEPT !.state = s] \in ProofRec
            BY <2>1 DEF ProofRec
        <3>2. QED
            BY <2>1, <3>1, AbsentShape DEF Move
    <2>2. {"SPENT", "UNSPENT"} \subseteq ProofState
        BY DEF ProofState
    <2>3. /\ Move(table, A, "SPENT") \in [Proof -> ProofRec \cup {Absent}]
          /\ \A p \in Proof : Move(table, A, "SPENT")[p] = Absent <=> table[p] = Absent
        BY <1>2, <2>1, <2>2
    <2>4. QED
        BY <2>1, <2>2, <2>3
<1> HIDE DEF moved
<1>3. /\ disk \in [Proof -> ProofRec \cup {Absent}]
      /\ mem \in [Proof -> ProofRec \cup {Absent}]
      /\ Live \subseteq Stored
    BY DEF StoreOK
<1>4. /\ disk' \in [Proof -> ProofRec \cup {Absent}]
      /\ mem' \in [Proof -> ProofRec \cup {Absent}]
    BY <1>1, <1>2, <1>3
<1>5. \A p \in Proof : disk'[p] = Absent <=> p \notin DOMAIN new /\ disk[p] = Absent
    BY <1>1, <1>2, <1>3, AbsentShape
<1>6. Stored' = Stored \cup (DOMAIN new \cap Proof)
    BY <1>5 DEF Stored
<1>7. \A p \in Proof : mem'[p] # Absent => mem[p] # Absent \/ p \in DOMAIN new
    BY <1>1, <1>2, <1>3
<1>8. Live' \subseteq Stored'
    BY <1>3, <1>6, <1>7 DEF Live
<1>9. QED
    BY <1>1, <1>4, <1>6, <1>8 DEF StoreOK

LEMMA RollbackStep ==
    ASSUME StoreOK, NEW r \in Row, Rollback(r)
    PROVE  StoreOK' /\ Stored' = Stored
<1>1. /\ rows' = rows \ {r}
      /\ disk' = [p \in Proof |-> IF p \in DOMAIN r.locked /\ disk[p] # Absent
                                  THEN r.locked[p] ELSE disk[p]]
      /\ mem'  = [p \in Proof |->
                     IF p \in DOMAIN r.locked /\ mem[p] # Absent /\ mem[p].state # "SPENT"
                     THEN Held(r.locked[p].state,
                               IF r.locked[p].tx = NoTx THEN mem[p].tx ELSE r.locked[p].tx)
                     ELSE mem[p]]
    BY DEF Rollback
<1>2. \A p \in DOMAIN r.locked : r.locked[p] \in ProofRec /\ r.locked[p] # Absent
    BY RowShape, AbsentShape
<1>3. /\ disk \in [Proof -> ProofRec \cup {Absent}]
      /\ mem \in [Proof -> ProofRec \cup {Absent}]
      /\ Live \subseteq Stored
    BY DEF StoreOK
<1>4. disk' \in [Proof -> ProofRec \cup {Absent}]
    BY <1>1, <1>2, <1>3
<1>5. mem' \in [Proof -> ProofRec \cup {Absent}]
    <2>1. ASSUME NEW x \in ProofRec, NEW y \in ProofRec
          PROVE  Held(x.state, IF x.tx = NoTx THEN y.tx ELSE x.tx) \in ProofRec
        BY <2>1 DEF Held, ProofRec
    <2>2. QED
        BY <1>1, <1>2, <1>3, <2>1
<1>6. Stored' = Stored
    BY <1>1, <1>2 DEF Stored
<1>7. \A p \in Proof : mem'[p] # Absent => mem[p] # Absent
    BY <1>1
<1>8. QED
    BY <1>1, <1>3, <1>4, <1>5, <1>6, <1>7 DEF StoreOK, Live

LEMMA OverwriteStep ==
    ASSUME StoreOK, NEW S, NEW s \in ProofState, S \subseteq Live, Overwrite(S, s)
    PROVE  StoreOK' /\ Stored' = Stored
<1> DEFINE node(p) == [mem[p] EXCEPT !.state = s]
<1>1. /\ rows' = rows
      /\ disk' = [p \in Proof |-> IF p \in S THEN node(p) ELSE disk[p]]
      /\ mem'  = [p \in Proof |-> IF p \in S THEN node(p) ELSE mem[p]]
    BY DEF Overwrite, storeVars
<1>2. \A p \in S : p \in Proof /\ mem[p] \in ProofRec /\ disk[p] # Absent
    BY DEF StoreOK, Live, Stored
<1>3. \A p \in S : node(p) \in ProofRec /\ node(p) # Absent
    BY <1>2, AbsentShape DEF ProofRec
<1> HIDE DEF node
<1>4. /\ disk' \in [Proof -> ProofRec \cup {Absent}]
      /\ mem' \in [Proof -> ProofRec \cup {Absent}]
    BY <1>1, <1>3 DEF StoreOK
<1>5. Stored' = Stored
    BY <1>1, <1>2, <1>3 DEF Stored
<1>6. Live' \subseteq Stored'
    BY <1>1, <1>2, <1>5 DEF StoreOK, Live, Stored
<1>7. QED
    BY <1>1, <1>4, <1>5, <1>6 DEF StoreOK

------------------------------------------------------------------------------
(* Frames: what a step leaves alone stays right.                           *)

LEMMA SameStore ==
    ASSUME StoreOK, UNCHANGED storeVars
    PROVE  StoreOK' /\ Stored' = Stored
BY DEF storeVars, StoreOK, Live, Stored

LEMMA SameCounters ==
    ASSUME CountersOK, RequestsOK, Stored' = Stored,
           UNCHANGED <<counterVars, inflight, phase>>
    PROVE  CountersOK' /\ RequestsOK'
BY DEF counterVars, CountersOK, RequestsOK, DerivedBelow

\* A call goes on to its next step, or ends up in the error path.
LEMMA CallGoesOn ==
    ASSUME JobsOK, CallOK, job \in CallJob, phase = "up", phase' = phase,
           Stored' = Stored, counter' = counter,
           job' \in CallJob, job'.offered = job.offered,
           \/ job'.pc = "failed"
           \/ job'.row = job.row /\ job.pc \notin {"select", "failed"}
              /\ job'.pc \notin {"wait", "commit"}
    PROVE  JobsOK' /\ CallOK'
<1>1. job.kind \in Calling /\ job'.kind \in Calling
    BY DEF CallJob
<1>2. JobsOK'
    BY DEF JobsOK
<1>3. job'.offered \subseteq Stored'
    BY <1>1 DEF CallOK
<1>4. QED
    BY <1>1, <1>2, <1>3 DEF CallOK

\* A step of the user, a payee or the screens.
LEMMA Unrelated ==
    ASSUME IInv, UNCHANGED <<storeVars, counterVars, inflight, phase, job>>
    PROVE  IInv'
<1>1. StoreOK' /\ Stored' = Stored
    BY SameStore DEF IInv
<1>2. CountersOK' /\ RequestsOK'
    BY <1>1, SameCounters DEF IInv
<1>3. JobsOK' /\ CallOK'
    BY <1>1 DEF IInv, JobsOK, CallOK, counterVars
<1>4. QED
    BY <1>1, <1>2, <1>3 DEF IInv

------------------------------------------------------------------------------
(* The steps of a send before its call.                                    *)

LEMMA TaskShape ==
    ASSUME NEW kind \in Calling, NEW t \in Send, NEW r \in Row \cup {NoRow},
           NEW pc \in {"select", "call", "failed"},
           NEW S \in SUBSET Proof, NEW U \in SUBSET Proof
    PROVE  /\ Task(kind, t, pc, r, S, U) \in CallJob
           /\ Task(kind, t, pc, r, S, U).kind = kind
           /\ Task(kind, t, pc, r, S, U).pc = pc
           /\ Task(kind, t, pc, r, S, U).row = r
           /\ Task(kind, t, pc, r, S, U).offered = S
BY DEF Task, CallJob

LEMMA StartSendStep ==
    ASSUME IInv, NEW t \in Send, StartSend(t)
    PROVE  IInv'
<1>1. /\ UNCHANGED <<storeVars, counterVars, inflight, phase>> /\ phase = "up"
      /\ job' = Task("send", t, "select", NoRow, {}, {})
    BY DEF StartSend, Ready
<1>2. StoreOK' /\ Stored' = Stored
    BY <1>1, SameStore DEF IInv
<1>3. CountersOK' /\ RequestsOK'
    BY <1>1, <1>2, SameCounters DEF IInv
<1>4. job' \in CallJob /\ job'.pc = "select" /\ job'.offered = {}
    BY <1>1, TaskShape DEF Calling
<1>5. JobsOK' /\ CallOK'
    BY <1>1, <1>4 DEF JobsOK, CallOK
<1>6. QED
    BY <1>2, <1>3, <1>5 DEF IInv

LEMMA SelectStep ==
    ASSUME IInv, Select
    PROVE  IInv'
<1> DEFINE row(S) == RowFor(job.tx, "send", S, "UNSPENT")
<1>1. PICK S \in SUBSET Live :
          /\ Reserve(job.tx, "send", S, "UNSPENT")
          /\ job' = [job EXCEPT !.pc = "reserved", !.offered = S, !.row = row(S)]
    BY DEF Select
<1>2. job \in CallJob /\ phase = "up" /\ UNCHANGED <<counterVars, inflight, phase>>
    BY CallingJob DEF Select, IInv, Calling
<1>3. job.tx \in Send /\ job.tx \in Tx
    BY <1>2, SendAssumptions DEF CallJob
<1>4. "send" \in Calling /\ "UNSPENT" \in RollbackTo
    BY DEF Calling, RollbackTo, ProofState
<1>5. StoreOK' /\ Stored' = Stored
    BY <1>1, <1>3, <1>4, ReserveStep DEF IInv
<1>6. CountersOK' /\ RequestsOK'
    BY <1>2, <1>5, SameCounters DEF IInv
<1>7. row(S) \in Row
    BY <1>3, <1>4, RowForShape DEF IInv
<1> HIDE DEF row
<1>8. S \subseteq Proof /\ S \subseteq Stored
    BY DEF IInv, StoreOK, Live
<1>9. /\ job' \in CallJob /\ job'.row \in Row /\ job'.offered = S /\ job'.pc = "reserved"
    BY <1>1, <1>2, <1>7, <1>8 DEF CallJob
<1>10. JobsOK' /\ CallOK'
    BY <1>2, <1>5, <1>8, <1>9 DEF JobsOK, CallOK
<1>11. QED
    BY <1>5, <1>6, <1>10 DEF IInv

LEMMA PreparedStep ==
    ASSUME IInv, Prepared \/ ExecuteWithSwap
    PROVE  IInv'
<1>1. /\ UNCHANGED <<storeVars, counterVars, inflight, phase>>
      /\ job.kind \in Calling /\ job.pc \in {"reserved", "prepared"}
      /\ job' = [job EXCEPT !.pc = "prepared"] \/ job' = [job EXCEPT !.pc = "call"]
    BY DEF Prepared, ExecuteWithSwap, Calling
<1>2. job \in CallJob /\ phase = "up"
    BY <1>1, CallingJob DEF IInv
<1>3. StoreOK' /\ Stored' = Stored
    BY <1>1, SameStore DEF IInv
<1>4. CountersOK' /\ RequestsOK'
    BY <1>1, <1>3, SameCounters DEF IInv
<1>5. /\ job' \in CallJob /\ job'.offered = job.offered /\ job'.row = job.row
      /\ job'.pc \in {"prepared", "call"}
    BY <1>1, <1>2 DEF CallJob
<1>6. JobsOK' /\ CallOK'
    BY <1>1, <1>2, <1>3, <1>5, CallGoesOn DEF IInv, counterVars
<1>7. QED
    BY <1>3, <1>4, <1>6 DEF IInv

LEMMA ExecuteWithoutSwapStep ==
    ASSUME IInv, ExecuteWithoutSwap
    PROVE  IInv'
<1>1. /\ Commit(job.row, {}, {}, <<>>) /\ job' = Idle
      /\ UNCHANGED <<counterVars, inflight, phase>>
    BY DEF ExecuteWithoutSwap
<1>2. DOMAIN <<>> = {}
    OBVIOUS
<1>3. StoreOK' /\ Stored' = Stored
    BY <1>1, <1>2, CommitStep DEF IInv
<1>4. CountersOK' /\ RequestsOK'
    BY <1>1, <1>3, SameCounters DEF IInv
<1>5. JobsOK' /\ CallOK'
    BY <1>1, NoCall
<1>6. QED
    BY <1>3, <1>4, <1>5 DEF IInv

------------------------------------------------------------------------------
(* The other tasks that call the mint, up to the call.                     *)

LEMMA StartRevertStep ==
    ASSUME IInv, NEW t \in Send, StartRevert(t)
    PROVE  IInv'
<1> DEFINE S == PendingOf(t)
           row == RowFor(t, "revert", S, "PENDING")
<1>1. phase = "up" /\ UNCHANGED <<counterVars, inflight, phase>>
    BY DEF StartRevert, Ready
<1>2. t \in Tx /\ "revert" \in Calling /\ "PENDING" \in RollbackTo
    BY SendAssumptions DEF Calling, RollbackTo, ProofState
<1>3. S \in SUBSET Live
    BY DEF PendingOf, Having, Live, Absent, Held
<1>4. row \in Row
    BY <1>2, <1>3, RowForShape DEF IInv
<1>5. \/ job' = Task("revert", t, "failed", NoRow, {}, {}) /\ UNCHANGED storeVars
      \/ job' = Task("revert", t, "call", row, S, S) /\ Reserve(t, "revert", S, "PENDING")
    BY DEF StartRevert
<1> HIDE DEF S, row
<1>6. StoreOK' /\ Stored' = Stored
    BY <1>2, <1>3, <1>5, SameStore, ReserveStep DEF IInv
<1>7. CountersOK' /\ RequestsOK'
    BY <1>1, <1>6, SameCounters DEF IInv
<1>8. S \subseteq Proof /\ S \subseteq Stored
    BY <1>3 DEF IInv, StoreOK, Live
<1>9. JobsOK' /\ CallOK'
    <2>1. /\ job' \in CallJob
          /\ \/ job'.pc = "failed" /\ job'.offered = {}
             \/ job'.pc = "call" /\ job'.offered = S /\ job'.row = row
        BY <1>2, <1>4, <1>5, <1>8, TaskShape
    <2>2. QED
        BY <1>1, <1>4, <1>6, <1>8, <2>1 DEF JobsOK, CallOK
<1>10. QED
    BY <1>6, <1>7, <1>9 DEF IInv

LEMMA SweepDropStep ==
    ASSUME IInv, NEW t \in Send, SweepDrop(t)
    PROVE  IInv'
<1>1. /\ UNCHANGED <<storeVars, counterVars, phase, job>>
      /\ inflight' = [inflight EXCEPT ![t] = NoRequest]
    BY DEF SweepDrop
<1>2. StoreOK' /\ Stored' = Stored
    BY <1>1, SameStore DEF IInv
<1>3. CountersOK'
    BY <1>1, <1>2 DEF IInv, CountersOK, DerivedBelow, counterVars
<1>4. RequestsOK'
    BY <1>1, <1>2 DEF IInv, RequestsOK
<1>5. JobsOK' /\ CallOK'
    BY <1>1, <1>2 DEF IInv, JobsOK, CallOK, counterVars
<1>6. QED
    BY <1>2, <1>3, <1>4, <1>5 DEF IInv

LEMMA SweepRetryStep ==
    ASSUME IInv, NEW t \in Send, SweepRetry(t)
    PROVE  IInv'
<1> DEFINE S == inflight[t].offered \cap Live
           row == RowFor(t, "retry", S, "preserve")
<1>1. /\ phase = "up" /\ UNCHANGED <<counterVars, inflight, phase>>
      /\ inflight[t] # NoRequest
      /\ Reserve(t, "retry", S, "preserve")
      /\ job' = Task("retry", t, "call", row, inflight[t].offered, inflight[t].used)
    BY DEF SweepRetry, Ready
<1>2. t \in Tx /\ "retry" \in Calling /\ "preserve" \in RollbackTo
    BY SendAssumptions DEF Calling, RollbackTo
<1>3. /\ inflight[t].offered \subseteq Stored
      /\ inflight[t].offered \subseteq Proof /\ inflight[t].used \subseteq Proof
    BY <1>1 DEF IInv, RequestsOK, Request
<1>4. S \in SUBSET Live
    OBVIOUS
<1>5. row \in Row
    BY <1>2, <1>4, RowForShape DEF IInv
<1> HIDE DEF S, row
<1>6. StoreOK' /\ Stored' = Stored
    BY <1>1, <1>2, <1>4, ReserveStep DEF IInv
<1>7. CountersOK' /\ RequestsOK'
    BY <1>1, <1>6, SameCounters DEF IInv
<1>8. JobsOK' /\ CallOK'
    <2>1. /\ job' \in CallJob /\ job'.pc = "call" /\ job'.row = row
          /\ job'.offered = inflight[t].offered
        BY <1>1, <1>2, <1>3, <1>5, TaskShape
    <2>2. QED
        BY <1>1, <1>3, <1>5, <1>6, <2>1 DEF JobsOK, CallOK
<1>9. QED
    BY <1>6, <1>7, <1>8 DEF IInv

------------------------------------------------------------------------------
(* The call and its outcomes.                                              *)

\* The stored counter never falls, whether or not the write went through.
LEMMA WriteThroughRises ==
    ASSUME NEW value \in Nat, dcounter \in Nat, WriteThrough(value)
    PROVE  dcounter' \in Nat /\ dcounter' >= dcounter
BY DEF WriteThrough, Maximum

LEMMA CallMintStep ==
    ASSUME IInv, CallMint
    PROVE  IInv'
<1>1. /\ job \in CallJob /\ phase = "up" /\ job.pc = "call"
      /\ UNCHANGED <<storeVars, phase>>
    BY CallingJob DEF CallMint, IInv
<1>2. StoreOK' /\ Stored' = Stored
    BY <1>1, SameStore DEF IInv
<1>3. /\ counter \in Nat /\ dcounter \in Nat /\ derived \in Nat /\ HealStep \in Nat
    BY SendAssumptions DEF IInv, CountersOK
<1>4. /\ counter' \in Nat /\ counter' >= counter
      /\ dcounter' \in Nat /\ dcounter' >= dcounter
    <2>1. CASE job.healed
        BY <2>1, <1>3, WriteThroughRises DEF CallMint
    <2>2. CASE ~job.healed
        BY <2>2, <1>3 DEF CallMint
    <2>3. QED
        BY <2>1, <2>2
<1>5. PICK U \in IF job.kind = "send"
                 THEN {V \in SUBSET job.offered : Covers(job.tx, V)} ELSE {job.used} :
      \E start \in {Maximum(derived, counter')} :
          /\ derived' = start + 1
          /\ job' = [job EXCEPT !.pc = "wait", !.used = U, !.index = start, !.answer = "none"]
          /\ inflight' = IF Nut19 /\ job.kind # "retry"
                         THEN [inflight EXCEPT ![job.tx] = [kind |-> job.kind, used |-> U,
                                                            offered |-> job.offered]]
                         ELSE inflight
    BY DEF CallMint
<1>6. PICK start \in {Maximum(derived, counter')} :
          /\ derived' = start + 1
          /\ job' = [job EXCEPT !.pc = "wait", !.used = U, !.index = start, !.answer = "none"]
    BY <1>5
<1>7. start \in Nat /\ start >= counter'
    BY <1>3, <1>4 DEF Maximum
<1>8. U \subseteq Proof /\ job.offered \subseteq Stored /\ job.row \in Row
    <2>1. job.offered \subseteq Proof /\ job.used \subseteq Proof /\ job.kind \in Calling
        BY <1>1 DEF CallJob
    <2>2. U \subseteq job.offered \/ U = job.used
        BY <1>5
    <2>3. QED
        BY <1>1, <2>1, <2>2 DEF IInv, CallOK
<1>9. /\ job' \in CallJob /\ job'.kind \in Calling /\ job'.pc = "wait" /\ job'.index = start
      /\ job'.offered = job.offered /\ job'.row = job.row
    BY <1>1, <1>6, <1>7, <1>8 DEF CallJob
<1>10. CountersOK'
    BY <1>1, <1>2, <1>3, <1>4, <1>6, <1>7 DEF IInv, CountersOK, DerivedBelow, Index
<1>11. RequestsOK'
    <2>1. CASE inflight' = inflight
        BY <2>1, <1>2 DEF IInv, RequestsOK
    <2>2. CASE Nut19 /\ job.kind # "retry"
        <3>1. /\ job.tx \in Send
              /\ [kind |-> job.kind, used |-> U, offered |-> job.offered] \in Request
            BY <2>2, <1>1, <1>8 DEF CallJob, Request, Calling
        <3>2. QED
            BY <2>2, <3>1, <1>2, <1>5, <1>8 DEF IInv, RequestsOK
    <2>3. QED
        BY <1>5, <2>1, <2>2
<1>12. JobsOK' /\ CallOK'
    BY <1>1, <1>2, <1>7, <1>8, <1>9 DEF JobsOK, CallOK
<1>13. QED
    BY <1>2, <1>10, <1>11, <1>12 DEF IInv

LEMMA AcceptStep ==
    ASSUME IInv, Accept
    PROVE  IInv'
<1>1. /\ job \in CallJob /\ job.kind \in Calling /\ phase = "up" /\ job.pc = "wait"
      /\ UNCHANGED <<storeVars, derived, phase>>
      /\ inflight' = [inflight EXCEPT ![job.tx] = NoRequest]
      /\ counter' = job.index + 1
      /\ WriteThrough(job.index + 1)
      /\ job' = [job EXCEPT !.pc = "commit"]
    BY CallingJob DEF Accept, IInv
<1>2. StoreOK' /\ Stored' = Stored
    BY <1>1, SameStore DEF IInv
<1>3. /\ counter \in Nat /\ dcounter \in Nat /\ job.index \in Nat /\ counter <= job.index
    BY <1>1 DEF IInv, CountersOK, CallOK, CallJob
<1>4. dcounter' \in Nat /\ dcounter' >= dcounter
    BY <1>1, <1>3, WriteThroughRises
<1>5. CountersOK'
    BY <1>1, <1>2, <1>3, <1>4 DEF IInv, CountersOK, DerivedBelow, Index
<1>6. RequestsOK'
    BY <1>1, <1>2 DEF IInv, RequestsOK
<1>7. /\ job' \in CallJob /\ job'.kind \in Calling /\ job'.pc = "commit"
      /\ job'.offered = job.offered /\ job'.row = job.row /\ job'.index = job.index
    BY <1>1 DEF CallJob
<1>8. JobsOK' /\ CallOK'
    BY <1>1, <1>2, <1>7 DEF IInv, JobsOK, CallOK
<1>9. QED
    BY <1>2, <1>5, <1>6, <1>8 DEF IInv

LEMMA ErrorShape ==
    ASSUME job \in CallJob, NEW heal \in BOOLEAN
    PROVE  /\ AfterError(heal) \in CallJob
           /\ AfterError(heal).offered = job.offered /\ AfterError(heal).row = job.row
           /\ AfterError(heal).pc \in {"call", "failed", "undo"}
<1> DEFINE outcome == {[job EXCEPT !.pc = "call", !.healed = TRUE],
                       [job EXCEPT !.pc = "failed"], [job EXCEPT !.pc = "undo"]}
<1>1. AfterError(heal) \in outcome
    BY DEF AfterError
<1>2. \A j \in outcome : /\ j \in CallJob /\ j.offered = job.offered /\ j.row = job.row
                         /\ j.pc \in {"call", "failed", "undo"}
    BY DEF CallJob
<1>3. QED
    BY <1>1, <1>2

LEMMA RefusedStep ==
    ASSUME IInv, Refused \/ Lost
    PROVE  IInv'
<1>1. /\ job \in CallJob /\ phase = "up" /\ job.pc = "wait"
      /\ UNCHANGED <<storeVars, counterVars, phase>>
      /\ inflight' = [inflight EXCEPT ![job.tx] = NoRequest] \/ inflight' = inflight
    BY CallingJob DEF Refused, Lost, IInv
<1>2. PICK heal \in BOOLEAN : job' = AfterError(heal)
    <2>1. CASE Refused
        BY <2>1 DEF Refused
    <2>2. CASE Lost
        BY <2>2 DEF Lost
    <2>3. QED
        BY <2>1, <2>2
<1>3. StoreOK' /\ Stored' = Stored
    BY <1>1, SameStore DEF IInv
<1>4. CountersOK'
    BY <1>1, <1>3 DEF IInv, CountersOK, DerivedBelow, counterVars
<1>5. RequestsOK'
    BY <1>1, <1>3 DEF IInv, RequestsOK
<1>6. JobsOK' /\ CallOK'
    <2>1. /\ job' \in CallJob /\ job'.offered = job.offered /\ job'.row = job.row
          /\ job'.pc \in {"call", "failed", "undo"}
        BY <1>1, <1>2, ErrorShape
    <2>2. QED
        BY <1>1, <1>3, <2>1, CallGoesOn DEF IInv, counterVars
<1>7. QED
    BY <1>3, <1>4, <1>5, <1>6 DEF IInv

\* The heart of the matter: the proofs a commit stores are outputs of an index below
\* the counter it writes, or inputs that were stored before.
LEMMA NewProofsShape ==
    ASSUME job \in CallJob
    PROVE  /\ DOMAIN NewProofs(job) = Outputs(job) \cup Unchanged(job)
           /\ \A p \in DOMAIN NewProofs(job) : NewProofs(job)[p] \in ProofRec
<1>1. job.tx \in Tx
    BY SendAssumptions DEF CallJob
<1>2. \A s \in {"PENDING", "UNSPENT"} : Held(s, job.tx) \in ProofRec
    BY <1>1, AbsentShape DEF ProofState
<1>3. DOMAIN NewProofs(job) = Outputs(job) \cup Unchanged(job)
    BY DEF NewProofs
<1>4. \A p \in Outputs(job) \cup Unchanged(job) :
          \E s \in {"PENDING", "UNSPENT"} : NewProofs(job)[p] = Held(s, job.tx)
    BY DEF NewProofs
<1>5. QED
    BY <1>2, <1>3, <1>4

LEMMA CommitCallStep ==
    ASSUME IInv, NEW A, job.kind \in Calling, job.pc = "commit",
           CommitWithCounter(A, NewProofs(job)),
           job' = Idle, UNCHANGED <<inflight, counter, derived, phase>>
    PROVE  IInv'
<1> DEFINE new == NewProofs(job)
<1>1. job \in CallJob /\ phase = "up"
    BY CallingJob DEF IInv
<1>2. /\ Commit(job.row, A, {}, new)
      /\ dcounter' = IF DOMAIN new = {} THEN dcounter ELSE Maximum(dcounter, counter)
    BY DEF CommitWithCounter
<1>3. /\ DOMAIN new = Outputs(job) \cup Unchanged(job)
      /\ \A p \in DOMAIN new : new[p] \in ProofRec
    BY <1>1, NewProofsShape
<1> HIDE DEF new
<1>4. StoreOK' /\ Stored' = Stored \cup (DOMAIN new \cap Proof)
    BY <1>2, <1>3, CommitStep DEF IInv
<1>5. /\ counter \in Nat /\ dcounter \in Nat /\ job.index \in Nat
      /\ job.offered \subseteq Stored /\ counter = job.index + 1
    BY <1>1 DEF IInv, CountersOK, CallOK, CallJob
<1>6. dcounter' \in Nat /\ dcounter' >= dcounter /\ (DOMAIN new # {} => dcounter' >= counter)
    BY <1>2, <1>5 DEF Maximum
<1>7. ASSUME NEW k \in Index, NEW i \in Slots, <<k, i>> \in Stored', <<k, i>> \notin Stored
      PROVE  k = job.index /\ DOMAIN new # {}
    <2>1. <<k, i>> \in DOMAIN new
        BY <1>4, <1>7
    <2>2. <<k, i>> \in Outputs(job)
        BY <2>1, <1>3, <1>5, <1>7 DEF Unchanged
    <2>3. QED
        BY <2>1, <2>2 DEF Outputs
<1>8. CountersOK'
    <2>1. ASSUME NEW k \in Index, NEW i \in Slots, <<k, i>> \in Stored'
          PROVE  k < dcounter' /\ k < counter'
        <3>1. CASE <<k, i>> \in Stored
            BY <3>1, <1>1, <1>5, <1>6 DEF IInv, CountersOK, DerivedBelow, Index
        <3>2. CASE <<k, i>> \notin Stored
            BY <3>2, <2>1, <1>5, <1>6, <1>7
        <3>3. QED
            BY <3>1, <3>2
    <2>2. QED
        BY <2>1, <1>5, <1>6 DEF IInv, CountersOK, DerivedBelow
<1>9. RequestsOK'
    BY <1>4 DEF IInv, RequestsOK
<1>10. JobsOK' /\ CallOK'
    BY NoCall
<1>11. QED
    BY <1>4, <1>8, <1>9, <1>10 DEF IInv

LEMMA CommitTaskStep ==
    ASSUME IInv, CommitSend \/ CommitRevert
    PROVE  IInv'
<1>1. /\ job.kind \in Calling /\ job.pc = "commit" /\ job' = Idle
      /\ UNCHANGED <<inflight, counter, derived, phase>>
      /\ \E A : CommitWithCounter(A, NewProofs(job))
    BY DEF CommitSend, CommitRevert, Calling
<1>2. QED
    BY <1>1, CommitCallStep

LEMMA UndoStep ==
    ASSUME IInv, Undo
    PROVE  IInv'
<1>1. /\ job.kind \in Calling /\ job.pc = "undo"
      /\ Rollback(job.row)
      /\ job' = Idle \/ job' = [job EXCEPT !.pc = "failed"]
      /\ UNCHANGED <<counterVars, inflight, phase>>
    BY DEF Undo
<1>2. job \in CallJob /\ phase = "up" /\ job.row \in Row
    BY <1>1, CallingJob DEF IInv, CallOK
<1>3. StoreOK' /\ Stored' = Stored
    BY <1>1, <1>2, RollbackStep DEF IInv
<1>4. CountersOK' /\ RequestsOK'
    BY <1>1, <1>3, SameCounters DEF IInv
<1>5. JobsOK' /\ CallOK'
    <2>1. CASE job' = Idle
        BY <2>1, NoCall
    <2>2. CASE job' = [job EXCEPT !.pc = "failed"]
        <3>1. job' \in CallJob /\ job'.pc = "failed" /\ job'.offered = job.offered
            BY <2>2, <1>2 DEF CallJob
        <3>2. QED
            BY <3>1, <1>1, <1>2, <1>3, CallGoesOn DEF IInv, counterVars
    <2>3. QED
        BY <1>1, <2>1, <2>2
<1>6. QED
    BY <1>3, <1>4, <1>5 DEF IInv

\* The store and the requests alone, and the queue free again.
LEMMA TaskEnds ==
    ASSUME IInv, UNCHANGED <<storeVars, counterVars, inflight, phase>>, job' = Idle
    PROVE  IInv'
<1>1. StoreOK' /\ Stored' = Stored
    BY SameStore DEF IInv
<1>2. CountersOK' /\ RequestsOK'
    BY <1>1, SameCounters DEF IInv
<1>3. QED
    BY <1>1, <1>2, NoCall DEF IInv

------------------------------------------------------------------------------
(* Sync, the mint, dying and coming back.                                  *)

\* A sync step leaves counters and requests alone, and its job stays a sync job.
LEMMA SyncFrame ==
    ASSUME IInv, job.kind = "sync", StoreOK', Stored' = Stored,
           UNCHANGED <<counterVars, inflight, phase>>,
           job' \in {Idle} \cup AskJob \cup ToldJob \cup SettleJob
    PROVE  IInv'
<1>1. phase' = "up"
    BY SyncJob DEF IInv
<1>2. CountersOK' /\ RequestsOK'
    BY SameCounters DEF IInv
<1>3. QED
    BY <1>1, <1>2, NoCall DEF IInv

LEMMA StartSyncStep ==
    ASSUME IInv, NEW S, NEW from \in {"PENDING", "UNSPENT"}, S \subseteq Proof,
           StartSync(S, from)
    PROVE  IInv'
<1>1. /\ UNCHANGED <<storeVars, counterVars, inflight, phase>> /\ phase = "up"
      /\ job' = [kind |-> "sync", pc |-> "check", batch |-> S, from |-> from]
    BY DEF StartSync, Ready
<1>2. job' \in AskJob
    BY <1>1 DEF AskJob
<1>3. StoreOK' /\ Stored' = Stored
    BY <1>1, SameStore DEF IInv
<1>4. CountersOK' /\ RequestsOK'
    BY <1>1, <1>3, SameCounters DEF IInv
<1>5. QED
    BY <1>1, <1>2, <1>3, <1>4, NoCall DEF IInv

LEMMA AskSyncStep ==
    ASSUME IInv, SyncPending \/ SyncUnspent
    PROVE  IInv'
<1>1. \A S \in Batches : S \subseteq Proof
    BY DEF Batches, Having, PendingOf, Live
<1>2. Spendable \subseteq Proof
    BY DEF Spendable, Having
<1>3. CASE SyncPending
    BY <1>1, <1>3, StartSyncStep DEF SyncPending
<1>4. CASE SyncUnspent
    BY <1>2, <1>4, StartSyncStep DEF SyncUnspent
<1>5. QED
    BY <1>3, <1>4

LEMMA CheckStep ==
    ASSUME IInv, Check
    PROVE  IInv'
<1>1. /\ job.kind = "sync" /\ UNCHANGED <<storeVars, counterVars, inflight, phase>>
      /\ job' = [kind |-> "sync", pc |-> "move", from |-> job.from,
                 spent |-> job.batch \cap mintSpent, unspent |-> job.batch \ mintSpent]
      /\ job \in AskJob
    BY SyncJob DEF Check, IInv
<1>2. job' \in ToldJob
    BY <1>1 DEF AskJob, ToldJob
<1>3. StoreOK' /\ Stored' = Stored
    BY <1>1, SameStore DEF IInv
<1>4. QED
    BY <1>1, <1>2, <1>3, SyncFrame

LEMMA WriteOffStep ==
    ASSUME IInv, WriteOff
    PROVE  IInv'
<1>1. /\ job.kind = "sync" /\ UNCHANGED <<counterVars, inflight, phase>> /\ job \in ToldJob
    BY SyncJob DEF WriteOff, IInv
<1>2. CASE job.spent = {}
    <2>1. UNCHANGED storeVars /\ job' = Idle
        BY <1>2 DEF WriteOff
    <2>2. QED
        BY <1>1, <2>1, TaskEnds
<1>3. CASE job.spent # {}
    <2>1. /\ MoveToSpent(job.spent)
          /\ job' = [kind |-> "sync", pc |-> "settle", from |-> job.from,
                     spent |-> job.spent, unspent |-> job.unspent,
                     todo |-> {mem[p].tx : p \in job.spent}]
        BY <1>3 DEF WriteOff
    <2>2. job.spent \subseteq Live /\ StoreOK' /\ Stored' = Stored
        BY <2>1, OverwriteStep DEF IInv, MoveToSpent, ProofState
    <2>3. {mem[p].tx : p \in job.spent} \subseteq Tx \cup {NoTx}
        BY <2>2 DEF IInv, StoreOK, Live, ProofRec
    <2>4. job' \in SettleJob
        BY <1>1, <2>1, <2>3 DEF ToldJob, SettleJob
    <2>5. QED
        BY <1>1, <2>2, <2>4, SyncFrame
<1>4. QED
    BY <1>2, <1>3

LEMMA SettleTxStep ==
    ASSUME IInv, NEW t \in Tx, SettleTx(t)
    PROVE  IInv'
<1>1. /\ job.kind = "sync" /\ UNCHANGED <<storeVars, counterVars, inflight, phase>>
      /\ job \in SettleJob
    BY SyncJob DEF SettleTx, IInv
<1>2. PICK pc \in {"settle", "release"} : job' = [job EXCEPT !.todo = @ \ {t}, !.pc = pc]
    <2>1. job.pc = "settle"
        BY DEF SettleTx
    <2>2. job' = [job EXCEPT !.todo = @ \ {t},
                             !.pc = IF Partial(t) /\ job.from = "PENDING" THEN "release" ELSE @]
        BY DEF SettleTx
    <2>3. QED
        BY <2>1, <2>2
<1>3. job' \in SettleJob
    BY <1>1, <1>2 DEF SettleJob
<1>4. StoreOK' /\ Stored' = Stored
    BY <1>1, SameStore DEF IInv
<1>5. QED
    BY <1>1, <1>3, <1>4, SyncFrame

LEMMA ReleaseStep ==
    ASSUME IInv, Release
    PROVE  IInv'
<1>1. /\ job.kind = "sync" /\ UNCHANGED <<counterVars, inflight, phase>>
      /\ job \in SettleJob /\ job' = [job EXCEPT !.pc = "settle"]
      /\ RevertToSpendable(job.unspent)
    BY SyncJob DEF Release, IInv
<1>2. StoreOK' /\ Stored' = Stored
    BY <1>1, OverwriteStep DEF IInv, RevertToSpendable, ProofState
<1>3. job' \in SettleJob
    BY <1>1 DEF SettleJob
<1>4. QED
    BY <1>1, <1>2, <1>3, SyncFrame

\* An answer only reaches the task that waits for it, and changes nothing else of it.
LEMMA MintAnswersStep ==
    ASSUME IInv, NEW q, NEW a \in {"ok", "spent", "signed"}, MintAnswers(q, a)
    PROVE  IInv'
<1>1. /\ UNCHANGED <<storeVars, counterVars, inflight, phase>>
      /\ \/ job' = job
         \/ job.kind \in Calling /\ job.pc = "wait" /\ job' = [job EXCEPT !.answer = a]
    BY DEF MintAnswers
<1>2. CASE job' = job
    BY <1>1, <1>2, Unrelated
<1>3. CASE job.kind \in Calling /\ job.pc = "wait" /\ job' = [job EXCEPT !.answer = a]
    <2>1. StoreOK' /\ Stored' = Stored
        BY <1>1, SameStore DEF IInv
    <2>2. CountersOK' /\ RequestsOK'
        BY <1>1, <2>1, SameCounters DEF IInv
    <2>3. job \in CallJob /\ phase = "up"
        BY <1>3, CallingJob DEF IInv
    <2>4. /\ job' \in CallJob /\ job'.kind = job.kind /\ job'.pc = job.pc
          /\ job'.row = job.row /\ job'.offered = job.offered /\ job'.index = job.index
        BY <1>3, <2>3 DEF CallJob
    <2>5. JobsOK' /\ CallOK'
        BY <1>1, <1>3, <2>1, <2>3, <2>4 DEF IInv, JobsOK, CallOK, counterVars
    <2>6. QED
        BY <2>1, <2>2, <2>5 DEF IInv
<1>4. QED
    BY <1>1, <1>2, <1>3

LEMMA CrashStep ==
    ASSUME IInv, Crash
    PROVE  IInv'
<1>1. /\ phase' = "loading" /\ job' = Idle /\ mem' = [p \in Proof |-> Absent]
      /\ derived' = 1 /\ counter' = 1 /\ UNCHANGED <<disk, rows, inflight, dcounter>>
    BY DEF Crash
<1>2. Stored' = Stored /\ Live' = {}
    BY <1>1 DEF Stored, Live
<1>3. StoreOK'
    BY <1>1, <1>2 DEF IInv, StoreOK
<1>4. CountersOK' /\ RequestsOK'
    BY <1>1, <1>2 DEF IInv, CountersOK, RequestsOK, DerivedBelow
<1>5. QED
    BY <1>1, <1>3, <1>4, NoCall DEF IInv

\* Loading the stored counter is what makes the next call derive above every stored proof.
LEMMA LoadStep ==
    ASSUME IInv, Load
    PROVE  IInv'
<1>1. /\ phase = "loading" /\ phase' = "recovering" /\ LoadProofs
      /\ counter' = Maximum(counter, dcounter)
      /\ UNCHANGED <<disk, rows, inflight, dcounter, derived, job>>
    BY DEF Load
<1>2. job = Idle
    BY <1>1 DEF IInv, JobsOK
<1>3. Stored' = Stored
    BY <1>1 DEF Stored
<1>4. mem' = [p \in Proof |-> IF disk[p].state \in {"UNSPENT", "PENDING"}
                              THEN disk[p] ELSE Absent]
    BY <1>1 DEF LoadProofs
<1>5. StoreOK'
    BY <1>1, <1>3, <1>4 DEF IInv, StoreOK, Live, Stored
<1>6. /\ counter' \in Nat /\ counter' >= dcounter
    BY <1>1 DEF IInv, CountersOK, Maximum
<1>7. CountersOK'
    BY <1>1, <1>3, <1>6 DEF IInv, CountersOK, DerivedBelow, Index
<1>8. RequestsOK'
    BY <1>1, <1>3 DEF IInv, RequestsOK
<1>9. QED
    BY <1>1, <1>2, <1>5, <1>7, <1>8, NoCall DEF IInv

LEMMA RecoverOrphanStep ==
    ASSUME IInv, NEW r \in rows, RecoverOrphan(r)
    PROVE  IInv'
<1>1. phase = "recovering" /\ Rollback(r) /\ UNCHANGED <<counterVars, inflight, phase, job>>
    BY DEF RecoverOrphan, sendVars, counterVars
<1>2. r \in Row /\ job = Idle
    BY <1>1 DEF IInv, StoreOK, JobsOK
<1>3. StoreOK' /\ Stored' = Stored
    BY <1>1, <1>2, RollbackStep DEF IInv
<1>4. CountersOK' /\ RequestsOK'
    BY <1>1, <1>3, SameCounters DEF IInv
<1>5. QED
    BY <1>1, <1>2, <1>3, <1>4, NoCall DEF IInv

LEMMA RecoveredStep ==
    ASSUME IInv, Recovered
    PROVE  IInv'
<1>1. /\ phase = "recovering" /\ phase' = "up"
      /\ UNCHANGED <<storeVars, counterVars, inflight, job>>
    BY DEF Recovered
<1>2. job = Idle
    BY <1>1 DEF IInv, JobsOK
<1>3. StoreOK' /\ Stored' = Stored
    BY <1>1, SameStore DEF IInv
<1>4. CountersOK' /\ RequestsOK'
    BY <1>1, <1>3 DEF IInv, CountersOK, RequestsOK, DerivedBelow, counterVars
<1>5. QED
    BY <1>1, <1>2, <1>3, <1>4, NoCall DEF IInv

------------------------------------------------------------------------------
(* The theorems.                                                           *)

LEMMA InitStep == Init => IInv
<1> SUFFICES ASSUME Init PROVE IInv
    OBVIOUS
<1>1. Genesis \in Tx
    BY SendAssumptions
<1>2. disk \in [Proof -> ProofRec \cup {Absent}] /\ mem = disk /\ rows = {}
    BY <1>1, AbsentShape DEF Init, ProofState
<1>3. StoreOK
    BY <1>2 DEF StoreOK, Live, Stored
<1>4. \A k \in Index, i \in Slots : <<k, i>> \notin Base
    BY SendAssumptions DEF Index, Slots
<1>5. \A k \in Index, i \in Slots : <<k, i>> \notin Stored
    BY <1>4 DEF Init, Stored
<1>6. CountersOK
    BY <1>5 DEF Init, CountersOK, DerivedBelow
<1>7. RequestsOK
    BY DEF Init, RequestsOK
<1>8. JobsOK /\ CallOK
    BY DEF Init, JobsOK, CallOK, Idle, Calling
<1>9. QED
    BY <1>3, <1>6, <1>7, <1>8 DEF IInv

LEMMA NextStep == IInv /\ [Next]_vars => IInv'
<1> SUFFICES ASSUME IInv, [Next]_vars PROVE IInv'
    OBVIOUS
<1>1. ASSUME NEW t \in Send, AskSend(t) \/ AskRevert(t) \/ Claim(t) \/ RefuseSend(t)
      PROVE  IInv'
    <2>1. UNCHANGED <<storeVars, counterVars, inflight, phase, job>>
        BY <1>1 DEF AskSend, AskRevert, Claim, RefuseSend
    <2>2. QED
        BY <2>1, Unrelated
<1>2. ASSUME NEW t \in Send,
             StartSend(t) \/ StartRevert(t) \/ SweepDrop(t) \/ SweepRetry(t)
      PROVE  IInv'
    BY <1>2, StartSendStep, StartRevertStep, SweepDropStep, SweepRetryStep
<1>3. CASE SyncPending \/ SyncUnspent
    BY <1>3, AskSyncStep
<1>4. CASE SendSteps
    BY <1>4, SelectStep, PreparedStep, ExecuteWithoutSwapStep DEF SendSteps
<1>5. CASE CallSteps \/ Lost
    <2>1. CASE Fail
        <3>1. UNCHANGED <<storeVars, counterVars, inflight, phase>> /\ job' = Idle
            BY <2>1 DEF Fail
        <3>2. QED
            BY <3>1, TaskEnds
    <2>2. QED
        BY <1>5, <2>1, CallMintStep, AcceptStep, RefusedStep, CommitTaskStep, UndoStep
        DEF CallSteps
<1>6. CASE SyncSteps
    <2>1. CASE Settled
        <3>1. UNCHANGED <<storeVars, counterVars, inflight, phase>> /\ job' = Idle
            BY <2>1 DEF Settled
        <3>2. QED
            BY <3>1, TaskEnds
    <2>2. QED
        BY <1>6, <2>1, CheckStep, WriteOffStep, ReleaseStep, SettleTxStep DEF SyncSteps
<1>7. CASE MintSteps
    BY <1>7, MintAnswersStep DEF MintSteps
<1>8. CASE Crash \/ Restart
    BY <1>8, CrashStep, LoadStep, RecoverOrphanStep, RecoveredStep DEF Restart
<1>9. CASE UNCHANGED vars
    <2>1. UNCHANGED <<storeVars, counterVars, inflight, phase, job>>
        BY <1>9 DEF vars, sendVars, counterVars
    <2>2. QED
        BY <2>1, Unrelated
<1>10. QED
    BY <1>1, <1>2, <1>3, <1>4, <1>5, <1>6, <1>7, <1>8, <1>9 DEF Next

\* The inductive invariant: types, nodes have rows, stored outputs lie below the counters,
\* and a task and a request name stored proofs only.
THEOREM Invariance == Spec => []IInv
<1>1. QED
    BY InitStep, NextStep, PTL DEF Spec

\* Every stored proof was derived below the derivation counter on disk, for any number of
\* crashes, lost answers and failed write-throughs (reservationsRepo.ts 173-182).
THEOREM StoredBelowCounter == Spec => []CounterCoversCommitted
<1>1. IInv => CounterCoversCommitted
    BY DEF IInv, CountersOK, DerivedBelow, CounterCoversCommitted
<1>2. QED
    BY <1>1, Invariance, PTL

LEMMA NeverStored == IInv => FreshOutputs
<1>1. ASSUME IInv, job.kind \in Calling, job.pc = "wait", NEW p \in Outputs(job) \cap Stored
      PROVE  FALSE
    <2>1. job \in CallJob /\ phase = "up" /\ counter <= job.index
        BY <1>1, CallingJob DEF IInv, CallOK
    <2>2. PICK i \in 1..Worth(job.used) : p = <<job.index, i>>
        BY <1>1 DEF Outputs
    <2>3. p \in Index \X Slots
        BY <1>1, <2>1, <2>2, SendAssumptions DEF Stored, CallJob
    <2>4. job.index \in Index /\ i \in Slots
        BY <2>2, <2>3
    <2>5. job.index < counter
        BY <1>1, <2>1, <2>2, <2>4 DEF IInv, CountersOK, DerivedBelow
    <2>6. QED
        BY <2>1, <2>5, <1>1 DEF IInv, CountersOK, CallJob
<1>2. QED
    BY <1>1 DEF FreshOutputs

\* No request asks the mint to sign outputs whose secrets the wallet has stored: ecash is
\* never overwritten (WalletStore.ts 732-739).
THEOREM NoSecretTwice == Spec => []FreshOutputs
<1>1. QED
    BY NeverStored, Invariance, PTL

------------------------------------------------------------------------------
(* What ecash is worth.                                                    *)

LEMMA ProofsFinite ==
    ASSUME NEW S \in SUBSET Proof
    PROVE  /\ IsFiniteSet(S)
           /\ Cardinality(S \cap Base) \in Nat /\ Cardinality(S \ Base) \in Nat
           /\ Worth(S) \in Nat
<1>1. IsFiniteSet(Index) /\ IsFiniteSet(Slots)
    BY FS_Interval, SendAssumptions DEF Index, Slots
<1>2. IsFiniteSet(Proof)
    BY <1>1, FS_Product, FS_Union, SendAssumptions
<1>3. IsFiniteSet(S)
    BY <1>2, FS_Subset
<1>4. IsFiniteSet(S \cap Base) /\ IsFiniteSet(S \ Base)
    BY <1>3, FS_Intersection, FS_Difference
<1>5. Cardinality(S \cap Base) \in Nat /\ Cardinality(S \ Base) \in Nat
    BY <1>4, FS_CardinalityType
<1>6. QED
    BY <1>3, <1>5, SendAssumptions DEF Worth

LEMMA WorthOfNothing == Worth({}) = 0
<1>1. {} \cap Base = {} /\ {} \ Base = {} /\ Cardinality({}) = 0
    BY FS_EmptySet
<1>2. QED
    BY <1>1, SendAssumptions DEF Worth

\* Taking a proof away takes away what it is worth.
LEMMA WorthWithout ==
    ASSUME NEW S \in SUBSET Proof, NEW p \in S
    PROVE  Worth(S) = Worth(S \ {p}) + (IF p \in Base THEN BaseWorth ELSE 1)
<1>1. IsFiniteSet(S \cap Base) /\ IsFiniteSet(S \ Base)
    BY ProofsFinite, FS_Intersection, FS_Difference
<1>2. CASE p \in Base
    <2>1. (S \ {p}) \cap Base = (S \cap Base) \ {p} /\ (S \ {p}) \ Base = S \ Base
        BY <1>2
    <2>2. Cardinality((S \ {p}) \cap Base) = Cardinality(S \cap Base) - 1
        <3>1. p \in S \cap Base
            BY <1>2
        <3>2. Cardinality((S \cap Base) \ {p}) = Cardinality(S \cap Base) - 1
            BY <3>1, <1>1, FS_RemoveElement
        <3>3. QED
            BY <3>2, <2>1
    <2>3. Cardinality(S \cap Base) \in Nat /\ Cardinality(S \ Base) \in Nat
        BY ProofsFinite
    <2>4. Cardinality((S \ {p}) \ Base) = Cardinality(S \ Base)
        BY <2>1
    <2> HIDE <2>1
    <2>5. \A n \in Nat : BaseWorth * n = BaseWorth * (n - 1) + BaseWorth
        BY SendAssumptions
    <2>6. BaseWorth * Cardinality(S \cap Base)
              = BaseWorth * (Cardinality(S \cap Base) - 1) + BaseWorth
        BY <2>3, <2>5
    <2>7. BaseWorth * Cardinality(S \cap Base) \in Nat
          /\ BaseWorth * (Cardinality(S \cap Base) - 1) \in Int
        BY <2>3, SendAssumptions
    <2>8. QED
        BY <1>2, <2>2, <2>3, <2>4, <2>6, <2>7, SendAssumptions DEF Worth
<1>3. CASE p \notin Base
    <2>1. (S \ {p}) \cap Base = S \cap Base /\ (S \ {p}) \ Base = (S \ Base) \ {p}
        BY <1>3
    <2>2. Cardinality((S \ {p}) \ Base) = Cardinality(S \ Base) - 1
        <3>1. p \in S \ Base
            BY <1>3
        <3>2. Cardinality((S \ Base) \ {p}) = Cardinality(S \ Base) - 1
            BY <3>1, <1>1, FS_RemoveElement
        <3>3. QED
            BY <3>2, <2>1
    <2>3. Cardinality((S \ {p}) \cap Base) = Cardinality(S \cap Base)
        BY <2>1
    <2> HIDE <2>1
    <2>4. Cardinality(S \cap Base) \in Nat /\ Cardinality(S \ Base) \in Nat
        BY ProofsFinite
    <2>5. BaseWorth * Cardinality(S \cap Base) \in Nat
        BY <2>4, SendAssumptions
    <2>6. QED
        BY <1>3, <2>2, <2>3, <2>4, <2>5 DEF Worth
<1>4. QED
    BY <1>2, <1>3

\* A cover without a superfluous proof is one base proof or derived proofs up to the amount:
\* its outputs fit into the slots of an index.
LEMMA CoverIsSmall ==
    ASSUME NEW t \in Send, NEW U \in SUBSET Proof, Covers(t, U)
    PROVE  Worth(U) <= BaseWorth
<1>1. /\ Amount[t] \in Nat /\ 1 <= Amount[t] /\ Amount[t] <= BaseWorth /\ BaseWorth \in Nat
      /\ Worth(U) \in Nat /\ \A p \in U : Worth(U \ {p}) \in Nat
    <2>1. Amount[t] \in 1..BaseWorth /\ BaseWorth \in Nat
        BY SendAssumptions DEF Slots
    <2>2. \A S \in SUBSET Proof : Worth(S) \in Nat
        BY ProofsFinite
    <2>3. U \in SUBSET Proof /\ \A p \in U : U \ {p} \in SUBSET Proof
        OBVIOUS
    <2>4. QED
        BY <2>1, <2>2, <2>3
<1>2. \A p \in U : Worth(U \ {p}) < Amount[t]
    BY DEF Covers
<1>3. CASE U = {}
    BY <1>1, <1>3, WorthOfNothing
<1>4. ASSUME NEW p \in U, p \notin Base
      PROVE  Worth(U) <= BaseWorth
    <2>1. Worth(U) = Worth(U \ {p}) + 1
        BY <1>4, WorthWithout
    <2>2. QED
        BY <2>1, <1>1, <1>2
<1>5. ASSUME NEW b \in U, b \in Base
      PROVE  Worth(U) <= BaseWorth
    <2>1. CASE U = {b}
        <3>1. U \ {b} = {}
            BY <2>1
        <3>2. Worth(U) = Worth({}) + BaseWorth
            BY <1>5, <3>1, WorthWithout
        <3>3. QED
            BY <3>2, <1>1, WorthOfNothing
    <2>2. CASE U # {b}
        <3>1. PICK p \in U : p # b
            BY <2>2
        <3>2. b \in U \ {p} /\ U \ {p} \subseteq Proof /\ (U \ {p}) \ {b} \subseteq Proof
            BY <3>1
        <3>3. Worth(U \ {p}) = Worth((U \ {p}) \ {b}) + BaseWorth
            BY <3>2, <1>5, WorthWithout
        <3>4. Worth((U \ {p}) \ {b}) \in Nat
            BY <3>2, ProofsFinite
        <3>5. Worth(U \ {p}) < Amount[t]
            BY <1>2, <3>1
        <3>6. QED
            BY <3>3, <3>4, <3>5, <1>1
    <2>3. QED
        BY <2>1, <2>2
<1>6. QED
    BY <1>3, <1>4, <1>5

\* The payee's part of a swap is worth what is sent.
LEMMA WorthOfSlots ==
    ASSUME NEW k \in Index, NEW n \in Slots
    PROVE  Worth({<<k, i>> : i \in 1..n}) = n
<1> DEFINE S == {<<k, i>> : i \in 1..n}
           f == [i \in 1..n |-> <<k, i>>]
<1>1. S \cap Base = {} /\ S \ Base = S
    BY SendAssumptions DEF Index, Slots
<1>2. f \in Bijection(1..n, S)
    <2>1. f \in [1..n -> S] /\ \A i \in 1..n : f[i] = <<k, i>>
        OBVIOUS
    <2>2. \A i, j \in 1..n : f[i] = f[j] => i = j
        BY <2>1
    <2>3. \A p \in S : \E i \in 1..n : f[i] = p
        BY <2>1
    <2> HIDE DEF f, S
    <2>4. QED
        BY <2>1, <2>2, <2>3 DEF Bijection, Injection, Surjection, IsInjective
<1>3. IsFiniteSet(1..n) /\ Cardinality(1..n) = n
    BY FS_Interval, SendAssumptions DEF Slots
<1>4. ExistsBijection(1..n, S)
    BY <1>2 DEF ExistsBijection
<1>5. Cardinality(S) = n
    BY <1>3, <1>4, FS_Bijection
<1>6. Cardinality({}) = 0
    BY FS_EmptySet
<1>7. n \in Nat /\ BaseWorth \in Nat
    BY SendAssumptions DEF Slots
<1> HIDE DEF f, S
<1>8. Worth(S) = BaseWorth * 0 + n
    BY <1>1, <1>5, <1>6 DEF Worth
<1>9. Worth(S) = n
    BY <1>7, <1>8
<1>10. QED
    BY <1>9 DEF S

LEMMA OutputsFit ==
    ASSUME NEW j \in CallJob, j.index \in Index, Worth(j.used) <= BaseWorth
    PROVE  Outputs(j) \subseteq Index \X Slots
<1>1. Worth(j.used) \in Nat
    BY ProofsFinite DEF CallJob
<1>2. QED
    BY <1>1, SendAssumptions DEF Outputs, Slots

------------------------------------------------------------------------------
(* While nothing is lost: no process death and no lost answer so far.      *)

Calm == faults.crashes = 0 /\ faults.timeouts = 0

FaultsOK == faults \in [crashes : Nat, timeouts : Nat, drops : Nat]

\* The task holds a reservation; it waits for the mint; the mint has taken its inputs;
\* sync has the mint's answer.
Locking == /\ job.kind \in Calling
           /\ job.pc \in {"reserved", "prepared", "call", "wait", "commit", "undo"}
Waiting == job.kind \in Calling /\ job.pc = "wait"
Asking  == Waiting /\ job.answer = "none"
Taken   == job.kind \in Calling /\ (job.pc = "commit" \/ (job.pc = "wait" /\ job.answer = "ok"))
Told    == job.kind = "sync" /\ job.pc \in {"move", "settle", "release"}

\* What the mint has signed and cached so far was derived at indices below n.
MintBelow(n) ==
    /\ \A p \in signed : p[1] < n
    /\ \A q \in cache : q.index < n

\* One reservation, one request and one entry of the table for the running task, and none
\* without it.
OneCallOnly ==
    /\ phase = "up" /\ job.kind # "retry"
    /\ rows = IF Locking THEN {job.row} ELSE {}
    /\ net = IF Asking THEN {Wire(job)} ELSE {}
    /\ \A t \in Send : inflight[t] # NoRequest => Waiting /\ job.tx = t

\* The outputs of a call are new to the mint, so it never calls them signed already.
CallIsNew ==
    /\ signed \subseteq Index \X Slots /\ \A q \in cache : q.index \in Nat
    /\ derived >= 1 /\ MintBelow(derived)
    /\ Waiting => derived = job.index + 1 /\ job.answer # "signed"
    /\ Asking => MintBelow(job.index)
    /\ job.kind \in Calling =>
          /\ ~job.healed
          /\ job.pc \in {"select", "reserved", "prepared", "call"}
                => derived <= MaxIndex /\ counter <= MaxIndex
          /\ job.pc \in {"wait", "commit"} => Outputs(job) \subseteq Index \X Slots
          /\ job.kind = "revert" => /\ job.used = job.offered
                                    /\ Worth(job.used) <= BaseWorth

\* What is written off has been spent, and a rollback puts back what can be spent.
SpentIsSpent ==
    /\ Taken => job.used \subseteq mintSpent
    /\ Told => job.spent \subseteq mintSpent
    /\ Locking => \A p \in DOMAIN job.row.locked :
                      job.row.locked[p].state \in {"UNSPENT", "PENDING"}

\* All ecash is in the table, or is the output the running task is about to store.
Kept ==
    \A p \in (Base \cup signed) \ mintSpent :
        disk[p].state \in {"UNSPENT", "PENDING"} \/ (Taken /\ p \in Outputs(job))

CalmInv == OneCallOnly /\ CallIsNew /\ SpentIsSpent /\ Kept

\* Only a death, a lost answer and a failed write of the counter are faults.
LEMMA FaultsOf ==
    ASSUME [Next]_vars
    PROVE  UNCHANGED faults \/ Crash \/ Lost \/ CallMint \/ Accept
<1>1. ASSUME NEW t \in Send, AskSend(t) \/ AskRevert(t) \/ Claim(t)
      PROVE  UNCHANGED faults
    BY <1>1 DEF AskSend, AskRevert, Claim
<1>2. ASSUME NEW t \in Send, StartSend(t) \/ RefuseSend(t) \/ StartRevert(t)
      PROVE  UNCHANGED faults
    BY <1>2 DEF StartSend, RefuseSend, StartRevert
<1>3. ASSUME NEW t \in Send, SweepDrop(t) \/ SweepRetry(t)
      PROVE  UNCHANGED faults
    BY <1>3 DEF SweepDrop, SweepRetry
<1>4. ASSUME SyncPending \/ SyncUnspent
      PROVE  UNCHANGED faults
    BY <1>4 DEF SyncPending, SyncUnspent, StartSync
<1>5. ASSUME SendSteps
      PROVE  UNCHANGED faults
    BY <1>5, Zenon DEF SendSteps, Select, Prepared, ExecuteWithoutSwap, ExecuteWithSwap
<1>6. ASSUME Refused \/ CommitSend \/ CommitRevert \/ Undo \/ Fail
      PROVE  UNCHANGED faults
    BY <1>6 DEF Refused, CommitSend, CommitRevert, Undo, Fail
<1>7. ASSUME Check \/ WriteOff \/ Release \/ Settled
      PROVE  UNCHANGED faults
    BY <1>7 DEF Check, WriteOff, Release, Settled
<1>8. ASSUME NEW t \in Tx, SettleTx(t)
      PROVE  UNCHANGED faults
    BY <1>8, Zenon DEF SettleTx
<1>9. ASSUME NEW q \in net, NEW a, MintAnswers(q, a)
      PROVE  UNCHANGED faults
    BY <1>9 DEF MintAnswers
<1>10. ASSUME Restart
       PROVE  UNCHANGED faults
    BY <1>10 DEF Restart, Load, Recovered, RecoverOrphan, sendVars
<1>11. ASSUME UNCHANGED vars
       PROVE  UNCHANGED faults
    BY <1>11 DEF vars, sendVars
<1>12. QED
    BY <1>1, <1>2, <1>3, <1>4, <1>5, <1>6, <1>7, <1>8, <1>9, <1>10, <1>11, Zenon
    DEF Next, CallSteps, SyncSteps, MintSteps

\* Nothing was lost before, and nothing is lost now.
LEMMA CalmBefore ==
    ASSUME FaultsOK, [Next]_vars
    PROVE  FaultsOK' /\ (Calm' => Calm /\ ~Crash /\ ~Lost)
<1>1. ASSUME NEW v, WriteThrough(v)
      PROVE  FaultsOK' /\ (Calm' => Calm)
    BY <1>1 DEF WriteThrough, FaultsOK, Calm
<1>2. ASSUME UNCHANGED faults
      PROVE  FaultsOK' /\ (Calm' => Calm)
    BY <1>2 DEF FaultsOK, Calm
<1>3. ASSUME Crash
      PROVE  FaultsOK' /\ ~Calm'
    <2>1. faults' = [faults EXCEPT !.crashes = @ + 1]
        BY <1>3 DEF Crash
    <2>2. QED
        BY <2>1 DEF FaultsOK, Calm
<1>4. ASSUME Lost
      PROVE  FaultsOK' /\ ~Calm'
    <2>1. faults' = [faults EXCEPT !.timeouts = @ + 1]
        BY <1>4 DEF Lost
    <2>2. QED
        BY <2>1 DEF FaultsOK, Calm
<1>5. ASSUME CallMint
      PROVE  UNCHANGED faults \/ WriteThrough(dcounter + HealStep)
    BY <1>5 DEF CallMint
<1>6. ASSUME Accept
      PROVE  WriteThrough(job.index + 1)
    BY <1>6 DEF Accept
<1>7. FaultsOK' /\ (Calm' => Calm)
    <2>1. CASE UNCHANGED faults
        BY <1>2, <2>1
    <2>2. CASE Crash \/ Lost
        BY <2>2, <1>3, <1>4
    <2>3. CASE CallMint
        BY <2>3, <1>1, <1>2, <1>5
    <2>4. CASE Accept
        BY <2>4, <1>1, <1>6
    <2>5. QED
        BY <2>1, <2>2, <2>3, <2>4, FaultsOf
<1>8. QED
    BY <1>3, <1>4, <1>7

------------------------------------------------------------------------------
(* While nothing is lost: what a step without a call leaves.               *)

LEMMA NoCallNoLock ==
    ASSUME OneCallOnly, job.kind \notin Calling
    PROVE  /\ rows = {} /\ net = {} /\ phase = "up"
           /\ \A t \in Send : inflight[t] = NoRequest
BY DEF OneCallOnly, Locking, Asking, Waiting

LEMMA OwnEcash ==
    ASSUME CallIsNew, NEW p \in Base \cup signed
    PROVE  p \in Proof
BY SendAssumptions DEF CallIsNew

\* The table keeps the ecash if no row loses it and the running task still stores its outputs.
LEMMA KeptStays ==
    ASSUME CallIsNew, Kept, signed' = signed, mintSpent \subseteq mintSpent',
           \A p \in Proof \ mintSpent : disk[p].state \in {"UNSPENT", "PENDING"}
                                            => disk'[p].state \in {"UNSPENT", "PENDING"},
           Taken => Taken' /\ Outputs(job)' = Outputs(job)
    PROVE  Kept'
<1>1. ASSUME NEW p \in (Base \cup signed) \ mintSpent
      PROVE  disk'[p].state \in {"UNSPENT", "PENDING"} \/ (Taken' /\ p \in Outputs(job)')
    BY <1>1, OwnEcash DEF Kept
<1>2. QED
    BY <1>1 DEF Kept

LEMMA NoCallCalm ==
    ASSUME CallIsNew, job'.kind \notin Calling, phase' = "up", rows' = {}, net' = {},
           \A t \in Send : inflight'[t] = NoRequest,
           UNCHANGED <<signed, cache, derived>>,
           Told' => job'.spent \subseteq mintSpent',
           Kept'
    PROVE  CalmInv'
<1>1. ~Locking' /\ ~Waiting' /\ ~Asking' /\ ~Taken'
    BY DEF Locking, Waiting, Asking, Taken
<1>2. OneCallOnly'
    BY <1>1 DEF OneCallOnly, Calling
<1>3. CallIsNew'
    BY <1>1 DEF CallIsNew, MintBelow, Calling
<1>4. SpentIsSpent'
    BY <1>1 DEF SpentIsSpent
<1>5. QED
    BY <1>2, <1>3, <1>4 DEF CalmInv

\* A step of the user, a payee or the screens.
LEMMA UnrelatedCalm ==
    ASSUME CalmInv, mintSpent \subseteq mintSpent',
           UNCHANGED <<storeVars, inflight, counterVars, job, phase, net, signed, cache>>
    PROVE  CalmInv'
<1>1. UNCHANGED <<disk, rows, derived, counter>>
    BY DEF storeVars, counterVars
<1>2. /\ Locking' = Locking /\ Waiting' = Waiting /\ Asking' = Asking /\ Taken' = Taken
      /\ Told' = Told /\ Outputs(job)' = Outputs(job) /\ Wire(job)' = Wire(job)
    BY DEF Locking, Waiting, Asking, Taken, Told, Outputs, Wire
<1>3. OneCallOnly'
    BY <1>1, <1>2 DEF CalmInv, OneCallOnly
<1>4. CallIsNew'
    BY <1>1, <1>2 DEF CalmInv, CallIsNew, MintBelow
<1>5. SpentIsSpent'
    BY <1>1, <1>2 DEF CalmInv, SpentIsSpent
<1>6. Kept'
    BY <1>1, <1>2, KeptStays DEF CalmInv
<1>7. QED
    BY <1>3, <1>4, <1>5, <1>6 DEF CalmInv

\* The queue is free, or becomes free or busy without a call, and the table stays.
LEMMA NoTaskCalm ==
    ASSUME CalmInv, ~Taken, rows = {}, net = {}, \A t \in Send : inflight[t] = NoRequest,
           job'.kind \notin Calling, Told' => job'.spent \subseteq mintSpent,
           UNCHANGED <<storeVars, inflight, derived, phase, net, signed, cache, mintSpent>>
    PROVE  CalmInv'
<1>1. UNCHANGED <<disk, rows>>
    BY DEF storeVars
<1>2. Kept'
    BY <1>1, KeptStays DEF CalmInv
<1>3. phase' = "up"
    BY DEF CalmInv, OneCallOnly
<1>4. QED
    BY <1>1, <1>2, <1>3, NoCallCalm DEF CalmInv

------------------------------------------------------------------------------
(* While nothing is lost: sync.                                            *)

LEMMA StartSyncCalm ==
    ASSUME CalmInv, NEW S, NEW from, StartSync(S, from)
    PROVE  CalmInv'
<1>1. /\ job = Idle /\ job'.kind = "sync" /\ job'.pc = "check"
      /\ UNCHANGED <<storeVars, inflight, derived, phase, net, signed, cache, mintSpent>>
    BY DEF StartSync, Ready, counterVars, mintVars
<1>2. job.kind \notin Calling /\ job'.kind \notin Calling /\ ~Taken /\ ~Told'
    BY <1>1 DEF Idle, Calling, Taken, Told
<1>3. QED
    BY <1>1, <1>2, NoCallNoLock, NoTaskCalm DEF CalmInv

LEMMA CheckCalm ==
    ASSUME CalmInv, Check
    PROVE  CalmInv'
<1>1. /\ job.kind = "sync" /\ job'.kind = "sync" /\ job'.spent \subseteq mintSpent
      /\ UNCHANGED <<storeVars, inflight, derived, phase, net, signed, cache, mintSpent>>
    BY DEF Check, counterVars, mintVars
<1>2. job.kind \notin Calling /\ job'.kind \notin Calling /\ ~Taken
    BY <1>1 DEF Calling, Taken
<1>3. QED
    BY <1>1, <1>2, NoCallNoLock, NoTaskCalm DEF CalmInv

\* Only spent ecash is written off.
LEMMA WriteOffCalm ==
    ASSUME CalmInv, WriteOff
    PROVE  CalmInv'
<1>1. /\ job.kind = "sync" /\ job.pc = "move"
      /\ UNCHANGED <<inflight, derived, phase, net, signed, cache, mintSpent>>
    BY DEF WriteOff, counterVars, mintVars
<1>2. job.kind \notin Calling /\ ~Taken /\ Told
    BY <1>1 DEF Calling, Taken, Told
<1>3. /\ rows = {} /\ net = {} /\ phase = "up" /\ \A t \in Send : inflight[t] = NoRequest
      /\ job.spent \subseteq mintSpent
    BY <1>2, NoCallNoLock DEF CalmInv, SpentIsSpent
<1>4. CASE job.spent = {}
    <2>1. UNCHANGED storeVars /\ job' = Idle
        BY <1>4 DEF WriteOff
    <2>2. job'.kind \notin Calling /\ ~Told'
        BY <2>1 DEF Idle, Calling, Told
    <2>3. QED
        BY <1>1, <1>2, <1>3, <2>1, <2>2, NoTaskCalm
<1>5. CASE job.spent # {}
    <2>1. /\ Overwrite(job.spent, "SPENT")
          /\ job'.kind = "sync" /\ job'.spent = job.spent
        BY <1>5 DEF WriteOff, MoveToSpent
    <2>2. /\ rows' = rows
          /\ \A p \in Proof : p \notin job.spent => disk'[p] = disk[p]
        BY <2>1 DEF Overwrite
    <2>3. Kept'
        BY <1>1, <1>2, <1>3, <2>2, KeptStays DEF CalmInv
    <2>4. job'.kind \notin Calling
        BY <2>1 DEF Calling
    <2>5. QED
        BY <1>1, <1>3, <2>1, <2>2, <2>3, <2>4, NoCallCalm DEF CalmInv
<1>6. QED
    BY <1>4, <1>5

LEMMA SettleTxCalm ==
    ASSUME IInv, CalmInv, NEW t \in Tx, SettleTx(t)
    PROVE  CalmInv'
<1>1. /\ job.kind = "sync" /\ job.pc = "settle" /\ job \in SettleJob
      /\ UNCHANGED <<storeVars, inflight, derived, phase, net, signed, cache, mintSpent>>
    BY SyncJob DEF SettleTx, IInv, counterVars, mintVars
<1>2. job'.kind = "sync" /\ job'.spent = job.spent
    <2>1. job' = [job EXCEPT !.todo = @ \ {t},
                             !.pc = IF Partial(t) /\ job.from = "PENDING" THEN "release" ELSE @]
        BY DEF SettleTx
    <2>2. QED
        BY <1>1, <2>1 DEF SettleJob
<1>3. job.kind \notin Calling /\ job'.kind \notin Calling /\ ~Taken /\ Told
    BY <1>1, <1>2 DEF Calling, Taken, Told
<1>4. job'.spent \subseteq mintSpent
    BY <1>2, <1>3 DEF CalmInv, SpentIsSpent
<1>5. QED
    BY <1>1, <1>3, <1>4, NoCallNoLock, NoTaskCalm DEF CalmInv

LEMMA ReleaseCalm ==
    ASSUME IInv, CalmInv, Release
    PROVE  CalmInv'
<1>1. /\ job.kind = "sync" /\ job.pc = "release" /\ job \in SettleJob
      /\ UNCHANGED <<inflight, derived, phase, net, signed, cache, mintSpent>>
      /\ Overwrite(job.unspent, "UNSPENT") /\ job' = [job EXCEPT !.pc = "settle"]
      /\ job.unspent \subseteq Live
    BY SyncJob DEF Release, IInv, counterVars, mintVars, RevertToSpendable
<1>2. job'.kind = "sync" /\ job'.spent = job.spent
    BY <1>1 DEF SettleJob
<1>3. job.kind \notin Calling /\ job'.kind \notin Calling /\ ~Taken /\ Told
    BY <1>1, <1>2 DEF Calling, Taken, Told
<1>4. /\ rows = {} /\ net = {} /\ phase = "up" /\ \A t \in Send : inflight[t] = NoRequest
      /\ job.spent \subseteq mintSpent
    BY <1>3, NoCallNoLock DEF CalmInv, SpentIsSpent
<1>5. ASSUME NEW p \in Proof, disk[p].state \in {"UNSPENT", "PENDING"}
      PROVE  disk'[p].state \in {"UNSPENT", "PENDING"}
    <2>1. disk' = [q \in Proof |-> IF q \in job.unspent THEN [mem[q] EXCEPT !.state = "UNSPENT"]
                                                        ELSE disk[q]]
        BY <1>1 DEF Overwrite
    <2>2. CASE p \in job.unspent
        <3>1. mem[p] \in ProofRec /\ disk'[p] = [mem[p] EXCEPT !.state = "UNSPENT"]
            BY <1>1, <2>1, <2>2 DEF Live, IInv, StoreOK
        <3>2. QED
            BY <3>1 DEF ProofRec
    <2>3. CASE p \notin job.unspent
        BY <1>5, <2>1, <2>3
    <2>4. QED
        BY <2>2, <2>3
<1>6. Kept'
    BY <1>1, <1>3, <1>5, KeptStays DEF CalmInv
<1>7. rows' = {}
    BY <1>1, <1>4 DEF Overwrite
<1>8. QED
    BY <1>1, <1>2, <1>3, <1>4, <1>6, <1>7, NoCallCalm DEF CalmInv

LEMMA SettledCalm ==
    ASSUME CalmInv, Settled \/ Fail
    PROVE  CalmInv'
<1>1. /\ job.kind = "sync" \/ job.pc = "failed"
      /\ UNCHANGED <<storeVars, inflight, derived, phase, net, signed, cache, mintSpent>>
      /\ job' = Idle
    BY DEF Settled, Fail, counterVars, mintVars
<1>2. ~Locking /\ ~Waiting /\ ~Asking /\ ~Taken /\ job'.kind \notin Calling /\ ~Told'
    BY <1>1 DEF Locking, Waiting, Asking, Taken, Idle, Calling, Told
<1>3. rows = {} /\ net = {} /\ \A t \in Send : inflight[t] = NoRequest
    BY <1>2 DEF CalmInv, OneCallOnly
<1>4. QED
    BY <1>1, <1>2, <1>3, NoTaskCalm

------------------------------------------------------------------------------
(* While nothing is lost: a task that calls the mint, around its call.     *)

LEMMA TaskFields ==
    ASSUME NEW kind, NEW t, NEW pc, NEW r, NEW S, NEW U, job' = Task(kind, t, pc, r, S, U)
    PROVE  /\ job'.kind = kind /\ job'.tx = t /\ job'.pc = pc /\ job'.row = r
           /\ job'.offered = S /\ job'.used = U /\ ~job'.healed /\ job'.answer = "none"
BY DEF Task

\* Before its call a task has nothing but the lock; after a refusal neither.
LEMMA NotWaitingCalm ==
    ASSUME CallIsNew, job'.kind \in {"send", "revert"}, ~job'.healed,
           job'.pc \in {"select", "reserved", "prepared", "call", "undo", "failed"},
           phase' = "up", net' = {}, \A t \in Send : inflight'[t] = NoRequest,
           rows' = IF Locking' THEN {job'.row} ELSE {},
           UNCHANGED <<signed, cache, derived, counter>>,
           job'.pc \in {"select", "reserved", "prepared", "call"}
               => derived <= MaxIndex /\ counter <= MaxIndex,
           job'.kind = "revert" => job'.used = job'.offered /\ Worth(job'.used) <= BaseWorth,
           Locking' => \A p \in DOMAIN job'.row.locked :
                           job'.row.locked[p].state \in {"UNSPENT", "PENDING"},
           Kept'
    PROVE  CalmInv'
<1>1. ~Waiting' /\ ~Asking' /\ ~Taken' /\ ~Told' /\ job'.pc \notin {"wait", "commit"}
    BY DEF Waiting, Asking, Taken, Told
<1>2. OneCallOnly'
    BY <1>1 DEF OneCallOnly
<1>3. CallIsNew'
    BY <1>1 DEF CallIsNew, MintBelow
<1>4. SpentIsSpent'
    BY <1>1 DEF SpentIsSpent
<1>5. QED
    BY <1>2, <1>3, <1>4 DEF CalmInv

LEMMA RoomForCall ==
    ASSUME CountersOK, Room
    PROVE  derived <= MaxIndex /\ counter <= MaxIndex
BY SendAssumptions DEF CountersOK, Room, Maximum

LEMMA StartSendCalm ==
    ASSUME IInv, CalmInv, NEW t \in Send, StartSend(t)
    PROVE  CalmInv'
<1>1. /\ job = Idle /\ phase = "up" /\ job' = Task("send", t, "select", NoRow, {}, {})
      /\ UNCHANGED <<storeVars, inflight, counterVars, phase, mintVars>> /\ Room
    BY DEF StartSend, Ready
<1>2. job'.kind = "send" /\ job'.pc = "select" /\ ~job'.healed /\ ~Locking'
    <2>1. job' = Task("send", t, "select", NoRow, {}, {})
        BY <1>1
    <2>2. job'.kind = "send" /\ job'.pc = "select" /\ ~job'.healed
        BY <2>1, TaskFields
    <2>3. QED
        BY <2>2 DEF Locking
<1>3. job.kind \notin Calling /\ ~Taken
    BY <1>1 DEF Idle, Calling, Taken
<1>4. /\ rows = {} /\ net = {} /\ \A u \in Send : inflight[u] = NoRequest
    BY <1>3, NoCallNoLock DEF CalmInv
<1>5. UNCHANGED <<disk, rows, net, inflight, phase, signed, cache, derived, counter, mintSpent>>
    BY <1>1 DEF storeVars, mintVars, counterVars
<1>6. Kept'
    BY <1>3, <1>5, KeptStays DEF CalmInv
<1>7. derived <= MaxIndex /\ counter <= MaxIndex
    BY <1>1, RoomForCall DEF IInv
<1> HIDE <1>1
<1>8. QED
    BY <1>1, <1>2, <1>4, <1>5, <1>6, <1>7, NotWaitingCalm DEF CalmInv

\* What a lock of spendable or pending proofs puts into the tables.
LEMMA ReserveCalm ==
    ASSUME CalmInv, ~Taken, rows = {}, UNCHANGED <<signed, mintSpent>>,
           NEW t, NEW op, NEW S, NEW back \in {"UNSPENT", "PENDING"}, Reserve(t, op, S, back)
    PROVE  /\ Kept' /\ rows' = {RowFor(t, op, S, back)}
           /\ DOMAIN RowFor(t, op, S, back).locked = S
           /\ \A p \in S :
                  RowFor(t, op, S, back).locked[p].state \in {"UNSPENT", "PENDING"}
<1>1. /\ rows' = rows \cup {RowFor(t, op, S, back)}
      /\ disk' = [p \in Proof |-> IF p \in S THEN Held("PENDING", t) ELSE disk[p]]
    BY DEF Reserve
<1>2. \A p \in Proof : disk'[p] = disk[p] \/ disk'[p].state = "PENDING"
    BY <1>1 DEF Held
<1>3. Kept'
    BY <1>2, KeptStays DEF CalmInv
<1>4. /\ DOMAIN RowFor(t, op, S, back).locked = S
      /\ \A p \in S : RowFor(t, op, S, back).locked[p].state = back
    BY DEF RowFor, Snapshot, Held
<1>5. QED
    BY <1>1, <1>3, <1>4

LEMMA SelectCalm ==
    ASSUME IInv, CalmInv, Select
    PROVE  CalmInv'
<1> DEFINE row(S) == RowFor(job.tx, "send", S, "UNSPENT")
<1>1. PICK S \in SUBSET Live :
          /\ Reserve(job.tx, "send", S, "UNSPENT")
          /\ job' = [job EXCEPT !.pc = "reserved", !.offered = S, !.row = row(S)]
    BY Zenon DEF Select
<1>2. /\ job \in CallJob /\ job.kind = "send" /\ job.pc = "select"
      /\ UNCHANGED <<inflight, counterVars, phase, mintVars>>
    BY CallingJob DEF Select, IInv, Calling
<1>3. UNCHANGED <<net, inflight, phase, signed, cache, derived, counter, mintSpent>>
    BY <1>2 DEF mintVars, counterVars
<1>4. ~Locking /\ ~Waiting /\ ~Asking /\ ~Taken /\ job.kind \in Calling
    BY <1>2 DEF Locking, Waiting, Asking, Taken, Calling
<1>5. /\ rows = {} /\ net = {} /\ phase = "up" /\ \A u \in Send : inflight[u] = NoRequest
      /\ ~job.healed /\ derived <= MaxIndex /\ counter <= MaxIndex
    BY <1>2, <1>4 DEF CalmInv, OneCallOnly, CallIsNew
<1>6. /\ Kept' /\ rows' = {row(S)} /\ DOMAIN row(S).locked = S
      /\ \A p \in S : row(S).locked[p].state \in {"UNSPENT", "PENDING"}
    BY <1>1, <1>3, <1>4, <1>5, ReserveCalm
<1> HIDE DEF row
<1>7. /\ job'.kind = "send" /\ job'.pc = "reserved" /\ ~job'.healed /\ job'.row = row(S)
    BY <1>1, <1>2, <1>5 DEF CallJob
<1>8. Locking'
    BY <1>7 DEF Locking, Calling
<1>9. QED
    BY <1>3, <1>5, <1>6, <1>7, <1>8, NotWaitingCalm DEF CalmInv

LEMMA PreparedCalm ==
    ASSUME IInv, CalmInv, Prepared \/ ExecuteWithSwap
    PROVE  CalmInv'
<1>1. /\ UNCHANGED <<storeVars, counterVars, inflight, phase, mintVars>>
      /\ job.kind = "send" /\ job.pc \in {"reserved", "prepared"}
      /\ job' = [job EXCEPT !.pc = "prepared"] \/ job' = [job EXCEPT !.pc = "call"]
    BY DEF Prepared, ExecuteWithSwap
<1>2. job \in CallJob
    BY <1>1, CallingJob DEF IInv, Calling
<1>3. /\ job'.kind = "send" /\ job'.pc \in {"prepared", "call"} /\ job'.row = job.row
      /\ job'.healed = job.healed
    BY <1>1, <1>2 DEF CallJob
<1>4. UNCHANGED <<disk, rows, net, inflight, phase, signed, cache, derived, counter, mintSpent>>
    BY <1>1 DEF storeVars, mintVars, counterVars
<1>5. /\ Locking /\ ~Waiting /\ ~Asking /\ ~Taken /\ job.kind \in Calling /\ Locking'
    BY <1>1, <1>3 DEF Locking, Waiting, Asking, Taken, Calling
<1>6. /\ rows = {job.row} /\ net = {} /\ phase = "up"
      /\ \A u \in Send : inflight[u] = NoRequest
      /\ ~job.healed /\ derived <= MaxIndex /\ counter <= MaxIndex
      /\ \A p \in DOMAIN job.row.locked : job.row.locked[p].state \in {"UNSPENT", "PENDING"}
    BY <1>1, <1>5 DEF CalmInv, OneCallOnly, CallIsNew, SpentIsSpent
<1>7. Kept'
    BY <1>4, <1>5, KeptStays DEF CalmInv
<1> HIDE <1>1
<1>8. QED
    BY <1>3, <1>4, <1>5, <1>6, <1>7, NotWaitingCalm DEF CalmInv

LEMMA StartRevertCalm ==
    ASSUME IInv, CalmInv, NEW t \in Send, StartRevert(t)
    PROVE  CalmInv'
<1> DEFINE S == PendingOf(t)
           row == RowFor(t, "revert", S, "PENDING")
<1>1. /\ job = Idle /\ phase = "up" /\ Room
      /\ UNCHANGED <<inflight, counterVars, phase, mintVars>>
      /\ \/ job' = Task("revert", t, "failed", NoRow, {}, {}) /\ UNCHANGED storeVars
         \/ /\ job' = Task("revert", t, "call", row, S, S) /\ Worth(S) <= BaseWorth
            /\ Reserve(t, "revert", S, "PENDING")
    BY DEF StartRevert, Ready
<1>2. job.kind \notin Calling /\ ~Taken
    BY <1>1 DEF Idle, Calling, Taken
<1>3. rows = {} /\ net = {} /\ \A u \in Send : inflight[u] = NoRequest
    BY <1>2, NoCallNoLock DEF CalmInv
<1>4. UNCHANGED <<net, inflight, phase, signed, cache, derived, counter, mintSpent>>
    BY <1>1 DEF mintVars, counterVars
<1>5. derived <= MaxIndex /\ counter <= MaxIndex
    BY <1>1, RoomForCall DEF IInv
<1>6. CASE job' = Task("revert", t, "failed", NoRow, {}, {}) /\ UNCHANGED storeVars
    <2>1. /\ job'.kind = "revert" /\ job'.pc = "failed" /\ ~job'.healed
          /\ job'.used = job'.offered /\ job'.used = {}
        BY <1>6, TaskFields
    <2>2. ~Locking' /\ UNCHANGED <<disk, rows>>
        BY <1>6, <2>1 DEF Locking, storeVars
    <2>3. Kept'
        BY <1>2, <1>4, <2>2, KeptStays DEF CalmInv
    <2>4. Worth(job'.used) <= BaseWorth
        BY <2>1, WorthOfNothing, SendAssumptions
    <2>5. QED
        BY <1>1, <1>3, <1>4, <2>1, <2>2, <2>3, <2>4, NotWaitingCalm DEF CalmInv
<1>7. CASE /\ job' = Task("revert", t, "call", row, S, S) /\ Worth(S) <= BaseWorth
           /\ Reserve(t, "revert", S, "PENDING")
    <2>1. /\ job'.kind = "revert" /\ job'.pc = "call" /\ ~job'.healed
          /\ job'.used = job'.offered /\ job'.used = S /\ job'.row = row
        <3>1. job' = Task("revert", t, "call", row, S, S)
            BY <1>7
        <3> HIDE DEF row, S
        <3>2. QED
            BY <3>1, TaskFields
    <2>2. /\ Kept' /\ rows' = {row} /\ DOMAIN row.locked = S
          /\ \A p \in S : row.locked[p].state \in {"UNSPENT", "PENDING"}
        BY <1>2, <1>3, <1>4, <1>7, ReserveCalm
    <2> HIDE DEF row, S
    <2>3. Locking'
        BY <2>1 DEF Locking, Calling
    <2>4. QED
        BY <1>1, <1>3, <1>4, <1>5, <1>7, <2>1, <2>2, <2>3, NotWaitingCalm DEF CalmInv
<1>8. QED
    BY <1>1, <1>6, <1>7

\* Refused, the request is forgotten and the lock undone; a send is never refused for good.
LEMMA RefusedCalm ==
    ASSUME IInv, CalmInv, Refused
    PROVE  CalmInv'
<1>1. /\ UNCHANGED <<storeVars, counterVars, phase, mintVars>>
      /\ job.kind \in Calling /\ job.pc = "wait" /\ job.answer \in {"spent", "signed"}
      /\ inflight' = [inflight EXCEPT ![job.tx] = NoRequest]
      /\ job' = AfterError(job.kind = "send" /\ job.answer = "signed" /\ ~job.healed)
    BY Zenon DEF Refused
<1>2. job \in CallJob
    BY <1>1, CallingJob DEF IInv
<1>3. UNCHANGED <<disk, rows, net, phase, signed, cache, derived, counter, mintSpent>>
    BY <1>1 DEF storeVars, mintVars, counterVars
<1>4. Locking /\ Waiting /\ ~Asking /\ ~Taken
    BY <1>1 DEF Locking, Waiting, Asking, Taken
<1>5. /\ rows = {job.row} /\ net = {} /\ phase = "up" /\ job.kind # "retry"
      /\ \A u \in Send : inflight[u] # NoRequest => job.tx = u
      /\ ~job.healed /\ job.answer # "signed"
      /\ job.kind = "revert" => job.used = job.offered /\ Worth(job.used) <= BaseWorth
      /\ \A p \in DOMAIN job.row.locked : job.row.locked[p].state \in {"UNSPENT", "PENDING"}
    BY <1>1, <1>4 DEF CalmInv, OneCallOnly, CallIsNew, SpentIsSpent
<1>6. job' = [job EXCEPT !.pc = "undo"]
    BY <1>1, <1>5 DEF AfterError
<1>7. /\ job'.kind = job.kind /\ job'.pc = "undo" /\ ~job'.healed /\ job'.row = job.row
      /\ job'.used = job.used /\ job'.offered = job.offered
    BY <1>2, <1>5, <1>6 DEF CallJob
<1>8. Locking' /\ job'.kind \in {"send", "revert"}
    BY <1>1, <1>5, <1>7 DEF Locking, Calling
<1>9. \A u \in Send : inflight'[u] = NoRequest
    BY <1>1, <1>5 DEF IInv, RequestsOK
<1>10. Kept'
    BY <1>3, <1>4, KeptStays DEF CalmInv
<1> HIDE <1>1
<1>11. QED
    BY <1>3, <1>5, <1>7, <1>8, <1>9, <1>10, NotWaitingCalm DEF CalmInv

LEMMA UndoCalm ==
    ASSUME IInv, CalmInv, Undo
    PROVE  CalmInv'
<1>1. /\ UNCHANGED <<counterVars, inflight, phase, mintVars>>
      /\ job.kind \in Calling /\ job.pc = "undo" /\ Rollback(job.row)
      /\ job' = IF job.kind = "retry" THEN Idle ELSE [job EXCEPT !.pc = "failed"]
    BY DEF Undo
<1>2. job \in CallJob
    BY <1>1, CallingJob DEF IInv
<1>3. UNCHANGED <<inflight, net, phase, signed, cache, derived, counter, mintSpent>>
    BY <1>1 DEF mintVars, counterVars
<1>4. Locking /\ ~Waiting /\ ~Asking /\ ~Taken
    BY <1>1 DEF Locking, Waiting, Asking, Taken
<1>5. /\ rows = {job.row} /\ net = {} /\ phase = "up" /\ job.kind # "retry"
      /\ \A u \in Send : inflight[u] = NoRequest
      /\ ~job.healed
      /\ job.kind = "revert" => job.used = job.offered /\ Worth(job.used) <= BaseWorth
      /\ \A p \in DOMAIN job.row.locked : job.row.locked[p].state \in {"UNSPENT", "PENDING"}
    BY <1>1, <1>4 DEF CalmInv, OneCallOnly, CallIsNew, SpentIsSpent
<1>6. /\ job'.kind = job.kind /\ job'.pc = "failed" /\ ~job'.healed
      /\ job'.used = job.used /\ job'.offered = job.offered
    BY <1>1, <1>2, <1>5 DEF CallJob
<1>7. ~Locking' /\ job'.kind \in {"send", "revert"}
    BY <1>1, <1>5, <1>6 DEF Locking, Calling
<1>8. /\ rows' = rows \ {job.row}
      /\ disk' = [p \in Proof |-> IF p \in DOMAIN job.row.locked /\ disk[p] # Absent
                                  THEN job.row.locked[p] ELSE disk[p]]
    BY <1>1 DEF Rollback
<1>9. Kept'
    BY <1>3, <1>4, <1>5, <1>8, KeptStays DEF CalmInv
<1>10. rows' = {}
    BY <1>5, <1>8
<1> HIDE <1>1
<1>11. QED
    BY <1>3, <1>5, <1>6, <1>7, <1>9, <1>10, NotWaitingCalm DEF CalmInv

------------------------------------------------------------------------------
(* While nothing is lost: the call, its answer and its commit.             *)

LEMMA CallMintShape ==
    ASSUME IInv, CalmInv, CallMint
    PROVE  /\ job \in CallJob /\ job' \in CallJob /\ job.kind \in {"send", "revert"}
           /\ job.pc = "call" /\ job'.pc = "wait" /\ job'.answer = "none"
           /\ job'.kind = job.kind /\ job'.tx = job.tx /\ job'.row = job.row
           /\ job'.offered = job.offered /\ ~job'.healed
           /\ job'.used \subseteq job.offered
           /\ job.kind = "send" => Covers(job.tx, job'.used)
           /\ job.kind = "revert" => job'.used = job.used
           /\ job'.index \in Index /\ job'.index >= derived /\ derived' = job'.index + 1
           /\ counter' = counter /\ net' = net \cup {Wire(job')}
           /\ \A t \in Send : t # job.tx => inflight'[t] = inflight[t]
           /\ UNCHANGED <<storeVars, status, userVars, phase, mintSpent, signed, cache, claimed>>
<1>1. /\ job \in CallJob /\ job.pc = "call" /\ job.kind \in Calling
      /\ UNCHANGED <<storeVars, status, userVars, phase, mintSpent, signed, cache, claimed>>
      /\ net' = net \cup {Wire(job')}
    BY CallingJob DEF CallMint, IInv
<1>2. /\ ~job.healed /\ derived >= 1 /\ derived <= MaxIndex /\ counter <= MaxIndex
      /\ job.kind # "retry" /\ (job.kind = "revert" => job.used = job.offered)
    BY <1>1 DEF CalmInv, OneCallOnly, CallIsNew
<1>3. counter' = counter
    BY <1>2 DEF CallMint
<1>4. PICK U \in IF job.kind = "send"
                 THEN {V \in SUBSET job.offered : Covers(job.tx, V)} ELSE {job.used} :
      \E start \in {Maximum(derived, counter')} :
          /\ derived' = start + 1
          /\ job' = [job EXCEPT !.pc = "wait", !.used = U, !.index = start, !.answer = "none"]
          /\ inflight' = IF Nut19 /\ job.kind # "retry"
                         THEN [inflight EXCEPT ![job.tx] = [kind |-> job.kind, used |-> U,
                                                            offered |-> job.offered]]
                         ELSE inflight
    BY Zenon DEF CallMint
<1>5. PICK start \in {Maximum(derived, counter)} :
          /\ derived' = start + 1
          /\ job' = [job EXCEPT !.pc = "wait", !.used = U, !.index = start, !.answer = "none"]
          /\ inflight' = IF Nut19 /\ job.kind # "retry"
                         THEN [inflight EXCEPT ![job.tx] = [kind |-> job.kind, used |-> U,
                                                            offered |-> job.offered]]
                         ELSE inflight
    BY <1>3, <1>4
<1>6. start \in Index /\ start >= derived /\ start \in Nat
    BY <1>2, <1>5, SendAssumptions DEF IInv, CountersOK, Maximum, Index
<1>7. /\ U \subseteq job.offered /\ U \subseteq Proof
      /\ job.kind = "send" => Covers(job.tx, U)
      /\ job.kind = "revert" => U = job.used
    BY <1>1, <1>2, <1>4 DEF CallJob, Calling
<1>8. /\ job' \in CallJob /\ job'.pc = "wait" /\ job'.answer = "none"
      /\ job'.kind = job.kind /\ job'.tx = job.tx /\ job'.row = job.row
      /\ job'.offered = job.offered /\ job'.healed = job.healed
      /\ job'.used = U /\ job'.index = start
    BY <1>1, <1>5, <1>6, <1>7 DEF CallJob
<1>9. \A t \in Send : t # job.tx => inflight'[t] = inflight[t]
    BY <1>5 DEF IInv, RequestsOK
<1>10. job.kind \in {"send", "revert"}
    BY <1>1, <1>2 DEF Calling
<1>11. QED
    BY <1>1, <1>2, <1>3, <1>5, <1>6, <1>7, <1>8, <1>9, <1>10

LEMMA CallMintCalm ==
    ASSUME IInv, CalmInv, CallMint
    PROVE  CalmInv'
<1>1. /\ job \in CallJob /\ job' \in CallJob /\ job.kind \in {"send", "revert"}
      /\ job.pc = "call" /\ job'.pc = "wait" /\ job'.answer = "none"
      /\ job'.kind = job.kind /\ job'.tx = job.tx /\ job'.row = job.row
      /\ job'.offered = job.offered /\ ~job'.healed
      /\ job'.used \subseteq job.offered
      /\ job.kind = "send" => Covers(job.tx, job'.used)
      /\ job.kind = "revert" => job'.used = job.used
      /\ job'.index \in Index /\ job'.index >= derived /\ derived' = job'.index + 1
      /\ net' = net \cup {Wire(job')}
      /\ \A t \in Send : t # job.tx => inflight'[t] = inflight[t]
    BY CallMintShape
<1>2. UNCHANGED <<disk, rows, phase, mintSpent, signed, cache>>
    BY CallMintShape DEF storeVars
<1>3. Locking /\ ~Waiting /\ ~Asking /\ ~Taken /\ Locking' /\ Waiting' /\ Asking' /\ ~Taken' /\ ~Told'
    BY <1>1 DEF Locking, Waiting, Asking, Taken, Told, Calling
<1>4. /\ rows = {job.row} /\ net = {} /\ phase = "up"
      /\ \A u \in Send : inflight[u] = NoRequest
      /\ \A p \in DOMAIN job.row.locked : job.row.locked[p].state \in {"UNSPENT", "PENDING"}
      /\ job.kind = "revert" => job.used = job.offered /\ Worth(job.used) <= BaseWorth
    BY <1>1, <1>3 DEF CalmInv, OneCallOnly, CallIsNew, SpentIsSpent, Calling
<1>5. OneCallOnly'
    BY <1>1, <1>2, <1>3, <1>4 DEF OneCallOnly
<1>6. Worth(job'.used) <= BaseWorth
    <2>1. job'.used \in SUBSET Proof /\ job.tx \in Send
        BY <1>1 DEF CallJob
    <2>2. CASE job.kind = "send"
        BY <1>1, <2>1, <2>2, CoverIsSmall
    <2>3. CASE job.kind = "revert"
        BY <1>1, <1>4, <2>3
    <2>4. QED
        BY <1>1, <2>2, <2>3
<1>7. Outputs(job') \subseteq Index \X Slots
    BY <1>1, <1>6, OutputsFit
<1>8. MintBelow(derived)' /\ MintBelow(job.index)'
    <2>1. /\ \A p \in signed : p[1] < derived /\ p[1] \in Nat
          /\ \A q \in cache : q.index < derived /\ q.index \in Nat
          /\ derived \in Nat /\ job'.index \in Nat
        BY <1>1 DEF CalmInv, CallIsNew, MintBelow, Index, IInv, CountersOK
    <2>2. \A n \in Nat : n < derived => n < job'.index /\ n < derived'
        BY <1>1, <2>1
    <2>3. QED
        BY <1>2, <2>1, <2>2 DEF MintBelow
<1>9. CallIsNew'
    <2>1. signed' \subseteq Index \X Slots /\ \A q \in cache' : q.index \in Nat
        BY <1>2 DEF CalmInv, CallIsNew
    <2>2. derived' >= 1
        BY <1>1 DEF Index
    <2>3. QED
        BY <1>1, <1>4, <1>6, <1>7, <1>8, <2>1, <2>2 DEF CallIsNew
<1>10. SpentIsSpent'
    BY <1>1, <1>3, <1>4 DEF SpentIsSpent
<1>11. Kept'
    BY <1>2, <1>3, KeptStays DEF CalmInv
<1>12. QED
    BY <1>5, <1>9, <1>10, <1>11 DEF CalmInv

\* The only request is the task's, and the mint either takes its inputs or calls them spent.
LEMMA MintAnswersShape ==
    ASSUME IInv, CalmInv, NEW q \in net, NEW a, MintAnswers(q, a)
    PROVE  /\ Asking /\ q = Wire(job) /\ net' = {} /\ job \in CallJob /\ job' \in CallJob
           /\ job.kind \in {"send", "revert"}
           /\ job' = [job EXCEPT !.answer = a] /\ a \in {"ok", "spent"}
           /\ a = "spent" => /\ job.used \cap mintSpent # {}
                             /\ UNCHANGED <<mintSpent, signed, cache>>
           /\ a = "ok" => /\ job.used \cap mintSpent = {}
                          /\ mintSpent' = mintSpent \cup job.used
                          /\ signed' = signed \cup Outputs(job)
                          /\ cache' \subseteq cache \cup {q}
<1>1. /\ Asking /\ net = {Wire(job)} /\ job.kind # "retry"
    BY DEF CalmInv, OneCallOnly
<1>2. /\ q = Wire(job) /\ net' = {} /\ job.kind \in Calling /\ job.pc = "wait"
      /\ q.index = job.index /\ q.used = job.used /\ Outputs(q) = Outputs(job)
    BY <1>1 DEF MintAnswers, Asking, Waiting, Wire, Outputs
<1>3. job \in CallJob
    BY <1>2, CallingJob DEF IInv
<1>4. MintBelow(job.index) /\ signed \subseteq Index \X Slots /\ job.index \in Nat
    BY <1>1, <1>3 DEF CalmInv, CallIsNew, CallJob
<1>5. Outputs(q) \cap signed = {}
    <2>1. ASSUME NEW p \in Outputs(q), p \in signed
          PROVE  FALSE
        <3>1. p[1] = job.index
            BY <1>2 DEF Outputs
        <3>2. p[1] < job.index
            BY <1>4, <2>1 DEF MintBelow
        <3>3. QED
            BY <3>1, <3>2, <1>4
    <2>2. QED
        BY <2>1
<1>6. q \notin cache
    BY <1>2, <1>4 DEF MintBelow
<1>7. /\ a \in Answers(q)
      /\ a = "ok" => /\ mintSpent' = mintSpent \cup q.used
                     /\ signed' = signed \cup Outputs(q)
                     /\ cache' \subseteq cache \cup {q}
      /\ a # "ok" => UNCHANGED <<mintSpent, signed, cache>>
      /\ job' = [job EXCEPT !.answer = a]
    BY <1>2 DEF MintAnswers
<1>8. \/ a = "ok" /\ q.used \cap mintSpent = {}
      \/ a = "spent" /\ q.used \cap mintSpent # {}
    BY <1>5, <1>6, <1>7 DEF Answers
<1>9. job' \in CallJob
    BY <1>3, <1>7, <1>8 DEF CallJob
<1>10. job.kind \in {"send", "revert"}
    BY <1>1, <1>2 DEF Calling
<1>11. QED
    BY <1>1, <1>2, <1>3, <1>7, <1>8, <1>9, <1>10

LEMMA MintAnswersCalm ==
    ASSUME IInv, CalmInv, NEW q \in net, NEW a, MintAnswers(q, a)
    PROVE  CalmInv'
<1>1. /\ Asking /\ q = Wire(job) /\ net' = {} /\ job \in CallJob /\ job' \in CallJob
      /\ job' = [job EXCEPT !.answer = a] /\ a \in {"ok", "spent"}
      /\ a = "spent" => UNCHANGED <<mintSpent, signed, cache>>
      /\ a = "ok" => /\ mintSpent' = mintSpent \cup job.used
                     /\ signed' = signed \cup Outputs(job)
                     /\ cache' \subseteq cache \cup {q}
    BY MintAnswersShape
<1>2. UNCHANGED <<disk, rows, inflight, derived, counter, phase>>
    BY DEF MintAnswers, storeVars, counterVars
<1>3. /\ job'.kind = job.kind /\ job'.pc = job.pc /\ job'.tx = job.tx /\ job'.row = job.row
      /\ job'.used = job.used /\ job'.offered = job.offered /\ job'.index = job.index
      /\ job'.healed = job.healed /\ job'.answer = a
    BY <1>1 DEF CallJob
<1>4. /\ Locking' = Locking /\ Locking /\ Waiting /\ Waiting' /\ ~Asking' /\ ~Taken /\ ~Told'
      /\ Taken' <=> a = "ok"
    BY <1>1, <1>3 DEF Locking, Waiting, Asking, Taken, Told
<1>5. Outputs(job') = Outputs(job)
    BY <1>3 DEF Outputs
<1>6. OneCallOnly'
    BY <1>1, <1>2, <1>3, <1>4 DEF CalmInv, OneCallOnly
<1>7. CallIsNew'
    <2>1. /\ derived = job.index + 1 /\ Outputs(job) \subseteq Index \X Slots /\ job.index \in Nat
          /\ MintBelow(derived) /\ signed \subseteq Index \X Slots
          /\ \A r \in cache : r.index \in Nat
        BY <1>1, <1>4 DEF CalmInv, CallIsNew, CallJob, Waiting, Asking
    <2>2. \A p \in Outputs(job) : p[1] = job.index
        BY DEF Outputs
    <2>3. q.index = job.index
        BY <1>1 DEF Wire
    <2>4. /\ signed' \subseteq signed \cup Outputs(job)
          /\ cache' \subseteq cache \cup {q}
        BY <1>1
    <2>5. job.index < derived
        BY <2>1
    <2>6. MintBelow(derived)'
        BY <1>2, <2>1, <2>2, <2>3, <2>4, <2>5 DEF MintBelow
    <2>7. signed' \subseteq Index \X Slots /\ \A r \in cache' : r.index \in Nat
        BY <2>1, <2>3, <2>4
    <2>8. /\ derived >= 1 /\ job.kind \in Calling
          /\ ~job.healed
          /\ job.kind = "revert" => job.used = job.offered /\ Worth(job.used) <= BaseWorth
          /\ job.pc = "wait"
        BY <1>4 DEF CalmInv, CallIsNew, Waiting
    <2> HIDE <1>1
    <2>9. a # "signed"
        BY <1>1
    <2>10. QED
        BY <1>2, <1>3, <1>4, <1>5, <2>1, <2>6, <2>7, <2>8, <2>9 DEF CallIsNew
<1>8. SpentIsSpent'
    BY <1>1, <1>3, <1>4 DEF CalmInv, SpentIsSpent
<1>9. Kept'
    <2>1. ASSUME NEW p \in (Base \cup signed') \ mintSpent'
          PROVE  disk'[p].state \in {"UNSPENT", "PENDING"} \/ (Taken' /\ p \in Outputs(job'))
        <3>1. CASE p \in Base \cup signed
            BY <1>1, <1>2, <1>4, <2>1, <3>1 DEF CalmInv, Kept
        <3>2. CASE p \notin Base \cup signed
            BY <1>1, <1>4, <1>5, <2>1, <3>2
        <3>3. QED
            BY <3>1, <3>2
    <2>2. QED
        BY <2>1 DEF Kept
<1>10. QED
    BY <1>6, <1>7, <1>8, <1>9 DEF CalmInv

LEMMA AcceptCalm ==
    ASSUME IInv, CalmInv, Accept
    PROVE  CalmInv'
<1>1. /\ job \in CallJob /\ job.kind \in Calling /\ job.pc = "wait" /\ job.answer = "ok"
      /\ inflight' = [inflight EXCEPT ![job.tx] = NoRequest]
      /\ job' = [job EXCEPT !.pc = "commit"]
      /\ UNCHANGED <<disk, rows, derived, phase, net, mintSpent, signed, cache>>
    BY CallingJob DEF Accept, IInv, storeVars, mintVars
<1>2. /\ job'.kind = job.kind /\ job'.pc = "commit" /\ job'.tx = job.tx /\ job'.row = job.row
      /\ job'.used = job.used /\ job'.offered = job.offered /\ job'.index = job.index
      /\ job'.healed = job.healed
    BY <1>1 DEF CallJob
<1>3. /\ Locking /\ Locking' /\ Waiting /\ ~Waiting' /\ ~Asking /\ ~Asking' /\ Taken /\ Taken'
      /\ ~Told'
    BY <1>1, <1>2 DEF Locking, Waiting, Asking, Taken, Told
<1>4. Outputs(job') = Outputs(job)
    BY <1>2 DEF Outputs
<1>5. \A u \in Send : inflight'[u] = NoRequest
    BY <1>1, <1>3 DEF CalmInv, OneCallOnly, IInv, RequestsOK
<1>6. OneCallOnly'
    BY <1>1, <1>2, <1>3, <1>5 DEF CalmInv, OneCallOnly
<1>7. CallIsNew'
    BY <1>1, <1>2, <1>3, <1>4 DEF CalmInv, CallIsNew, MintBelow
<1>8. SpentIsSpent'
    BY <1>1, <1>2, <1>3 DEF CalmInv, SpentIsSpent
<1>9. Kept'
    BY <1>1, <1>3, <1>4, KeptStays DEF CalmInv
<1>10. QED
    BY <1>6, <1>7, <1>8, <1>9 DEF CalmInv

\* A commit writes off inputs the mint took and stores every output.
LEMMA CommitCalm ==
    ASSUME IInv, CalmInv, job.kind \in Calling, job.pc = "commit",
           NEW A \in SUBSET job.used, Commit(job.row, A, {}, NewProofs(job)), job' = Idle,
           UNCHANGED <<inflight, derived, phase, net, signed, cache, mintSpent>>
    PROVE  CalmInv'
<1>1. Taken /\ Locking /\ ~Asking /\ ~Waiting
    BY DEF Taken, Locking, Asking, Waiting
<1>2. /\ job.used \subseteq mintSpent /\ rows = {job.row} /\ net = {} /\ phase = "up"
      /\ \A u \in Send : inflight[u] = NoRequest
    BY <1>1 DEF CalmInv, OneCallOnly, SpentIsSpent
<1>3. /\ rows' = rows \ {job.row}
      /\ disk' = [p \in Proof |-> IF p \in DOMAIN NewProofs(job) THEN NewProofs(job)[p]
                                  ELSE Move(Move(disk, A, "SPENT"), {}, "UNSPENT")[p]]
    BY DEF Commit
<1>4. ASSUME NEW p \in Proof, p \in Outputs(job)
      PROVE  disk'[p].state \in {"UNSPENT", "PENDING"}
    <2>1. p \in DOMAIN NewProofs(job) /\ NewProofs(job)[p].state \in {"UNSPENT", "PENDING"}
        BY <1>4 DEF NewProofs, Held
    <2>2. QED
        BY <1>3, <2>1
<1>5. ASSUME NEW p \in Proof, p \notin mintSpent, disk[p].state \in {"UNSPENT", "PENDING"}
      PROVE  disk'[p].state \in {"UNSPENT", "PENDING"}
    <2>1. CASE p \in DOMAIN NewProofs(job)
        <3>1. NewProofs(job)[p].state \in {"UNSPENT", "PENDING"}
            BY <2>1 DEF NewProofs, Held
        <3>2. QED
            BY <1>3, <2>1, <3>1
    <2>2. CASE p \notin DOMAIN NewProofs(job)
        <3>1. p \notin A
            BY <1>2, <1>5
        <3>2. Move(Move(disk, A, "SPENT"), {}, "UNSPENT")[p] = disk[p]
            BY <3>1 DEF Move
        <3>3. QED
            BY <1>3, <1>5, <2>2, <3>2
    <2>3. QED
        BY <2>1, <2>2
<1>6. ~Taken' /\ ~Told' /\ job'.kind \notin Calling
    BY DEF Taken, Told, Idle, Calling
<1>7. Kept'
    <2>1. ASSUME NEW p \in (Base \cup signed) \ mintSpent
          PROVE  disk'[p].state \in {"UNSPENT", "PENDING"}
        BY <1>4, <1>5, <2>1, OwnEcash DEF CalmInv, Kept
    <2>2. QED
        BY <2>1 DEF Kept
<1>8. rows' = {}
    BY <1>2, <1>3
<1>9. QED
    BY <1>2, <1>6, <1>7, <1>8, NoCallCalm DEF CalmInv

LEMMA CommitTaskCalm ==
    ASSUME IInv, CalmInv, CommitSend \/ CommitRevert
    PROVE  CalmInv'
<1>1. /\ job.kind \in Calling /\ job.pc = "commit" /\ job' = Idle /\ job.kind # "retry"
      /\ UNCHANGED <<inflight, derived, phase, net, signed, cache, mintSpent>>
    BY DEF CommitSend, CommitRevert, Calling, mintVars, CalmInv, OneCallOnly
<1>2. CASE CommitSend
    <2>1. job.kind = "send"
        BY <1>1, <1>2 DEF CommitSend
    <2>2. Commit(job.row, job.used, {}, NewProofs(job))
        BY <1>2, <2>1 DEF CommitSend, CommitWithCounter
    <2>3. QED
        BY <1>1, <2>2, CommitCalm
<1>3. CASE CommitRevert
    <2>1. job.kind = "revert" /\ Commit(job.row, job.offered, {}, NewProofs(job))
        BY <1>3 DEF CommitRevert, CommitWithCounter
    <2>2. job.used = job.offered
        BY <1>1, <2>1 DEF CalmInv, CallIsNew
    <2>3. QED
        BY <1>1, <2>1, <2>2, CommitCalm
<1>4. QED
    BY <1>2, <1>3

\* Handing the locked proofs out as they are moves nothing.
LEMMA ExecuteWithoutSwapStore ==
    ASSUME IInv, ExecuteWithoutSwap
    PROVE  disk' = disk /\ mem' = mem /\ rows' = rows \ {job.row}
<1>1. Commit(job.row, {}, {}, <<>>)
    BY DEF ExecuteWithoutSwap
<1>2. DOMAIN <<>> = {}
    OBVIOUS
<1>3. /\ disk \in [Proof -> ProofRec \cup {Absent}] /\ mem \in [Proof -> ProofRec \cup {Absent}]
    BY DEF IInv, StoreOK
<1>4. \A p \in Proof : /\ Move(Move(disk, {}, "SPENT"), {}, "UNSPENT")[p] = disk[p]
                       /\ Move(Move(mem, {}, "SPENT"), {}, "UNSPENT")[p] = mem[p]
    BY DEF Move
<1>5. /\ disk' = [p \in Proof |-> Move(Move(disk, {}, "SPENT"), {}, "UNSPENT")[p]]
      /\ mem' = [p \in Proof |-> Move(Move(mem, {}, "SPENT"), {}, "UNSPENT")[p]]
    BY <1>1, <1>2 DEF Commit
<1>6. QED
    BY <1>1, <1>3, <1>4, <1>5 DEF Commit

LEMMA ExecuteWithoutSwapCalm ==
    ASSUME IInv, CalmInv, ExecuteWithoutSwap
    PROVE  CalmInv'
<1>1. /\ job.kind = "send" /\ job.pc = "prepared" /\ job' = Idle
      /\ UNCHANGED <<inflight, derived, phase, net, signed, cache, mintSpent>>
    BY DEF ExecuteWithoutSwap, counterVars, mintVars
<1>2. Locking /\ ~Waiting /\ ~Asking /\ ~Taken /\ ~Told' /\ job'.kind \notin Calling
    BY <1>1 DEF Locking, Waiting, Asking, Taken, Told, Idle, Calling
<1>3. disk' = disk /\ rows' = rows \ {job.row}
    BY ExecuteWithoutSwapStore
<1>4. rows' = {} /\ net = {} /\ phase = "up" /\ \A u \in Send : inflight[u] = NoRequest
    BY <1>2, <1>3 DEF CalmInv, OneCallOnly
<1>5. Kept'
    BY <1>1, <1>2, <1>3, KeptStays DEF CalmInv
<1>6. QED
    BY <1>1, <1>2, <1>4, <1>5, NoCallCalm DEF CalmInv

------------------------------------------------------------------------------
(* While nothing is lost, nothing is stranded.                             *)

LEMMA CalmInit == Init => FaultsOK /\ CalmInv
<1> SUFFICES ASSUME Init PROVE FaultsOK /\ CalmInv
    OBVIOUS
<1>1. FaultsOK
    BY DEF Init, FaultsOK
<1>2. ~Locking /\ ~Waiting /\ ~Asking /\ ~Taken /\ ~Told /\ job.kind \notin Calling
      /\ job.kind # "retry"
    BY DEF Init, Idle, Locking, Waiting, Asking, Taken, Told, Calling
<1>3. OneCallOnly
    BY <1>2 DEF Init, OneCallOnly
<1>4. CallIsNew
    BY <1>2 DEF Init, CallIsNew, MintBelow
<1>5. SpentIsSpent
    BY <1>2 DEF SpentIsSpent
<1>6. Kept
    BY SendAssumptions DEF Init, Kept, Held
<1>7. QED
    BY <1>1, <1>3, <1>4, <1>5, <1>6 DEF CalmInv

LEMMA CalmStep ==
    ASSUME IInv, CalmInv, [Next]_vars, ~Crash, ~Lost
    PROVE  CalmInv'
<1>1. ASSUME NEW t \in Send, AskSend(t) \/ AskRevert(t) \/ Claim(t) \/ RefuseSend(t)
      PROVE  CalmInv'
    <2>1. /\ UNCHANGED <<storeVars, inflight, counterVars, job, phase, net, signed, cache>>
          /\ mintSpent \subseteq mintSpent'
        BY <1>1 DEF AskSend, AskRevert, Claim, RefuseSend, mintVars
    <2>2. QED
        BY <2>1, UnrelatedCalm
<1>2. ASSUME NEW t \in Send, StartSend(t) \/ StartRevert(t)
      PROVE  CalmInv'
    BY <1>2, StartSendCalm, StartRevertCalm
<1>3. ASSUME NEW t \in Send, SweepDrop(t) \/ SweepRetry(t)
      PROVE  FALSE
    <2>1. inflight[t] # NoRequest /\ job = Idle
        BY <1>3 DEF SweepDrop, SweepRetry, Ready
    <2>2. QED
        BY <2>1, NoCallNoLock DEF CalmInv, Idle, Calling
<1>4. CASE SyncPending \/ SyncUnspent
    BY <1>4, StartSyncCalm DEF SyncPending, SyncUnspent
<1>5. CASE SendSteps
    BY <1>5, SelectCalm, PreparedCalm, ExecuteWithoutSwapCalm DEF SendSteps
<1>6. CASE CallSteps
    BY <1>6, CallMintCalm, AcceptCalm, RefusedCalm, CommitTaskCalm, UndoCalm, SettledCalm
    DEF CallSteps
<1>7. CASE SyncSteps
    BY <1>7, CheckCalm, WriteOffCalm, ReleaseCalm, SettledCalm, SettleTxCalm DEF SyncSteps
<1>8. CASE MintSteps
    BY <1>8, MintAnswersCalm DEF MintSteps
<1>9. ~Restart
    BY DEF Restart, Load, Recovered, RecoverOrphan, CalmInv, OneCallOnly
<1>10. CASE UNCHANGED vars
    <2>1. /\ UNCHANGED <<storeVars, inflight, counterVars, job, phase, net, signed, cache>>
          /\ mintSpent \subseteq mintSpent'
        BY <1>10 DEF vars, sendVars, counterVars
    <2>2. QED
        BY <2>1, UnrelatedCalm
<1>11. QED
    BY <1>1, <1>2, <1>3, <1>4, <1>5, <1>6, <1>7, <1>8, <1>9, <1>10 DEF Next

\* While nothing is lost the running task has the only reservation and the only request,
\* what is written off is spent, and the ecash is in the table.
THEOREM CalmInvariance == Spec => [](FaultsOK /\ (Calm => CalmInv))
<1>1. Init => FaultsOK /\ (Calm => CalmInv)
    BY CalmInit
<1>2. ASSUME IInv, FaultsOK /\ (Calm => CalmInv), [Next]_vars
      PROVE  (FaultsOK /\ (Calm => CalmInv))'
    <2>1. FaultsOK' /\ (Calm' => Calm /\ ~Crash /\ ~Lost)
        BY <1>2, CalmBefore
    <2>2. Calm' => CalmInv'
        BY <1>2, <2>1, CalmStep
    <2>3. QED
        BY <2>1, <2>2
<1>3. QED
    BY <1>1, <1>2, Invariance, PTL DEF Spec

\* As long as no process died and no answer was lost, no ecash is lost and no reservation
\* outlives its task, whatever the mint refuses, the payees redeem in part and the counter
\* writes that fail do (proofReservation.ts 9-12).
THEOREM NothingIsStranded == Spec => [](Calm => NothingStranded)
<1>1. ASSUME CalmInv, Quiet
      PROVE  /\ rows = {}
             /\ \A p \in (Base \cup signed) \ mintSpent : disk[p].state \in {"UNSPENT", "PENDING"}
    <2>1. job.kind \notin Calling /\ ~Taken
        BY <1>1 DEF Quiet, Idle, Calling, Taken
    <2>2. QED
        BY <1>1, <2>1, NoCallNoLock DEF CalmInv, Kept
<1>2. (FaultsOK /\ (Calm => CalmInv)) => (Calm => NothingStranded)
    BY <1>1 DEF NothingStranded
<1>3. QED
    BY <1>2, CalmInvariance, PTL

------------------------------------------------------------------------------
(* And while payees redeem whole tokens and picks are fresh.               *)

\* A set of proofs that holds the tokens it touches, and nothing else.
Whole(S) == \A p \in S : \E t \in Send : p \in token[t] /\ token[t] \subseteq S

\* What the user asked for.
AskedRec == {Nothing} \cup [want : {"revert"}] \cup [want : {"send"}, picked : SUBSET Proof]

TablesOK ==
    /\ status \in [Tx -> Status] /\ token \in [Send -> SUBSET Proof]
    /\ asked \in [Send -> AskedRec]

StoreTrue ==
    /\ mem = disk
    /\ mintSpent \subseteq Live /\ claimed \subseteq mintSpent
    /\ Having(mem, "UNSPENT") \cap mintSpent = {}
    /\ \A p \in Having(mem, "PENDING") :
          \/ mem[p].tx \in Send /\ p \in token[mem[p].tx]
          \/ Locking /\ job.kind = "send" /\ p \in job.offered /\ mem[p].tx = job.tx
    /\ \A t \in Send : \A p \in token[t] :
          p \in Proof /\ mem[p].state \in {"PENDING", "SPENT"} /\ mem[p].tx = t

\* A token is worth its send, is held or written off as a whole, and was redeemed or
\* reclaimed as a whole.
TokensWhole ==
    \A t \in Send :
        /\ token[t] # {} => Worth(token[t]) = Amount[t]
        /\ \/ token[t] \subseteq Having(mem, "PENDING")
           \/ token[t] \subseteq Having(mem, "SPENT") /\ token[t] \subseteq mintSpent
        /\ \/ token[t] \cap mintSpent = {}
           \/ token[t] \subseteq claimed
           \/ /\ token[t] \subseteq mintSpent /\ token[t] \cap claimed = {}
              /\ status[t] = "REVERTED" \/ (Taken /\ job.kind = "revert" /\ job.tx = t)

StatusTrue ==
    \A t \in Send :
        /\ status[t] \in {"none", "DRAFT", "PREPARED", "EXECUTING"} => token[t] = {}
        /\ status[t] = "COMPLETED" => token[t] # {} /\ token[t] \subseteq claimed
        /\ status[t] = "REVERTED" => token[t] \cap claimed = {} /\ token[t] \subseteq mintSpent
        /\ asked[t].want = "send" /\ t \in Offline => Worth(asked[t].picked) = Amount[t]
        /\ asked[t].want = "revert" => status[t] # "REVERTED"

SendTrue ==
    job.kind = "send" =>
        /\ status[job.tx] \in {"DRAFT", "PREPARED", "EXECUTING"}
        /\ job.pc \notin {"undo", "failed"} /\ job.answer # "spent"
        /\ job.pc = "select" => asked[job.tx].want = "send"
        /\ Locking =>
              /\ \A p \in job.offered : mem[p] = Held("PENDING", job.tx)
              /\ job.offered \cap mintSpent = IF Taken THEN job.used ELSE {}
              /\ job.offered \cap claimed = {}
              /\ ~NeedsSwap(job.tx, job.offered) => Worth(job.offered) = Amount[job.tx]
        /\ job.pc \in {"wait", "commit"} =>
              /\ Outputs(job) \cap Live = {} /\ PayeePart(job) \subseteq Outputs(job)
              /\ job.used \subseteq job.offered

RevertTrue ==
    job.kind = "revert" =>
        /\ status[job.tx] # "REVERTED" /\ asked[job.tx].want # "revert"
        /\ Locking =>
              /\ job.offered = token[job.tx] /\ job.offered # {}
              /\ job.row.locked = [p \in job.offered |-> Held("PENDING", job.tx)]
              /\ token[job.tx] \subseteq Having(mem, "PENDING")
              /\ Taken => job.used \cap claimed = {}
        /\ job.pc \in {"wait", "commit"} => Outputs(job) \cap Live = {}

SyncTrue ==
    /\ \A w \in watches : Whole(w)
    /\ job.kind = "sync" =>
          /\ job.pc = "check" => Whole(job.batch) \/ job.batch \subseteq Having(mem, "UNSPENT")
          /\ Told => Whole(job.spent) /\ job.pc # "release"
          /\ job.pc = "settle" => /\ job.spent \subseteq Having(mem, "SPENT")
                                  /\ job.todo \subseteq {mem[p].tx : p \in job.spent}

HonestInv == TablesOK /\ StoreTrue /\ TokensWhole /\ StatusTrue /\ SendTrue /\ RevertTrue /\ SyncTrue

\* What a step that only moves the task on leaves.
LEMMA StoreFrame ==
    ASSUME StoreTrue, UNCHANGED <<disk, mem, token, mintSpent, claimed>>,
           Locking /\ job.kind = "send" => /\ Locking' /\ job'.kind = "send"
                                           /\ job'.offered = job.offered /\ job'.tx = job.tx
    PROVE  StoreTrue'
<1>1. Live' = Live
    BY DEF Live
<1>2. QED
    BY <1>1 DEF StoreTrue, Having

LEMMA TokensFrame ==
    ASSUME TokensWhole, UNCHANGED <<mem, token, mintSpent, claimed>>,
           \A t \in Send : status[t] = "REVERTED" => status'[t] = "REVERTED",
           Taken /\ job.kind = "revert" => Taken' /\ job'.kind = "revert" /\ job'.tx = job.tx
    PROVE  TokensWhole'
BY DEF TokensWhole, Having

LEMMA WatchesFrame ==
    ASSUME SyncTrue, UNCHANGED <<token, watches>>, job'.kind # "sync"
    PROVE  SyncTrue'
BY DEF SyncTrue, Whole

\* While no send holds a lock, what is pending are the tokens, each of them whole.
LEMMA PendingIsTokens ==
    StoreTrue /\ TokensWhole /\ ~(Locking /\ job.kind = "send")
        => /\ \A p \in Having(mem, "PENDING") :
                 /\ mem[p].tx \in Send /\ p \in token[mem[p].tx]
                 /\ token[mem[p].tx] \subseteq Having(mem, "PENDING")
           /\ Whole(Having(mem, "PENDING"))
<1> SUFFICES ASSUME StoreTrue, TokensWhole, ~(Locking /\ job.kind = "send"),
                    NEW p \in Having(mem, "PENDING")
             PROVE  /\ mem[p].tx \in Send /\ p \in token[mem[p].tx]
                    /\ token[mem[p].tx] \subseteq Having(mem, "PENDING")
    BY DEF Whole
<1>1. mem[p].tx \in Send /\ p \in token[mem[p].tx]
    BY DEF StoreTrue
<1>2. mem[p].state = "PENDING"
    BY DEF Having
<1>3. p \notin Having(mem, "SPENT")
    BY <1>2 DEF Having
<1>4. token[mem[p].tx] \subseteq Having(mem, "PENDING")
    BY <1>1, <1>3 DEF TokensWhole
<1>5. QED
    BY <1>1, <1>4

LEMMA TokensApart ==
    ASSUME StoreTrue, NEW t \in Send, NEW u \in Send, t # u
    PROVE  token[t] \cap token[u] = {}
BY DEF StoreTrue

------------------------------------------------------------------------------
(* Honest payees and fresh picks: the user and the payees.                 *)

\* A job the step leaves alone, while the user asks.
LEMMA AskHonest ==
    ASSUME HonestInv, NEW t \in Send, NEW r \in AskedRec,
           asked' = [asked EXCEPT ![t] = r],
           UNCHANGED <<storeVars, status, token, job, watches, mintSpent, claimed>>,
           r.want = "send" /\ t \in Offline => Worth(r.picked) = Amount[t],
           r.want = "revert" => status[t] # "REVERTED" /\ ~(job.kind = "revert" /\ job.tx = t),
           ~(job.kind = "send" /\ job.tx = t)
    PROVE  HonestInv'
<1>1. TablesOK'
    BY DEF HonestInv, TablesOK
<1>2. UNCHANGED <<disk, mem>>
    BY DEF storeVars
<1>3. /\ Locking' = Locking /\ Taken' = Taken /\ Told' = Told
      /\ Outputs(job)' = Outputs(job) /\ PayeePart(job)' = PayeePart(job) /\ Live' = Live
    BY <1>2 DEF Locking, Taken, Told, Outputs, PayeePart, Live
<1>4. StoreTrue' /\ TokensWhole'
    BY <1>2, <1>3, StoreFrame, TokensFrame DEF HonestInv
<1>5. StatusTrue'
    BY DEF HonestInv, StatusTrue, TablesOK
<1>6. SendTrue'
    <2>1. job.kind = "send" => asked'[job.tx] = asked[job.tx]
        BY DEF HonestInv, TablesOK
    <2>2. QED
        BY <1>2, <1>3, <2>1 DEF HonestInv, SendTrue
<1>7. RevertTrue'
    <2>1. job.kind = "revert" /\ job.tx \in Send /\ asked[job.tx].want # "revert"
              => asked'[job.tx].want # "revert"
        BY DEF HonestInv, TablesOK
    <2>2. job.kind = "revert" /\ job.tx \notin Send => asked'[job.tx] = asked[job.tx]
        BY DEF HonestInv, TablesOK
    <2>3. QED
        BY <1>2, <1>3, <2>1, <2>2 DEF HonestInv, RevertTrue, Having
<1>8. SyncTrue'
    BY <1>2, <1>3 DEF HonestInv, SyncTrue, Whole, Having
<1>9. QED
    BY <1>1, <1>4, <1>5, <1>6, <1>7, <1>8 DEF HonestInv

LEMMA AskSendHonest ==
    ASSUME HonestInv, NEW t \in Send, AskSend(t)
    PROVE  HonestInv'
<1>1. PICK S \in IF t \in Offline THEN SUBSET Spendable ELSE {{}} :
          /\ t \in Offline => Worth(S) = Amount[t]
          /\ asked' = [asked EXCEPT ![t] = [want |-> "send", picked |-> S]]
    BY DEF AskSend
<1>2. /\ status[t] = "none"
      /\ UNCHANGED <<storeVars, status, token, job, watches, mintSpent, claimed>>
    BY DEF AskSend, mintVars
<1>3. S \subseteq Proof
    BY <1>1 DEF Spendable, Having
<1>4. [want |-> "send", picked |-> S] \in AskedRec
    BY <1>3 DEF AskedRec
<1>5. ~(job.kind = "send" /\ job.tx = t)
    BY <1>2 DEF HonestInv, SendTrue
<1>6. QED
    BY <1>1, <1>2, <1>4, <1>5, AskHonest

LEMMA AskRevertHonest ==
    ASSUME HonestInv, NEW t \in Send, AskRevert(t)
    PROVE  HonestInv'
<1>1. /\ status[t] = "PENDING" /\ ~(job.kind = "revert" /\ job.tx = t)
      /\ asked' = [asked EXCEPT ![t] = [want |-> "revert"]]
      /\ UNCHANGED <<storeVars, status, token, job, watches, mintSpent, claimed>>
    BY DEF AskRevert, mintVars
<1>2. [want |-> "revert"] \in AskedRec
    BY DEF AskedRec
<1>3. ~(job.kind = "send" /\ job.tx = t)
    BY <1>1 DEF HonestInv, SendTrue
<1>4. QED
    BY <1>1, <1>2, <1>3, AskHonest

LEMMA RefuseSendHonest ==
    ASSUME HonestInv, NEW t \in Send, RefuseSend(t)
    PROVE  HonestInv'
<1>1. /\ job = Idle
      /\ asked' = [asked EXCEPT ![t] = Nothing]
      /\ UNCHANGED <<storeVars, status, token, job, watches, mintSpent, claimed>>
    BY DEF RefuseSend, Ready, mintVars
<1>2. Nothing \in AskedRec /\ Nothing.want = "none" /\ job.kind = "idle"
    BY <1>1 DEF AskedRec, Nothing, Idle
<1>3. QED
    BY <1>1, <1>2, AskHonest

\* A payee redeems a token that nobody has redeemed or reclaimed.
LEMMA ClaimHonest ==
    ASSUME ~PartialClaims, CalmInv, HonestInv, NEW t \in Send, Claim(t)
    PROVE  HonestInv'
<1>1. /\ token[t] # {} /\ token[t] \cap mintSpent = {}
      /\ mintSpent' = mintSpent \cup token[t] /\ claimed' = claimed \cup token[t]
      /\ UNCHANGED <<storeVars, status, token, asked, job, watches>>
    BY DEF Claim, userVars
<1>2. UNCHANGED <<disk, mem>>
    BY <1>1 DEF storeVars
<1>3. /\ Locking' = Locking /\ Taken' = Taken /\ Told' = Told
      /\ Outputs(job)' = Outputs(job) /\ PayeePart(job)' = PayeePart(job) /\ Live' = Live
    BY <1>1, <1>2 DEF Locking, Taken, Told, Outputs, PayeePart, Live
<1>4. token[t] \cap claimed = {}
    BY <1>1 DEF HonestInv, StoreTrue
<1>5. \A u \in Send : u # t => token[u] \cap token[t] = {}
    BY TokensApart DEF HonestInv
<1>6. TablesOK'
    BY <1>1 DEF HonestInv, TablesOK
<1>7. StoreTrue'
    <2>1. \A p \in token[t] : p \in Live /\ p \notin Having(mem, "UNSPENT")
        <3>1. \A p \in token[t] : p \in Proof /\ mem[p].state \in {"PENDING", "SPENT"}
            BY DEF HonestInv, StoreTrue
        <3>2. Absent.state = "none"
            BY DEF Absent, Held
        <3>3. QED
            BY <3>1, <3>2 DEF Live, Having
    <2>2. QED
        BY <1>1, <1>2, <1>3, <2>1 DEF HonestInv, StoreTrue, Having
<1>8. TokensWhole'
    <2>1. ASSUME NEW u \in Send, u # t
          PROVE  /\ token[u] \cap mintSpent' = token[u] \cap mintSpent
                 /\ token[u] \cap claimed' = token[u] \cap claimed
        BY <1>1, <1>5, <2>1
    <2>2. ASSUME NEW u \in Send
          PROVE  /\ token'[u] # {} => Worth(token'[u]) = Amount[u]
                 /\ \/ token'[u] \subseteq Having(mem', "PENDING")
                    \/ token'[u] \subseteq Having(mem', "SPENT") /\ token'[u] \subseteq mintSpent'
        BY <1>1, <1>2 DEF HonestInv, TokensWhole
    <2>3. ASSUME NEW u \in Send
          PROVE  \/ token'[u] \cap mintSpent' = {}
                 \/ token'[u] \subseteq claimed'
                 \/ /\ token'[u] \subseteq mintSpent' /\ token'[u] \cap claimed' = {}
                    /\ status'[u] = "REVERTED" \/ (Taken' /\ job'.kind = "revert" /\ job'.tx = u)
        <3>1. CASE u = t
            BY <1>1, <3>1
        <3>2. CASE u # t
            <4>1. \/ token[u] \cap mintSpent = {}
                  \/ token[u] \subseteq claimed
                  \/ /\ token[u] \subseteq mintSpent /\ token[u] \cap claimed = {}
                     /\ status[u] = "REVERTED" \/ (Taken /\ job.kind = "revert" /\ job.tx = u)
                BY DEF HonestInv, TokensWhole
            <4>2. QED
                BY <1>1, <1>3, <2>1, <3>2, <4>1
        <3>3. QED
            BY <3>1, <3>2
    <2>4. QED
        BY <2>2, <2>3 DEF TokensWhole
<1>9. StatusTrue'
    <2>1. status[t] # "REVERTED"
        BY <1>1 DEF HonestInv, StatusTrue
    <2>2. \A u \in Send : u # t => token[u] \cap claimed' = token[u] \cap claimed
        BY <1>1, <1>5
    <2>3. QED
        BY <1>1, <2>1, <2>2 DEF HonestInv, StatusTrue
<1>10. SendTrue'
    <2>1. ASSUME job.kind = "send", Locking
          PROVE  job.offered \cap token[t] = {}
        <3>1. \A p \in job.offered : mem[p].tx = job.tx
            BY <2>1 DEF HonestInv, SendTrue, Held
        <3>2. \A p \in token[t] : mem[p].tx = t
            BY DEF HonestInv, StoreTrue
        <3>3. job.tx # t
            BY <1>1, <2>1 DEF HonestInv, SendTrue, StatusTrue
        <3>4. QED
            BY <3>1, <3>2, <3>3
    <2>2. job.kind = "send" /\ Locking => /\ job.offered \cap mintSpent' = job.offered \cap mintSpent
                                          /\ job.offered \cap claimed' = job.offered \cap claimed
        BY <1>1, <2>1
    <2>3. QED
        BY <1>1, <1>2, <1>3, <2>2 DEF HonestInv, SendTrue, NeedsSwap
<1>11. RevertTrue'
    <2>1. Taken => job.used \cap token[t] = {}
        BY <1>1 DEF CalmInv, SpentIsSpent
    <2>2. Taken => job.used \cap claimed' = job.used \cap claimed
        BY <1>1, <2>1
    <2>3. QED
        BY <1>1, <1>2, <1>3, <2>2 DEF HonestInv, RevertTrue, Having
<1>12. SyncTrue'
    BY <1>1, <1>2, <1>3 DEF HonestInv, SyncTrue, Whole, Having
<1>13. QED
    BY <1>6, <1>7, <1>8, <1>9, <1>10, <1>11, <1>12 DEF HonestInv

------------------------------------------------------------------------------
(* Honest payees and fresh picks: up to the call.                          *)

LEMMA StartSendHonest ==
    ASSUME HonestInv, NEW t \in Send, StartSend(t)
    PROVE  HonestInv'
<1>1. /\ job = Idle /\ asked[t].want = "send" /\ status[t] = "none"
      /\ status' = [status EXCEPT ![t] = "DRAFT"]
      /\ job' = Task("send", t, "select", NoRow, {}, {})
      /\ UNCHANGED <<disk, mem, token, asked, watches, mintSpent, claimed>>
    BY DEF StartSend, Ready, storeVars, userVars, mintVars
<1>2. job'.kind = "send" /\ job'.tx = t /\ job'.pc = "select" /\ job'.answer = "none"
    <2>1. job' = Task("send", t, "select", NoRow, {}, {})
        BY <1>1
    <2>2. QED
        BY <2>1, TaskFields
<1>3. ~Locking /\ ~Taken /\ ~Locking' /\ t \in Tx
    BY <1>1, <1>2, SendAssumptions DEF Locking, Taken, Idle, Calling
<1>4. status' \in [Tx -> Status] /\ status'[t] = "DRAFT"
      /\ \A u \in Send : u # t => status'[u] = status[u]
    BY <1>1, <1>3 DEF HonestInv, TablesOK, Status
<1>5. TablesOK'
    BY <1>1, <1>4 DEF HonestInv, TablesOK
<1>6. StoreTrue' /\ TokensWhole' /\ SyncTrue'
    BY <1>1, <1>2, <1>3, <1>4, StoreFrame, TokensFrame, WatchesFrame DEF HonestInv
<1>7. StatusTrue'
    BY <1>1, <1>4 DEF HonestInv, StatusTrue
<1>8. SendTrue' /\ RevertTrue'
    BY <1>1, <1>2, <1>3, <1>4 DEF SendTrue, RevertTrue
<1>9. QED
    BY <1>5, <1>6, <1>7, <1>8 DEF HonestInv

\* What a lock on free proofs does to the two tables.
LEMMA LockFree ==
    ASSUME mem = disk, NEW t, NEW S \in SUBSET Proof, NEW op, NEW back, Reserve(t, op, S, back),
           \A p \in S : mem[p].state # "SPENT", mem \in [Proof -> ProofRec \cup {Absent}]
    PROVE  /\ mem' = disk'
           /\ \A p \in Proof : mem'[p] = IF p \in S THEN Held("PENDING", t) ELSE mem[p]
<1>1. /\ disk' = [p \in Proof |-> IF p \in S THEN Held("PENDING", t) ELSE disk[p]]
      /\ mem'  = [p \in Proof |-> IF p \in S /\ mem[p].state # "SPENT"
                                  THEN Held("PENDING", t) ELSE mem[p]]
    BY DEF Reserve
<1>2. \A p \in Proof : mem'[p] = IF p \in S THEN Held("PENDING", t) ELSE mem[p]
    BY <1>1
<1>3. \A p \in Proof : disk'[p] = mem'[p]
    BY <1>1, <1>2
<1>4. QED
    BY <1>1, <1>2, <1>3

LEMMA SelectHonest ==
    ASSUME IInv, HonestInv, PicksAreFresh, Select
    PROVE  HonestInv'
<1> DEFINE row(S) == RowFor(job.tx, "send", S, "UNSPENT")
<1>1. /\ job \in CallJob /\ job.kind = "send" /\ job.pc = "select" /\ job.tx \in Send
      /\ asked' = [asked EXCEPT ![job.tx] = Nothing]
      /\ UNCHANGED <<status, token, watches, mintSpent, claimed>>
    BY CallingJob DEF Select, IInv, Calling, CallJob, mintVars
<1>2. PICK S \in SUBSET Live :
          /\ Selection(job.tx, S)
          /\ Reserve(job.tx, "send", S, "UNSPENT")
          /\ job' = [job EXCEPT !.pc = "reserved", !.offered = S, !.row = row(S)]
    BY Zenon DEF Select
<1>3. /\ job'.kind = "send" /\ job'.pc = "reserved" /\ job'.offered = S /\ job'.tx = job.tx
      /\ job'.answer = job.answer
    BY <1>1, <1>2 DEF CallJob
<1>4. /\ ~Locking /\ ~Taken /\ Locking' /\ ~Taken'
      /\ asked[job.tx].want = "send" /\ status[job.tx] \in {"DRAFT", "PREPARED", "EXECUTING"}
      /\ token[job.tx] = {} /\ job.answer # "spent"
    BY <1>1, <1>3 DEF Locking, Taken, Calling, HonestInv, SendTrue, StatusTrue
<1>5. S \subseteq Having(mem, "UNSPENT")
    BY <1>1, <1>2 DEF Selection, PicksAreFresh, Spendable
<1>6. \A p \in S : p \in Proof /\ mem[p].state = "UNSPENT"
    BY <1>5 DEF Having
<1>7. /\ S \cap mintSpent = {} /\ S \cap claimed = {}
      /\ \A t \in Send : token[t] \cap S = {}
    BY <1>5, <1>6 DEF HonestInv, StoreTrue
<1>8. /\ mem' = disk'
      /\ \A p \in Proof : mem'[p] = IF p \in S THEN Held("PENDING", job.tx) ELSE mem[p]
    BY <1>2, <1>6, LockFree DEF HonestInv, StoreTrue, IInv, StoreOK
<1>9. /\ Held("PENDING", job.tx) # Absent
      /\ Held("PENDING", job.tx).state = "PENDING" /\ Held("PENDING", job.tx).tx = job.tx
    BY DEF Absent, Held
<1>10. TablesOK'
    BY <1>1 DEF HonestInv, TablesOK, AskedRec
<1>11. /\ Live' = Live /\ Having(mem', "UNSPENT") = Having(mem, "UNSPENT") \ S
       /\ Having(mem', "PENDING") = Having(mem, "PENDING") \cup S
       /\ Having(mem', "SPENT") = Having(mem, "SPENT")
    BY <1>6, <1>8, <1>9 DEF Live, Having
<1>12. \A t \in Send : \A p \in token[t] : p \in Proof /\ mem'[p] = mem[p]
    BY <1>7, <1>8 DEF HonestInv, StoreTrue
<1>13. StoreTrue'
    <2>1. ASSUME NEW p \in Having(mem', "PENDING")
          PROVE  \/ mem'[p].tx \in Send /\ p \in token'[mem'[p].tx]
                 \/ Locking' /\ job'.kind = "send" /\ p \in job'.offered /\ mem'[p].tx = job'.tx
        <3>1. CASE p \in S
            BY <1>3, <1>4, <1>6, <1>8, <1>9, <3>1
        <3>2. CASE p \notin S
            <4>1. p \in Having(mem, "PENDING") /\ mem'[p] = mem[p]
                BY <1>8, <1>11, <2>1, <3>2 DEF Having
            <4>2. mem[p].tx \in Send /\ p \in token[mem[p].tx]
                BY <1>4, <4>1 DEF HonestInv, StoreTrue
            <4>3. QED
                BY <1>1, <4>1, <4>2
        <3>3. QED
            BY <3>1, <3>2
    <2>2. QED
        BY <1>1, <1>8, <1>11, <1>12, <2>1 DEF HonestInv, StoreTrue
<1>14. TokensWhole'
    BY <1>1, <1>4, <1>11 DEF HonestInv, TokensWhole
<1>15. StatusTrue'
    <2>1. asked'[job.tx] = Nothing /\ \A t \in Send : t # job.tx => asked'[t] = asked[t]
        BY <1>1 DEF HonestInv, TablesOK
    <2>2. QED
        BY <1>1, <2>1 DEF HonestInv, StatusTrue, Nothing
<1>16. ~NeedsSwap(job.tx, S) => Worth(S) = Amount[job.tx]
    BY <1>1, <1>2, <1>4 DEF HonestInv, StatusTrue, Selection, NeedsSwap
<1>17. SendTrue'
    <2>1. \A p \in S : mem'[p] = Held("PENDING", job.tx)
        BY <1>6, <1>8
    <2>2. NeedsSwap(job.tx, S) <=> NeedsSwap(job'.tx, job'.offered)
        BY <1>3
    <2>3. NeedsSwap(job.tx, job.offered)' <=> NeedsSwap(job'.tx, job'.offered)
        BY DEF NeedsSwap
    <2>4. QED
        BY <1>1, <1>3, <1>4, <1>7, <1>16, <2>1, <2>2, <2>3 DEF SendTrue
<1>18. RevertTrue' /\ SyncTrue'
    BY <1>1, <1>3, WatchesFrame DEF HonestInv, RevertTrue
<1>19. QED
    BY <1>10, <1>13, <1>14, <1>15, <1>17, <1>18 DEF HonestInv

LEMMA PreparedHonest ==
    ASSUME IInv, HonestInv, Prepared \/ ExecuteWithSwap
    PROVE  HonestInv'
<1>1. PICK s \in {"PREPARED", "EXECUTING"}, pc \in {"prepared", "call"} :
          status' = [status EXCEPT ![job.tx] = s] /\ job' = [job EXCEPT !.pc = pc]
    <2>1. CASE Prepared
        BY <2>1, Zenon DEF Prepared
    <2>2. CASE ExecuteWithSwap
        BY <2>2, Zenon DEF ExecuteWithSwap
    <2>3. QED
        BY <2>1, <2>2
<1>2. /\ job \in CallJob /\ job.kind = "send" /\ job.pc \in {"reserved", "prepared"}
      /\ job.tx \in Send /\ job.tx \in Tx
      /\ UNCHANGED <<disk, mem, token, asked, watches, mintSpent, claimed>>
    BY CallingJob, SendAssumptions
    DEF Prepared, ExecuteWithSwap, IInv, Calling, CallJob, storeVars, userVars, mintVars
<1>3. /\ job'.kind = "send" /\ job'.pc = pc /\ job'.offered = job.offered /\ job'.tx = job.tx
      /\ job'.answer = job.answer /\ job'.used = job.used
    BY <1>1, <1>2 DEF CallJob
<1>4. /\ Locking /\ ~Taken /\ Locking' /\ ~Taken'
      /\ status[job.tx] \in {"DRAFT", "PREPARED", "EXECUTING"}
    BY <1>2, <1>3 DEF Locking, Taken, Calling, HonestInv, SendTrue
<1>5. status' \in [Tx -> Status] /\ status'[job.tx] = s
      /\ \A u \in Send : u # job.tx => status'[u] = status[u]
    BY <1>1, <1>2 DEF HonestInv, TablesOK, Status
<1>6. TablesOK'
    BY <1>2, <1>5 DEF HonestInv, TablesOK
<1>7. StoreTrue' /\ TokensWhole' /\ SyncTrue'
    BY <1>2, <1>3, <1>4, <1>5, StoreFrame, TokensFrame, WatchesFrame DEF HonestInv
<1>8. StatusTrue'
    BY <1>2, <1>4, <1>5 DEF HonestInv, StatusTrue
<1>9. SendTrue'
    <2>1. NeedsSwap(job.tx, job.offered)' <=> NeedsSwap(job.tx, job.offered)
        BY <1>3 DEF NeedsSwap
    <2>2. QED
        BY <1>2, <1>3, <1>4, <1>5, <2>1 DEF HonestInv, SendTrue
<1>10. RevertTrue'
    BY <1>3 DEF RevertTrue
<1>11. QED
    BY <1>6, <1>7, <1>8, <1>9, <1>10 DEF HonestInv

\* The locked proofs become the token as they are.
LEMMA ExecuteWithoutSwapHonest ==
    ASSUME IInv, HonestInv, ExecuteWithoutSwap
    PROVE  HonestInv'
<1>1. /\ job \in CallJob /\ job.kind = "send" /\ job.pc = "prepared" /\ job.tx \in Send
      /\ job.offered \subseteq Proof
      /\ ~NeedsSwap(job.tx, job.offered) /\ job' = Idle
      /\ status' = [status EXCEPT ![job.tx] = "PENDING"]
      /\ token' = [token EXCEPT ![job.tx] = job.offered]
      /\ watches' \subseteq watches \cup {Having(mem', "PENDING")}
      /\ UNCHANGED <<asked, mintSpent, claimed>>
    BY CallingJob DEF ExecuteWithoutSwap, IInv, Calling, CallJob, mintVars
<1>2. UNCHANGED <<disk, mem>>
    BY ExecuteWithoutSwapStore
<1>3. /\ Locking /\ ~Taken /\ ~Locking' /\ ~Taken' /\ job'.kind = "idle"
    BY <1>1 DEF Locking, Taken, Calling, Idle
<1>4. /\ token[job.tx] = {} /\ Worth(job.offered) = Amount[job.tx]
      /\ \A p \in job.offered : mem[p] = Held("PENDING", job.tx)
      /\ job.offered \cap mintSpent = {} /\ job.offered \cap claimed = {}
    BY <1>1, <1>3 DEF HonestInv, SendTrue, StatusTrue
<1>5. \A p \in job.offered : p \in Proof /\ mem[p].state = "PENDING" /\ mem[p].tx = job.tx
    BY <1>1, <1>4 DEF Held
<1>6. job.tx \in Tx
    BY <1>1, SendAssumptions
<1>7. /\ status' \in [Tx -> Status] /\ status'[job.tx] = "PENDING"
      /\ \A u \in Send : u # job.tx => status'[u] = status[u]
      /\ token' \in [Send -> SUBSET Proof] /\ token'[job.tx] = job.offered
      /\ \A u \in Send : u # job.tx => token'[u] = token[u]
    BY <1>1, <1>6 DEF HonestInv, TablesOK, Status
<1>8. TablesOK'
    BY <1>1, <1>7 DEF HonestInv, TablesOK
<1>9. StoreTrue'
    <2>1. Live' = Live
        BY <1>2 DEF Live
    <2>2. ASSUME NEW p \in Having(mem, "PENDING")
          PROVE  mem[p].tx \in Send /\ p \in token'[mem[p].tx]
        <3>1. CASE mem[p].tx \in Send /\ p \in token[mem[p].tx]
            BY <1>4, <1>7, <3>1
        <3>2. CASE p \in job.offered /\ mem[p].tx = job.tx
            BY <1>1, <1>7, <3>2
        <3>3. QED
            BY <2>2, <3>1, <3>2 DEF HonestInv, StoreTrue
    <2>3. ASSUME NEW t \in Send, NEW p \in token'[t]
          PROVE  p \in Proof /\ mem[p].state \in {"PENDING", "SPENT"} /\ mem[p].tx = t
        <3>1. CASE t = job.tx
            BY <1>5, <1>7, <2>3, <3>1
        <3>2. CASE t # job.tx
            BY <1>7, <2>3, <3>2 DEF HonestInv, StoreTrue
        <3>3. QED
            BY <3>1, <3>2
    <2>4. QED
        BY <1>1, <1>2, <2>1, <2>2, <2>3 DEF HonestInv, StoreTrue
<1>10. TokensWhole'
    <2>1. ASSUME NEW t \in Send, t # job.tx
          PROVE  status'[t] = status[t] /\ token'[t] = token[t]
        BY <1>7, <2>1
    <2>2. job.offered \subseteq Having(mem, "PENDING")
        BY <1>5 DEF Having
    <2>3. QED
        BY <1>1, <1>2, <1>3, <1>4, <1>7, <2>1, <2>2 DEF HonestInv, TokensWhole
<1>11. StatusTrue'
    BY <1>1, <1>7 DEF HonestInv, StatusTrue
<1>12. SendTrue' /\ RevertTrue'
    BY <1>3 DEF SendTrue, RevertTrue
<1>13. SyncTrue'
    <2>1. Whole(Having(mem, "PENDING"))'
        BY <1>3, <1>9, <1>10, PendingIsTokens, PTL
    <2>2. ASSUME NEW w \in watches, NEW p \in w
          PROVE  \E t \in Send : p \in token'[t] /\ token'[t] \subseteq w
        <3>1. PICK t \in Send : p \in token[t] /\ token[t] \subseteq w
            BY <2>2 DEF HonestInv, SyncTrue, Whole
        <3>2. t # job.tx
            BY <1>4, <3>1
        <3>3. QED
            BY <1>7, <3>1, <3>2
    <2>3. \A w \in watches' : Whole(w)'
        BY <1>1, <2>1, <2>2 DEF Whole
    <2>4. QED
        BY <1>3, <2>3 DEF SyncTrue
<1>14. QED
    BY <1>8, <1>9, <1>10, <1>11, <1>12, <1>13 DEF HonestInv

------------------------------------------------------------------------------
(* Honest payees and fresh picks: the reclaim, up to its call.             *)

\* Nothing is reclaimed but the whole token, which stays locked as it was.
LEMMA StartRevertHonest ==
    ASSUME IInv, HonestInv, NEW t \in Send, StartRevert(t)
    PROVE  HonestInv'
<1> DEFINE S == PendingOf(t)
           row == RowFor(t, "revert", S, "PENDING")
<1>1. /\ job = Idle /\ asked[t].want = "revert"
      /\ asked' = [asked EXCEPT ![t] = Nothing]
      /\ UNCHANGED <<status, token, watches, mintSpent, claimed>>
      /\ \/ job' = Task("revert", t, "failed", NoRow, {}, {}) /\ UNCHANGED storeVars
         \/ /\ job' = Task("revert", t, "call", row, S, S) /\ S # {}
            /\ Reserve(t, "revert", S, "PENDING")
    BY DEF StartRevert, Ready, mintVars
<1>2. ~Locking /\ ~Taken /\ status[t] # "REVERTED"
    BY <1>1 DEF Idle, Calling, Locking, Taken, HonestInv, StatusTrue
<1>3. asked' \in [Send -> AskedRec] /\ asked'[t].want = "none"
      /\ \A u \in Send : u # t => asked'[u] = asked[u]
    BY <1>1 DEF HonestInv, TablesOK, AskedRec, Nothing
<1>4. TablesOK'
    BY <1>1, <1>3 DEF HonestInv, TablesOK
<1>5. StatusTrue'
    BY <1>1, <1>3 DEF HonestInv, StatusTrue
<1>6. ASSUME job'.kind = "revert", job'.tx = t, UNCHANGED <<disk, mem>>, ~Taken',
             job'.pc = "failed"
             \/ /\ job'.pc = "call" /\ job'.offered = token[t] /\ token[t] # {}
                /\ job'.row.locked = [p \in token[t] |-> Held("PENDING", t)]
                /\ token[t] \subseteq Having(mem, "PENDING")
      PROVE  HonestInv'
    <2>1. StoreTrue' /\ TokensWhole' /\ SyncTrue'
        BY <1>1, <1>2, <1>6, StoreFrame, TokensFrame, WatchesFrame DEF HonestInv
    <2>2. RevertTrue'
        <3>1. status'[t] # "REVERTED" /\ asked'[t].want # "revert"
            BY <1>1, <1>2, <1>3
        <3>2. job'.pc = "failed" => ~Locking'
            BY DEF Locking
        <3>3. QED
            BY <1>1, <1>6, <3>1, <3>2 DEF RevertTrue
    <2>3. SendTrue'
        BY <1>6 DEF SendTrue
    <2>4. QED
        BY <1>4, <1>5, <2>1, <2>2, <2>3 DEF HonestInv
<1>7. CASE job' = Task("revert", t, "failed", NoRow, {}, {}) /\ UNCHANGED storeVars
    <2>1. job'.kind = "revert" /\ job'.tx = t /\ job'.pc = "failed"
        BY <1>7, TaskFields
    <2>2. ~Taken' /\ UNCHANGED <<disk, mem>>
        BY <1>7, <2>1 DEF Taken, storeVars
    <2>3. QED
        BY <1>6, <2>1, <2>2
<1>8. CASE /\ job' = Task("revert", t, "call", row, S, S) /\ S # {}
           /\ Reserve(t, "revert", S, "PENDING")
    <2>1. S \subseteq Having(mem, "PENDING") /\ \A p \in S : mem[p].tx = t
        BY DEF PendingOf
    <2>2. \A p \in S : p \in token[t] /\ token[t] \subseteq Having(mem, "PENDING")
        BY <1>2, <2>1, PendingIsTokens DEF HonestInv
    <2>3. \A p \in token[t] : mem[p].tx = t
        BY DEF HonestInv, StoreTrue
    <2>4. S = token[t]
        BY <1>8, <2>2, <2>3 DEF PendingOf
    <2>5. \A p \in S : p \in Proof /\ mem[p] \in ProofRec \cup {Absent} /\ mem[p].state = "PENDING"
                       /\ mem[p].tx = t
        BY <2>1 DEF Having, IInv, StoreOK
    <2>6. \A p \in S : mem[p] = Held("PENDING", t)
        BY <2>5 DEF ProofRec, Absent, Held
    <2>7. /\ mem' = disk'
          /\ \A p \in Proof : mem'[p] = IF p \in S THEN Held("PENDING", t) ELSE mem[p]
        BY <1>8, <2>5, LockFree DEF HonestInv, StoreTrue, IInv, StoreOK
    <2>8. \A p \in Proof : mem'[p] = mem[p]
        BY <2>6, <2>7
    <2>9. /\ mem \in [Proof -> ProofRec \cup {Absent}]
          /\ mem' = [p \in Proof |-> mem'[p]]
        BY <1>8 DEF IInv, StoreOK, Reserve
    <2>10. mem' = mem /\ disk' = disk
        BY <2>7, <2>8, <2>9 DEF HonestInv, StoreTrue
    <2>11. row.locked = [p \in S |-> Held("PENDING", t)]
        BY <2>5 DEF RowFor, Snapshot
    <2>12. job'.kind = "revert" /\ job'.tx = t /\ job'.pc = "call" /\ job'.offered = S
           /\ job'.row = row
        <3>1. job' = Task("revert", t, "call", row, S, S)
            BY <1>8
        <3> HIDE DEF row, S
        <3>2. QED
            BY <3>1, TaskFields
    <2>13. ~Taken'
        BY <2>12 DEF Taken
    <2> HIDE DEF row, S
    <2>14. QED
        BY <1>6, <1>8, <2>1, <2>4, <2>10, <2>11, <2>12, <2>13
<1>9. QED
    BY <1>1, <1>7, <1>8

------------------------------------------------------------------------------
(* Honest payees and fresh picks: the call and its answer.                 *)

LEMMA CallMintHonest ==
    ASSUME IInv, IInv', CalmInv, HonestInv, CallMint
    PROVE  HonestInv'
<1>1. /\ job \in CallJob /\ job' \in CallJob /\ job.kind \in {"send", "revert"}
      /\ job.pc = "call" /\ job'.pc = "wait" /\ job'.answer = "none"
      /\ job'.kind = job.kind /\ job'.tx = job.tx /\ job'.row = job.row
      /\ job'.offered = job.offered
      /\ job'.used \subseteq job.offered
      /\ job.kind = "send" => Covers(job.tx, job'.used)
    BY CallMintShape
<1>2. UNCHANGED <<disk, mem, token, status, asked, watches, mintSpent, claimed>>
    BY CallMintShape DEF storeVars, userVars
<1>3. Locking /\ ~Taken /\ Locking' /\ ~Taken' /\ job.tx \in Send
    BY <1>1 DEF Locking, Taken, Calling, CallJob
<1>4. Outputs(job') \cap Live' = {}
    <2>1. FreshOutputs'
        BY NeverStored, PTL
    <2>2. Live' \subseteq Stored'
        BY DEF IInv, StoreOK
    <2>3. job'.kind \in Calling /\ job'.pc = "wait"
        BY <1>1 DEF Calling
    <2>4. QED
        BY <2>1, <2>2, <2>3 DEF FreshOutputs
<1>5. TablesOK' /\ StatusTrue'
    BY <1>2 DEF HonestInv, TablesOK, StatusTrue
<1>6. StoreTrue' /\ TokensWhole' /\ SyncTrue'
    BY <1>1, <1>2, <1>3, StoreFrame, TokensFrame, WatchesFrame DEF HonestInv
<1>7. SendTrue'
    <2>1. NeedsSwap(job.tx, job.offered)' <=> NeedsSwap(job.tx, job.offered)
        BY <1>1 DEF NeedsSwap
    <2>2. ASSUME job.kind = "send"
          PROVE  PayeePart(job') \subseteq Outputs(job')
        <3>1. Worth(job'.used) >= Amount[job.tx] /\ Worth(job'.used) \in Nat
              /\ Amount[job.tx] \in Nat
            <4>1. job'.used \in SUBSET Proof
                BY <1>1 DEF CallJob
            <4>2. Worth(job'.used) \in Nat
                BY <4>1, ProofsFinite
            <4>3. Amount[job.tx] \in Nat
                BY <1>3, SendAssumptions DEF Slots
            <4>4. QED
                BY <1>1, <2>2, <4>2, <4>3 DEF Covers
        <3>2. QED
            BY <1>1, <3>1 DEF PayeePart, Outputs
    <2>3. QED
        BY <1>1, <1>2, <1>3, <1>4, <2>1, <2>2 DEF HonestInv, SendTrue
<1>8. RevertTrue'
    BY <1>1, <1>2, <1>3, <1>4 DEF HonestInv, RevertTrue
<1>9. QED
    BY <1>5, <1>6, <1>7, <1>8 DEF HonestInv

\* The mint takes the inputs of a send, which no payee has, or of a reclaim whose token
\* no payee has redeemed.
LEMMA MintAnswersHonest ==
    ASSUME IInv, CalmInv, HonestInv, NEW q \in net, NEW a, MintAnswers(q, a)
    PROVE  HonestInv'
<1>1. /\ Asking /\ q = Wire(job) /\ job \in CallJob /\ job.kind \in {"send", "revert"}
      /\ job' = [job EXCEPT !.answer = a] /\ a \in {"ok", "spent"}
      /\ a = "spent" => job.used \cap mintSpent # {} /\ UNCHANGED mintSpent
      /\ a = "ok" => /\ job.used \cap mintSpent = {}
                     /\ mintSpent' = mintSpent \cup job.used
    BY MintAnswersShape
<1>2. UNCHANGED <<disk, mem, token, status, asked, watches, claimed>>
    BY DEF MintAnswers, storeVars, userVars
<1>3. /\ job'.kind = job.kind /\ job'.pc = job.pc /\ job'.tx = job.tx /\ job'.row = job.row
      /\ job'.used = job.used /\ job'.offered = job.offered /\ job'.index = job.index
      /\ job'.answer = a
    BY <1>1 DEF CallJob
<1>4. /\ Locking' /\ Locking /\ job.pc = "wait" /\ ~Taken /\ job.tx \in Send
      /\ Taken' <=> a = "ok"
    BY <1>1, <1>3 DEF Locking, Waiting, Asking, Taken, Calling, CallJob
<1>5. Outputs(job') = Outputs(job) /\ Live' = Live /\ PayeePart(job') = PayeePart(job)
    BY <1>2, <1>3 DEF Outputs, Live, PayeePart
<1>6. \A p \in job.offered : p \in Proof /\ mem[p].state = "PENDING" /\ mem[p].tx = job.tx
    <2>1. CASE job.kind = "send"
        BY <1>1, <1>4, <2>1 DEF HonestInv, SendTrue, CallJob, Held
    <2>2. CASE job.kind = "revert"
        BY <1>1, <1>4, <2>2 DEF HonestInv, RevertTrue, CallJob, Having, StoreTrue
    <2>3. QED
        BY <1>1, <2>1, <2>2
<1>7. CASE a = "spent"
    <2>1. mintSpent' = mintSpent /\ ~Taken' /\ job.used \cap mintSpent # {}
        BY <1>1, <1>4, <1>7
    <2>2. job.kind = "revert"
        <3>1. ASSUME job.kind = "send" PROVE FALSE
            <4>1. job.used \subseteq job.offered /\ job.offered \cap mintSpent = {}
                BY <1>4, <3>1 DEF HonestInv, SendTrue
            <4>2. QED
                BY <2>1, <4>1
        <3>2. QED
            BY <1>1, <3>1
    <2>3. TablesOK' /\ StatusTrue'
        BY <1>2, <2>1 DEF HonestInv, TablesOK, StatusTrue
    <2>4. StoreTrue' /\ TokensWhole' /\ SyncTrue'
        BY <1>2, <1>3, <1>4, <2>1, <2>2, StoreFrame, TokensFrame, WatchesFrame DEF HonestInv
    <2>5. SendTrue' /\ RevertTrue'
        BY <1>2, <1>3, <1>4, <1>5, <2>1, <2>2 DEF HonestInv, SendTrue, RevertTrue
    <2>6. QED
        BY <2>3, <2>4, <2>5 DEF HonestInv
<1>8. CASE a = "ok"
    <2>1. mintSpent' = mintSpent \cup job.used /\ Taken' /\ job.used \cap mintSpent = {}
          /\ job.used \subseteq job.offered
        BY <1>1, <1>4, <1>8 DEF HonestInv, SendTrue, CalmInv, CallIsNew, Locking
    <2>2. TablesOK'
        BY <1>2 DEF HonestInv, TablesOK
    <2>3. StoreTrue'
        <3>1. job.used \subseteq Live /\ job.used \cap Having(mem, "UNSPENT") = {}
            BY <1>6, <2>1 DEF Live, Having, Absent, Held
        <3>2. QED
            BY <1>2, <1>3, <1>4, <1>5, <2>1, <3>1 DEF HonestInv, StoreTrue, Having
    <2>4. \A t \in Send : t # job.tx => token[t] \cap job.used = {}
        BY <1>6, <2>1 DEF HonestInv, StoreTrue
    <2>5. CASE job.kind = "send"
        <3>1. token[job.tx] = {}
            BY <1>4, <2>5 DEF HonestInv, SendTrue, StatusTrue
        <3>2. \A t \in Send : token[t] \cap mintSpent' = token[t] \cap mintSpent
            BY <2>1, <2>4, <3>1
        <3>3. TokensWhole'
            <4>1. ASSUME NEW t \in Send
                  PROVE  /\ token[t] # {} => Worth(token[t]) = Amount[t]
                         /\ \/ token[t] \subseteq Having(mem', "PENDING")
                            \/ token[t] \subseteq Having(mem', "SPENT") /\ token[t] \subseteq mintSpent'
                BY <1>2, <2>1 DEF HonestInv, TokensWhole
            <4>2. ASSUME NEW t \in Send
                  PROVE  \/ token[t] \cap mintSpent' = {}
                         \/ token[t] \subseteq claimed
                         \/ /\ token[t] \subseteq mintSpent' /\ token[t] \cap claimed = {}
                            /\ status[t] = "REVERTED"
                BY <1>4, <2>1, <3>2 DEF HonestInv, TokensWhole
            <4>3. QED
                BY <1>2, <4>1, <4>2 DEF TokensWhole
        <3>4. StatusTrue'
            BY <1>2, <2>1 DEF HonestInv, StatusTrue
        <3>5. SendTrue'
            <4>1. NeedsSwap(job.tx, job.offered)' <=> NeedsSwap(job.tx, job.offered)
                BY <1>3 DEF NeedsSwap
            <4>2. job.offered \cap mintSpent' = job.used
                BY <1>4, <2>1, <2>5 DEF HonestInv, SendTrue
            <4>3. QED
                BY <1>2, <1>3, <1>4, <1>5, <1>8, <2>1, <2>5, <4>1, <4>2 DEF HonestInv, SendTrue
        <3>6. RevertTrue' /\ SyncTrue'
            BY <1>2, <1>3, <2>5, WatchesFrame DEF HonestInv, RevertTrue
        <3>7. QED
            BY <2>2, <2>3, <3>3, <3>4, <3>5, <3>6 DEF HonestInv
    <2>6. CASE job.kind = "revert"
        <3>1. job.used = token[job.tx] /\ job.offered = token[job.tx] /\ token[job.tx] # {}
            BY <1>4, <2>6 DEF HonestInv, RevertTrue, CalmInv, CallIsNew, Locking
        <3>2. token[job.tx] \cap claimed = {} /\ token[job.tx] \subseteq mintSpent'
            BY <2>1, <3>1 DEF HonestInv, StoreTrue
        <3>3. \A t \in Send : t # job.tx => token[t] \cap mintSpent' = token[t] \cap mintSpent
            BY <2>1, <2>4
        <3>4. TokensWhole'
            <4>1. ASSUME NEW t \in Send
                  PROVE  /\ token[t] # {} => Worth(token[t]) = Amount[t]
                         /\ \/ token[t] \subseteq Having(mem', "PENDING")
                            \/ token[t] \subseteq Having(mem', "SPENT") /\ token[t] \subseteq mintSpent'
                BY <1>2, <2>1 DEF HonestInv, TokensWhole
            <4>2. ASSUME NEW t \in Send, t # job.tx
                  PROVE  \/ token[t] \cap mintSpent' = {}
                         \/ token[t] \subseteq claimed
                         \/ /\ token[t] \subseteq mintSpent' /\ token[t] \cap claimed = {}
                            /\ status[t] = "REVERTED"
                BY <1>4, <2>1, <3>3, <4>2 DEF HonestInv, TokensWhole
            <4>3. QED
                BY <1>2, <1>3, <2>1, <2>6, <3>2, <4>1, <4>2 DEF TokensWhole
        <3>5. StatusTrue'
            BY <1>2, <2>1 DEF HonestInv, StatusTrue
        <3>6. RevertTrue'
            BY <1>2, <1>3, <1>4, <1>5, <2>1, <3>1, <3>2, <2>6 DEF HonestInv, RevertTrue
        <3>7. SendTrue' /\ SyncTrue'
            BY <1>2, <1>3, <2>6, WatchesFrame DEF HonestInv, SendTrue
        <3>8. QED
            BY <2>2, <2>3, <3>4, <3>5, <3>6, <3>7 DEF HonestInv
    <2>7. QED
        BY <1>1, <2>5, <2>6
<1>9. QED
    BY <1>1, <1>7, <1>8

LEMMA AcceptHonest ==
    ASSUME IInv, HonestInv, Accept
    PROVE  HonestInv'
<1>1. /\ job \in CallJob /\ job.kind \in Calling /\ job.pc = "wait" /\ job.answer = "ok"
      /\ job' = [job EXCEPT !.pc = "commit"]
      /\ UNCHANGED <<disk, mem, token, status, asked, watches, mintSpent, claimed>>
    BY CallingJob DEF Accept, IInv, storeVars, userVars, mintVars
<1>2. /\ job'.kind = job.kind /\ job'.pc = "commit" /\ job'.tx = job.tx /\ job'.row = job.row
      /\ job'.used = job.used /\ job'.offered = job.offered /\ job'.index = job.index
      /\ job'.answer = job.answer
    BY <1>1 DEF CallJob
<1>3. Locking /\ Locking' /\ Taken /\ Taken'
    BY <1>1, <1>2 DEF Locking, Taken
<1>4. Outputs(job') = Outputs(job) /\ Live' = Live /\ PayeePart(job') = PayeePart(job)
    BY <1>1, <1>2 DEF Outputs, Live, PayeePart
<1>5. NeedsSwap(job.tx, job.offered)' <=> NeedsSwap(job.tx, job.offered)
    BY <1>2 DEF NeedsSwap
<1>6. TablesOK' /\ StatusTrue'
    BY <1>1 DEF HonestInv, TablesOK, StatusTrue
<1>7. StoreTrue' /\ TokensWhole' /\ SyncTrue'
    BY <1>1, <1>2, <1>3, StoreFrame, TokensFrame, WatchesFrame DEF HonestInv, Calling
<1>8. SendTrue'
    BY <1>1, <1>2, <1>3, <1>4, <1>5 DEF HonestInv, SendTrue
<1>9. RevertTrue'
    BY <1>1, <1>2, <1>3, <1>4 DEF HonestInv, RevertTrue, Having
<1>10. QED
    BY <1>6, <1>7, <1>8, <1>9 DEF HonestInv

\* Only a reclaim is refused: the payee was faster.
LEMMA RefusedHonest ==
    ASSUME IInv, CalmInv, HonestInv, Refused
    PROVE  HonestInv'
<1>1. /\ job \in CallJob /\ job.kind \in Calling /\ job.pc = "wait"
      /\ job.answer \in {"spent", "signed"}
      /\ job' = AfterError(job.kind = "send" /\ job.answer = "signed" /\ ~job.healed)
    BY CallingJob, Zenon DEF Refused, IInv
<1>2. UNCHANGED <<disk, mem, token, status, asked, watches, mintSpent, claimed>>
    BY DEF Refused, storeVars, userVars, mintVars
<1>3. Locking /\ Waiting /\ ~Taken
    BY <1>1 DEF Locking, Waiting, Taken
<1>4. ~job.healed /\ job.answer = "spent" /\ job.kind = "revert"
    BY <1>1, <1>3 DEF CalmInv, CallIsNew, OneCallOnly, HonestInv, SendTrue, Calling
<1>5. job' = [job EXCEPT !.pc = "undo"]
    BY <1>1, <1>4 DEF AfterError
<1>6. /\ job'.kind = "revert" /\ job'.pc = "undo" /\ job'.tx = job.tx /\ job'.row = job.row
      /\ job'.offered = job.offered
    BY <1>1, <1>4, <1>5 DEF CallJob
<1>7. ~Taken'
    BY <1>6 DEF Taken
<1>8. TablesOK' /\ StatusTrue'
    BY <1>2 DEF HonestInv, TablesOK, StatusTrue
<1>9. StoreTrue' /\ TokensWhole' /\ SyncTrue'
    BY <1>2, <1>3, <1>4, <1>6, StoreFrame, TokensFrame, WatchesFrame DEF HonestInv
<1>10. SendTrue' /\ RevertTrue'
    BY <1>2, <1>3, <1>4, <1>6, <1>7 DEF HonestInv, SendTrue, RevertTrue, Having
<1>11. QED
    BY <1>8, <1>9, <1>10 DEF HonestInv

LEMMA UndoHonest ==
    ASSUME IInv, CalmInv, HonestInv, Undo
    PROVE  HonestInv'
<1>1. /\ job \in CallJob /\ job.kind = "revert" /\ job.pc = "undo" /\ Rollback(job.row)
      /\ job' = [job EXCEPT !.pc = "failed"]
    BY CallingJob DEF Undo, IInv, CalmInv, OneCallOnly, HonestInv, SendTrue, Calling
<1>2. UNCHANGED <<token, status, asked, watches, mintSpent, claimed>>
    BY DEF Undo, userVars, mintVars
<1>3. Locking /\ ~Taken
    BY <1>1 DEF Locking, Taken, Calling
<1>4. /\ job.row.locked = [p \in job.offered |-> Held("PENDING", job.tx)]
      /\ job.offered \subseteq Having(mem, "PENDING")
      /\ job.offered = token[job.tx] /\ job.tx \in Send /\ job.tx # NoTx
    BY <1>1, <1>3, NoTxAssumption, SendAssumptions DEF HonestInv, RevertTrue, CallJob
<1>5. \A p \in job.offered : p \in Proof /\ mem[p] = Held("PENDING", job.tx)
    <2>1. \A p \in job.offered : /\ p \in Proof /\ mem[p].state = "PENDING" /\ mem[p].tx = job.tx
                                 /\ mem[p] \in ProofRec \cup {Absent}
        BY <1>4 DEF HonestInv, StoreTrue, Having, IInv, StoreOK
    <2>2. QED
        BY <2>1 DEF ProofRec, Absent, Held
<1>6. /\ disk' = [p \in Proof |-> IF p \in DOMAIN job.row.locked /\ disk[p] # Absent
                                  THEN job.row.locked[p] ELSE disk[p]]
      /\ mem'  = [p \in Proof |->
                     IF p \in DOMAIN job.row.locked /\ mem[p] # Absent /\ mem[p].state # "SPENT"
                     THEN Held(job.row.locked[p].state,
                               IF job.row.locked[p].tx = NoTx THEN mem[p].tx
                                                              ELSE job.row.locked[p].tx)
                     ELSE mem[p]]
    BY <1>1 DEF Rollback
<1>7. mem = disk /\ mem \in [Proof -> ProofRec \cup {Absent}]
    BY DEF HonestInv, StoreTrue, IInv, StoreOK
<1>8. \A p \in Proof : disk'[p] = disk[p]
    BY <1>4, <1>5, <1>6, <1>7
<1>9. \A p \in Proof : mem'[p] = mem[p]
    <2>1. Held("PENDING", job.tx).state = "PENDING" /\ Held("PENDING", job.tx).tx = job.tx
        BY DEF Held
    <2>2. QED
        BY <1>4, <1>5, <1>6, <2>1
<1>10. UNCHANGED <<disk, mem>>
    BY <1>6, <1>7, <1>8, <1>9
<1>11. /\ job'.kind = "revert" /\ job'.pc = "failed" /\ job'.tx = job.tx
    BY <1>1 DEF CallJob
<1>12. ~Locking' /\ ~Taken'
    BY <1>11 DEF Locking, Taken
<1>13. TablesOK' /\ StatusTrue'
    BY <1>2 DEF HonestInv, TablesOK, StatusTrue
<1>14. StoreTrue' /\ TokensWhole' /\ SyncTrue'
    BY <1>1, <1>2, <1>3, <1>10, <1>11, StoreFrame, TokensFrame, WatchesFrame DEF HonestInv
<1>15. SendTrue' /\ RevertTrue'
    BY <1>1, <1>2, <1>11, <1>12 DEF HonestInv, SendTrue, RevertTrue
<1>16. QED
    BY <1>13, <1>14, <1>15 DEF HonestInv

LEMMA FailHonest ==
    ASSUME IInv, HonestInv, Fail
    PROVE  HonestInv'
<1>1. /\ job \in CallJob /\ job.kind = "revert" /\ job.pc = "failed" /\ job' = Idle
      /\ status' = [status EXCEPT ![job.tx] = "ERROR"]
      /\ job.tx \in Send /\ job.tx \in Tx
      /\ UNCHANGED <<disk, mem, token, asked, watches, mintSpent, claimed>>
    BY CallingJob, SendAssumptions
    DEF Fail, IInv, HonestInv, SendTrue, Calling, CallJob, storeVars, userVars, mintVars
<1>2. ~Locking /\ ~Taken /\ ~Locking' /\ ~Taken' /\ job'.kind = "idle"
    BY <1>1 DEF Locking, Taken, Idle, Calling
<1>3. status[job.tx] # "REVERTED"
    BY <1>1 DEF HonestInv, RevertTrue
<1>4. /\ status' \in [Tx -> Status] /\ status'[job.tx] = "ERROR"
      /\ \A u \in Send : u # job.tx => status'[u] = status[u]
    BY <1>1 DEF HonestInv, TablesOK, Status
<1>5. TablesOK' /\ StatusTrue'
    BY <1>1, <1>4 DEF HonestInv, TablesOK, StatusTrue
<1>6. StoreTrue' /\ TokensWhole' /\ SyncTrue'
    BY <1>1, <1>2, <1>3, <1>4, StoreFrame, TokensFrame, WatchesFrame DEF HonestInv
<1>7. SendTrue' /\ RevertTrue'
    BY <1>2 DEF SendTrue, RevertTrue
<1>8. QED
    BY <1>5, <1>6, <1>7 DEF HonestInv

------------------------------------------------------------------------------
(* Honest payees and fresh picks: the commits.                             *)

\* A commit of new proofs that are no spent nodes keeps the two tables one.
LEMMA CommitBoth ==
    ASSUME mem = disk, mem \in [Proof -> ProofRec \cup {Absent}], NEW r, NEW A, NEW new,
           Commit(r, A, {}, new), A \cap DOMAIN new = {},
           \A p \in Proof : p \in A => mem[p] # Absent,
           \A p \in Proof : p \in DOMAIN new => mem[p].state # "SPENT"
    PROVE  /\ mem' = disk'
           /\ \A p \in Proof : p \in DOMAIN new => mem'[p] = new[p]
           /\ \A p \in Proof : p \in A => mem'[p] = Held("SPENT", mem[p].tx)
           /\ \A p \in Proof : p \notin A /\ p \notin DOMAIN new => mem'[p] = mem[p]
<1> DEFINE moved == Move(Move(mem, A, "SPENT"), {}, "UNSPENT")
<1>1. /\ disk' = [p \in Proof |-> IF p \in DOMAIN new THEN new[p] ELSE moved[p]]
      /\ mem'  = [p \in Proof |-> IF p \in DOMAIN new /\ moved[p].state # "SPENT"
                                  THEN new[p] ELSE moved[p]]
    BY DEF Commit
<1>2. ASSUME NEW p \in Proof
      PROVE  /\ p \in A => moved[p] = Held("SPENT", mem[p].tx)
             /\ p \notin A => moved[p] = mem[p]
    <2>1. moved[p] = IF p \in A /\ mem[p] # Absent THEN [mem[p] EXCEPT !.state = "SPENT"] ELSE mem[p]
        BY <1>2 DEF Move
    <2>2. p \in A => mem[p] \in ProofRec
        BY <1>2
    <2>3. QED
        BY <1>2, <2>1, <2>2 DEF ProofRec, Held
<1> HIDE DEF moved
<1>3. ASSUME NEW p \in Proof
      PROVE  /\ p \in DOMAIN new => mem'[p] = new[p] /\ disk'[p] = new[p]
             /\ p \notin DOMAIN new => mem'[p] = moved[p] /\ disk'[p] = moved[p]
    <2>1. CASE p \in DOMAIN new
        <3>1. p \notin A /\ moved[p].state # "SPENT"
            BY <1>2, <2>1
        <3>2. QED
            BY <1>1, <2>1, <3>1
    <2>2. CASE p \notin DOMAIN new
        BY <1>1, <2>2
    <2>3. QED
        BY <2>1, <2>2
<1>4. \A p \in Proof : mem'[p] = disk'[p]
    BY <1>3
<1>5. mem' = disk'
    BY <1>1, <1>4
<1>6. QED
    BY <1>2, <1>3, <1>5

\* The swap's inputs are written off, the payee's part is handed out, the rest is change.
LEMMA CommitSendHonest ==
    ASSUME IInv, CalmInv, HonestInv, CommitSend
    PROVE  HonestInv'
<1> DEFINE t == job.tx
           payee == PayeePart(job)
           out == Outputs(job)
           used == job.used
           rest == job.offered \ job.used
<1>1. /\ job \in CallJob /\ job.kind = "send" /\ job.pc = "commit" /\ job' = Idle
      /\ t \in Send /\ t \in Tx
      /\ Commit(job.row, used, {}, NewProofs(job))
      /\ status' = [status EXCEPT ![t] = "PENDING"]
      /\ token' = [token EXCEPT ![t] = payee]
      /\ watches' = watches \cup {Having(mem', "PENDING")}
      /\ UNCHANGED <<asked, mintSpent, claimed>>
    BY CallingJob, SendAssumptions
    DEF CommitSend, CommitWithCounter, IInv, Calling, CallJob, CalmInv, OneCallOnly, mintVars
<1>2. /\ Locking /\ Taken /\ ~Locking' /\ ~Taken' /\ job'.kind = "idle"
    BY <1>1 DEF Locking, Taken, Calling, Idle
<1>3. /\ token[t] = {} /\ used \subseteq job.offered /\ job.offered \subseteq Proof
      /\ \A p \in job.offered : mem[p] = Held("PENDING", t)
      /\ job.offered \cap mintSpent = used /\ job.offered \cap claimed = {}
      /\ out \cap Live = {} /\ payee \subseteq out
    BY <1>1, <1>2 DEF HonestInv, SendTrue, StatusTrue, CallJob
<1>4. /\ job.index \in Index /\ out \subseteq Index \X Slots /\ out \subseteq Proof
      /\ Worth(payee) = Amount[t] /\ payee # {}
    <2>1. out \subseteq Index \X Slots
        BY <1>1 DEF CalmInv, CallIsNew, Calling
    <2>2. /\ Amount[t] \in Slots /\ Amount[t] \in Nat /\ 1 <= Amount[t]
        BY <1>1, SendAssumptions DEF Slots
    <2>3. <<job.index, 1>> \in payee
        BY <2>2 DEF PayeePart
    <2>4. job.index \in Index
        BY <1>3, <2>1, <2>3
    <2>5. Worth(payee) = Amount[t]
        BY <2>2, <2>4, WorthOfSlots DEF PayeePart
    <2>6. QED
        BY <2>1, <2>3, <2>4, <2>5, SendAssumptions
<1>5. /\ DOMAIN NewProofs(job) = out \cup rest
      /\ \A p \in payee : NewProofs(job)[p] = Held("PENDING", t)
      /\ \A p \in (out \cup rest) \ payee : NewProofs(job)[p] = Held("UNSPENT", t)
    BY <1>1, <1>3 DEF NewProofs, Unchanged
<1> HIDE DEF t, payee, out, used, rest
<1>6. rest \subseteq job.offered /\ rest \cap used = {} /\ job.offered = used \cup rest
    BY <1>3 DEF rest, used
<1>7. \A s \in {"PENDING", "UNSPENT", "SPENT"} :
          Held(s, t).state = s /\ Held(s, t).tx = t /\ Held(s, t) # Absent
    BY DEF Held, Absent
<1>8. /\ \A p \in out : p \in Proof /\ mem[p] = Absent /\ p \notin job.offered /\ p \notin mintSpent
      /\ Absent.state = "none"
    <2>1. \A p \in out : p \in Proof /\ mem[p] = Absent
        BY <1>3, <1>4 DEF Live
    <2>2. QED
        BY <1>3, <1>7, <2>1 DEF HonestInv, StoreTrue, Live, Absent, Held
<1>9. /\ mem' = disk'
      /\ \A p \in Proof : p \in out \cup rest => mem'[p] = NewProofs(job)[p]
      /\ \A p \in Proof : p \in used => mem'[p] = Held("SPENT", mem[p].tx)
      /\ \A p \in Proof : p \notin used /\ p \notin out \cup rest => mem'[p] = mem[p]
    <2>1. mem = disk /\ mem \in [Proof -> ProofRec \cup {Absent}]
        BY DEF HonestInv, StoreTrue, IInv, StoreOK
    <2>2. used \cap DOMAIN NewProofs(job) = {}
        BY <1>3, <1>5, <1>6, <1>8
    <2>3. \A p \in Proof : p \in used => mem[p] # Absent
        BY <1>3, <1>7
    <2>4. \A p \in Proof : p \in DOMAIN NewProofs(job) => mem[p].state # "SPENT"
        BY <1>3, <1>5, <1>6, <1>7, <1>8
    <2>5. QED
        BY <1>1, <1>5, <2>1, <2>2, <2>3, <2>4, CommitBoth
<1>10. /\ \A p \in payee : p \in Proof /\ mem'[p] = Held("PENDING", t)
       /\ \A p \in out : p \notin payee => mem'[p] = Held("UNSPENT", t)
       /\ \A p \in rest : p \in Proof /\ mem'[p] = Held("UNSPENT", t)
       /\ \A p \in used : p \in Proof /\ mem'[p] = Held("SPENT", t)
       /\ \A p \in Proof : p \notin job.offered /\ p \notin out => mem'[p] = mem[p]
    <2>1. \A p \in payee : p \in out /\ p \in Proof
        BY <1>3, <1>8
    <2>2. \A p \in rest : p \notin payee /\ p \in Proof
        BY <1>3, <1>6, <1>8
    <2>3. \A p \in used : p \in Proof /\ mem[p].tx = t
        BY <1>3, <1>6, <1>7
    <2>4. QED
        BY <1>5, <1>6, <1>8, <1>9, <2>1, <2>2, <2>3
<1>11. ASSUME NEW u \in Send, u # t, NEW p \in token[u]
       PROVE  p \in Proof /\ p \notin job.offered /\ p \notin out /\ mem'[p] = mem[p]
    <2>1. p \in Proof /\ mem[p].state \in {"PENDING", "SPENT"} /\ mem[p].tx = u
        BY <1>11 DEF HonestInv, StoreTrue
    <2>2. p \notin job.offered /\ p \notin out
        BY <1>3, <1>7, <1>8, <1>11, <2>1
    <2>3. QED
        BY <1>10, <2>1, <2>2
<1>12. /\ status' \in [Tx -> Status] /\ status'[t] = "PENDING"
       /\ \A u \in Send : u # t => status'[u] = status[u]
       /\ token' \in [Send -> SUBSET Proof] /\ token'[t] = payee
       /\ \A u \in Send : u # t => token'[u] = token[u]
    <2>1. payee \subseteq Proof
        BY <1>10
    <2>2. QED
        BY <1>1, <2>1 DEF HonestInv, TablesOK, Status
<1>13. TablesOK'
    BY <1>1, <1>12 DEF HonestInv, TablesOK
<1>14. StoreTrue'
    <2>1. mintSpent \subseteq Live'
        <3>1. ASSUME NEW p \in mintSpent PROVE p \in Proof /\ mem'[p] # Absent
            <4>1. p \in Proof /\ mem[p] # Absent
                BY DEF HonestInv, StoreTrue, Live
            <4>2. QED
                BY <1>6, <1>7, <1>8, <1>10, <4>1
        <3>2. QED
            BY <3>1 DEF Live
    <2>2. ASSUME NEW p \in Proof, mem'[p].state = "UNSPENT"
          PROVE  p \notin mintSpent
        <3>1. CASE p \in job.offered
            BY <1>3, <1>6, <1>7, <1>10, <2>2, <3>1
        <3>2. CASE p \in out
            BY <1>8, <3>2
        <3>3. CASE p \notin job.offered /\ p \notin out
            BY <1>10, <2>2, <3>3 DEF HonestInv, StoreTrue, Having
        <3>4. QED
            BY <3>1, <3>2, <3>3
    <2>3. ASSUME NEW p \in Proof, mem'[p].state = "PENDING"
          PROVE  mem'[p].tx \in Send /\ p \in token'[mem'[p].tx]
        <3>1. CASE p \in job.offered
            BY <1>6, <1>7, <1>10, <2>3, <3>1
        <3>2. CASE p \in out
            BY <1>1, <1>7, <1>10, <1>12, <2>3, <3>2
        <3>3. CASE p \notin job.offered /\ p \notin out
            <4>1. mem'[p] = mem[p] /\ p \in Having(mem, "PENDING")
                BY <1>10, <2>3, <3>3 DEF Having
            <4>2. mem[p].tx \in Send /\ p \in token[mem[p].tx]
                BY <3>3, <4>1 DEF HonestInv, StoreTrue
            <4>3. mem[p].tx # t
                BY <1>3, <4>2
            <4>4. QED
                BY <1>12, <4>1, <4>2, <4>3
        <3>4. QED
            BY <3>1, <3>2, <3>3
    <2>4. ASSUME NEW u \in Send, NEW p \in token'[u]
          PROVE  p \in Proof /\ mem'[p].state \in {"PENDING", "SPENT"} /\ mem'[p].tx = u
        <3>1. CASE u = t
            BY <1>7, <1>10, <1>12, <2>4, <3>1
        <3>2. CASE u # t
            BY <1>11, <1>12, <2>4, <3>2 DEF HonestInv, StoreTrue
        <3>3. QED
            BY <3>1, <3>2
    <2>5. claimed \subseteq mintSpent
        BY DEF HonestInv, StoreTrue
    <2>6. QED
        BY <1>1, <1>9, <2>1, <2>2, <2>3, <2>4, <2>5 DEF StoreTrue, Having
<1>15. TokensWhole'
    <2>1. ASSUME NEW u \in Send, u # t
          PROVE  /\ token[u] # {} => Worth(token[u]) = Amount[u]
                 /\ \/ token[u] \subseteq Having(mem', "PENDING")
                    \/ token[u] \subseteq Having(mem', "SPENT") /\ token[u] \subseteq mintSpent
                 /\ \/ token[u] \cap mintSpent = {}
                    \/ token[u] \subseteq claimed
                    \/ /\ token[u] \subseteq mintSpent /\ token[u] \cap claimed = {}
                       /\ status[u] = "REVERTED"
        BY <1>1, <1>11, <2>1 DEF HonestInv, TokensWhole, Having
    <2>2. payee \subseteq Having(mem', "PENDING")
        BY <1>7, <1>10 DEF Having
    <2>3. payee \cap mintSpent = {}
        BY <1>3, <1>8
    <2>4. Worth(payee) = Amount[t]
        BY <1>4 DEF payee, t
    <2>5. ASSUME NEW u \in Send
          PROVE  /\ token'[u] # {} => Worth(token'[u]) = Amount[u]
                 /\ \/ token'[u] \subseteq Having(mem', "PENDING")
                    \/ token'[u] \subseteq Having(mem', "SPENT") /\ token'[u] \subseteq mintSpent
                 /\ \/ token'[u] \cap mintSpent = {}
                    \/ token'[u] \subseteq claimed
                    \/ /\ token'[u] \subseteq mintSpent /\ token'[u] \cap claimed = {}
                       /\ status'[u] = "REVERTED"
        <3>1. CASE u = t
            BY <1>12, <2>2, <2>3, <2>4, <3>1
        <3>2. CASE u # t
            <4>1. token'[u] = token[u] /\ status'[u] = status[u]
                BY <1>12, <3>2
            <4>2. QED
                BY <2>1, <3>2, <4>1
        <3>3. QED
            BY <3>1, <3>2
    <2>6. QED
        BY <1>1, <2>5 DEF TokensWhole
<1>16. StatusTrue'
    <2>1. ASSUME NEW u \in Send
          PROVE  /\ status'[u] \in {"none", "DRAFT", "PREPARED", "EXECUTING"} => token'[u] = {}
                 /\ status'[u] = "COMPLETED" => token'[u] # {} /\ token'[u] \subseteq claimed
                 /\ status'[u] = "REVERTED"
                        => token'[u] \cap claimed = {} /\ token'[u] \subseteq mintSpent
                 /\ asked[u].want = "revert" => status'[u] # "REVERTED"
        <3>1. CASE u = t
            BY <1>12, <3>1
        <3>2. CASE u # t
            BY <1>12, <3>2 DEF HonestInv, StatusTrue
        <3>3. QED
            BY <3>1, <3>2
    <2>2. QED
        BY <1>1, <2>1 DEF HonestInv, StatusTrue
<1>17. SendTrue' /\ RevertTrue'
    BY <1>2 DEF SendTrue, RevertTrue
<1>18. SyncTrue'
    <2>1. Whole(Having(mem, "PENDING"))'
        BY <1>2, <1>14, <1>15, PendingIsTokens, PTL
    <2>2. ASSUME NEW w \in watches, NEW p \in w
          PROVE  \E u \in Send : p \in token'[u] /\ token'[u] \subseteq w
        <3>1. PICK u \in Send : p \in token[u] /\ token[u] \subseteq w
            BY <2>2 DEF HonestInv, SyncTrue, Whole
        <3>2. u # t
            BY <1>3, <3>1
        <3>3. QED
            BY <1>12, <3>1, <3>2
    <2>3. \A w \in watches' : Whole(w)'
        BY <1>1, <2>1, <2>2 DEF Whole
    <2>4. QED
        BY <1>2, <2>3 DEF SyncTrue
<1>19. QED
    BY <1>13, <1>14, <1>15, <1>16, <1>17, <1>18 DEF HonestInv

\* The reclaim writes the token off and stores the ecash anew: no payee has any of it.
LEMMA CommitRevertHonest ==
    ASSUME IInv, CalmInv, HonestInv, CommitRevert
    PROVE  HonestInv'
<1> DEFINE t == job.tx
           out == Outputs(job)
           tok == token[job.tx]
<1>1. /\ job \in CallJob /\ job.kind = "revert" /\ job.pc = "commit" /\ job' = Idle
      /\ t \in Send /\ t \in Tx
      /\ Commit(job.row, job.offered, {}, NewProofs(job))
      /\ status' = [status EXCEPT ![t] = "REVERTED"]
      /\ UNCHANGED <<token, asked, watches, mintSpent, claimed>>
    BY CallingJob, SendAssumptions
    DEF CommitRevert, CommitWithCounter, IInv, Calling, CallJob, userVars, mintVars
<1>2. /\ Locking /\ Taken /\ ~Locking' /\ ~Taken' /\ job'.kind = "idle"
    BY <1>1 DEF Locking, Taken, Calling, Idle
<1>3. /\ job.offered = tok /\ job.used = tok /\ tok # {} /\ tok \subseteq Having(mem, "PENDING")
      /\ tok \cap claimed = {} /\ out \cap Live = {} /\ tok \subseteq mintSpent
      /\ asked[t].want # "revert"
    BY <1>1, <1>2 DEF HonestInv, RevertTrue, CalmInv, CallIsNew, SpentIsSpent, Calling
<1>4. out \subseteq Proof
    BY <1>1, SendAssumptions DEF CalmInv, CallIsNew, Calling
<1>5. /\ DOMAIN NewProofs(job) = out
      /\ \A p \in out : NewProofs(job)[p] = Held("UNSPENT", t)
    BY <1>1, <1>3 DEF NewProofs, Unchanged
<1>6. \A p \in tok : p \in Proof /\ mem[p].state = "PENDING" /\ mem[p].tx = t /\ p \in Live
    BY <1>1, <1>3 DEF HonestInv, StoreTrue, Having
<1> HIDE DEF t, out, tok
<1>7. \A s \in {"UNSPENT", "SPENT"} :
          Held(s, t).state = s /\ Held(s, t).tx = t /\ Held(s, t) # Absent
    BY DEF Held, Absent
<1>8. /\ \A p \in out : p \in Proof /\ mem[p] = Absent /\ p \notin mintSpent /\ p \notin tok
      /\ Absent.state = "none"
    <2>1. \A p \in out : p \in Proof /\ mem[p] = Absent /\ p \notin Live
        BY <1>3, <1>4 DEF Live
    <2>2. QED
        BY <1>6, <2>1 DEF HonestInv, StoreTrue, Absent, Held
<1>9. /\ mem' = disk'
      /\ \A p \in out : mem'[p] = Held("UNSPENT", t)
      /\ \A p \in tok : mem'[p] = Held("SPENT", t)
      /\ \A p \in Proof : p \notin tok /\ p \notin out => mem'[p] = mem[p]
    <2>1. mem = disk /\ mem \in [Proof -> ProofRec \cup {Absent}]
        BY DEF HonestInv, StoreTrue, IInv, StoreOK
    <2>2. tok \cap DOMAIN NewProofs(job) = {}
        BY <1>5, <1>8
    <2>3. \A p \in Proof : p \in tok => mem[p] # Absent
        BY <1>6 DEF Live
    <2>4. \A p \in Proof : p \in DOMAIN NewProofs(job) => mem[p].state # "SPENT"
        BY <1>5, <1>8
    <2>5. Commit(job.row, tok, {}, NewProofs(job))
        BY <1>1, <1>3
    <2>6. /\ mem' = disk'
          /\ \A p \in Proof : p \in DOMAIN NewProofs(job) => mem'[p] = NewProofs(job)[p]
          /\ \A p \in Proof : p \in tok => mem'[p] = Held("SPENT", mem[p].tx)
          /\ \A p \in Proof : p \notin tok /\ p \notin DOMAIN NewProofs(job) => mem'[p] = mem[p]
        BY <2>1, <2>2, <2>3, <2>4, <2>5, CommitBoth
    <2>7. QED
        BY <1>5, <1>6, <1>8, <2>6
<1>10. ASSUME NEW u \in Send, u # t, NEW p \in token[u]
       PROVE  p \in Proof /\ p \notin tok /\ p \notin out /\ mem'[p] = mem[p]
    <2>1. p \in Proof /\ mem[p].state \in {"PENDING", "SPENT"} /\ mem[p].tx = u
        BY <1>10 DEF HonestInv, StoreTrue
    <2>2. p \notin tok /\ p \notin out
        BY <1>6, <1>8, <1>10, <2>1
    <2>3. QED
        BY <1>9, <2>1, <2>2
<1>11. /\ status' \in [Tx -> Status] /\ status'[t] = "REVERTED"
       /\ \A u \in Send : u # t => status'[u] = status[u]
    BY <1>1 DEF HonestInv, TablesOK, Status
<1>12. token[t] = tok
    BY DEF t, tok
<1>13. TablesOK'
    BY <1>1, <1>11 DEF HonestInv, TablesOK
<1>14. StoreTrue'
    <2>1. mintSpent \subseteq Live'
        <3>1. ASSUME NEW p \in mintSpent PROVE p \in Proof /\ mem'[p] # Absent
            <4>1. p \in Proof /\ mem[p] # Absent
                BY DEF HonestInv, StoreTrue, Live
            <4>2. QED
                BY <1>7, <1>9, <4>1
        <3>2. QED
            BY <3>1 DEF Live
    <2>2. ASSUME NEW p \in Proof, mem'[p].state = "UNSPENT"
          PROVE  p \notin mintSpent
        <3>1. CASE p \in tok
            BY <1>7, <1>9, <2>2, <3>1
        <3>2. CASE p \in out
            BY <1>8, <3>2
        <3>3. CASE p \notin tok /\ p \notin out
            BY <1>9, <2>2, <3>3 DEF HonestInv, StoreTrue, Having
        <3>4. QED
            BY <3>1, <3>2, <3>3
    <2>3. ASSUME NEW p \in Proof, mem'[p].state = "PENDING"
          PROVE  mem'[p].tx \in Send /\ p \in token[mem'[p].tx]
        <3>1. p \notin tok /\ p \notin out
            BY <1>7, <1>9, <2>3
        <3>2. mem'[p] = mem[p] /\ p \in Having(mem, "PENDING")
            BY <1>9, <2>3, <3>1 DEF Having
        <3>3. mem[p].tx \in Send /\ p \in token[mem[p].tx]
            BY <1>1, <3>2 DEF HonestInv, StoreTrue
        <3>4. QED
            BY <3>2, <3>3
    <2>4. ASSUME NEW u \in Send, NEW p \in token[u]
          PROVE  p \in Proof /\ mem'[p].state \in {"PENDING", "SPENT"} /\ mem'[p].tx = u
        <3>1. CASE u = t
            BY <1>6, <1>7, <1>9, <1>12, <2>4, <3>1
        <3>2. CASE u # t
            BY <1>10, <2>4, <3>2 DEF HonestInv, StoreTrue
        <3>3. QED
            BY <3>1, <3>2
    <2>5. claimed \subseteq mintSpent
        BY DEF HonestInv, StoreTrue
    <2>6. QED
        BY <1>1, <1>9, <2>1, <2>2, <2>3, <2>4, <2>5 DEF StoreTrue, Having
<1>15. TokensWhole'
    <2>1. ASSUME NEW u \in Send
          PROVE  /\ token[u] # {} => Worth(token[u]) = Amount[u]
                 /\ \/ token[u] \subseteq Having(mem', "PENDING")
                    \/ token[u] \subseteq Having(mem', "SPENT") /\ token[u] \subseteq mintSpent
                 /\ \/ token[u] \cap mintSpent = {}
                    \/ token[u] \subseteq claimed
                    \/ /\ token[u] \subseteq mintSpent /\ token[u] \cap claimed = {}
                       /\ status'[u] = "REVERTED"
        <3>1. CASE u = t
            <4>1. tok \subseteq Having(mem', "SPENT")
                BY <1>6, <1>7, <1>9 DEF Having
            <4>2. QED
                BY <1>3, <1>11, <1>12, <3>1, <4>1 DEF HonestInv, TokensWhole
        <3>2. CASE u # t
            <4>1. status'[u] = status[u]
                BY <1>11, <3>2
            <4>2. ~(job.tx = u)
                BY <3>2 DEF t
            <4>3. QED
                BY <1>10, <3>2, <4>1, <4>2 DEF HonestInv, TokensWhole, Having
        <3>3. QED
            BY <3>1, <3>2
    <2>2. QED
        BY <1>1, <2>1 DEF TokensWhole
<1>16. StatusTrue'
    <2>1. ASSUME NEW u \in Send
          PROVE  /\ status'[u] \in {"none", "DRAFT", "PREPARED", "EXECUTING"} => token[u] = {}
                 /\ status'[u] = "COMPLETED" => token[u] # {} /\ token[u] \subseteq claimed
                 /\ status'[u] = "REVERTED"
                        => token[u] \cap claimed = {} /\ token[u] \subseteq mintSpent
                 /\ asked[u].want = "revert" => status'[u] # "REVERTED"
        <3>1. CASE u = t
            BY <1>3, <1>11, <1>12, <3>1
        <3>2. CASE u # t
            BY <1>11, <3>2 DEF HonestInv, StatusTrue
        <3>3. QED
            BY <3>1, <3>2
    <2>2. QED
        BY <1>1, <2>1 DEF HonestInv, StatusTrue
<1>17. SendTrue' /\ RevertTrue' /\ SyncTrue'
    BY <1>1, <1>2, WatchesFrame DEF HonestInv, SendTrue, RevertTrue
<1>18. QED
    BY <1>13, <1>14, <1>15, <1>16, <1>17 DEF HonestInv

------------------------------------------------------------------------------
(* Honest payees and fresh picks: the sync.                                *)

\* What a sync that writes no proof leaves.
LEMMA SyncKeeps ==
    ASSUME HonestInv, job.kind \notin Calling, job'.kind \notin Calling,
           UNCHANGED <<disk, mem, status, token, asked, mintSpent, claimed>>
    PROVE  TablesOK' /\ StoreTrue' /\ TokensWhole' /\ StatusTrue' /\ SendTrue' /\ RevertTrue'
<1>1. /\ ~Locking /\ ~Taken /\ job'.kind \notin {"send", "revert"}
    BY DEF Locking, Taken, Calling
<1>2. TablesOK' /\ StatusTrue'
    BY DEF HonestInv, TablesOK, StatusTrue
<1>3. StoreTrue' /\ TokensWhole'
    BY <1>1, StoreFrame, TokensFrame DEF HonestInv
<1>4. SendTrue' /\ RevertTrue'
    BY <1>1 DEF SendTrue, RevertTrue
<1>5. QED
    BY <1>2, <1>3, <1>4

LEMMA StartSyncHonest ==
    ASSUME HonestInv, SyncPending \/ SyncUnspent
    PROVE  HonestInv'
<1>1. PICK S, from : /\ StartSync(S, from)
                     /\ S \in Batches \/ S = Spendable
    BY DEF SyncPending, SyncUnspent
<1>2. /\ job = Idle
      /\ job' = [kind |-> "sync", pc |-> "check", batch |-> S, from |-> from]
      /\ UNCHANGED <<disk, mem, status, token, asked, watches, mintSpent, claimed>>
    BY <1>1 DEF StartSync, Ready, storeVars, userVars, mintVars
<1>3. job.kind \notin Calling /\ job'.kind \notin Calling
    BY <1>2 DEF Idle, Calling
<1>4. Whole(S) \/ S \subseteq Having(mem, "UNSPENT")
    <2>1. Whole(Having(mem, "PENDING"))
        BY <1>3, PendingIsTokens DEF HonestInv, Calling
    <2>2. ASSUME NEW t \in Send
          PROVE  Whole(PendingOf(t))
        <3>1. \A p \in PendingOf(t) : /\ p \in token[t]
                                      /\ token[t] \subseteq Having(mem, "PENDING")
            BY <1>3, PendingIsTokens DEF HonestInv, Calling, PendingOf
        <3>2. \A p \in token[t] : mem[p].tx = t
            BY DEF HonestInv, StoreTrue
        <3>3. \A p \in PendingOf(t) : p \in token[t] /\ token[t] \subseteq PendingOf(t)
            BY <3>1, <3>2 DEF PendingOf
        <3>4. QED
            BY <3>3 DEF Whole
    <2>3. ASSUME NEW w \in watches
          PROVE  Whole(w \cap Live)
        <3>1. Whole(w)
            BY DEF HonestInv, SyncTrue
        <3>2. \A t \in Send : token[t] \subseteq Live
            <4>1. \A t \in Send : \A p \in token[t] :
                      p \in Proof /\ mem[p].state \in {"PENDING", "SPENT"}
                BY DEF HonestInv, StoreTrue
            <4>2. Absent.state = "none"
                BY DEF Absent, Held
            <4>3. QED
                BY <4>1, <4>2 DEF Live
        <3>3. QED
            BY <3>1, <3>2 DEF Whole
    <2>4. QED
        BY <1>1, <2>1, <2>2, <2>3 DEF Batches, Spendable
<1>5. SyncTrue'
    <2>1. \A w \in watches : Whole(w)
        BY DEF HonestInv, SyncTrue
    <2>2. job'.pc = "check" /\ job'.batch = S
        BY <1>2
    <2>3. ~Told'
        BY <2>2 DEF Told
    <2>4. QED
        BY <1>2, <1>4, <2>1, <2>2, <2>3 DEF SyncTrue, Whole, Having
<1>6. QED
    BY <1>2, <1>3, <1>5, SyncKeeps DEF HonestInv

LEMMA CheckHonest ==
    ASSUME HonestInv, Check
    PROVE  HonestInv'
<1>1. /\ job.kind = "sync" /\ job.pc = "check"
      /\ job' = [kind |-> "sync", pc |-> "move", from |-> job.from,
                 spent |-> job.batch \cap mintSpent, unspent |-> job.batch \ mintSpent]
      /\ UNCHANGED <<disk, mem, status, token, asked, watches, mintSpent, claimed>>
    BY DEF Check, storeVars, userVars, mintVars
<1>2. job.kind \notin Calling /\ job'.kind \notin Calling
    BY <1>1 DEF Calling
<1>3. Whole(job.batch \cap mintSpent)
    <2>1. CASE job.batch \subseteq Having(mem, "UNSPENT")
        <3>1. job.batch \cap mintSpent = {}
            BY <2>1 DEF HonestInv, StoreTrue
        <3>2. QED
            BY <3>1 DEF Whole
    <2>2. CASE Whole(job.batch)
        <3>1. ASSUME NEW t \in Send, token[t] \cap mintSpent # {}
              PROVE  token[t] \subseteq mintSpent
            BY <3>1 DEF HonestInv, TokensWhole, StoreTrue
        <3>2. QED
            BY <2>2, <3>1 DEF Whole
    <2>3. QED
        BY <1>1, <2>1, <2>2 DEF HonestInv, SyncTrue
<1>4. SyncTrue'
    <2>1. \A w \in watches : Whole(w)
        BY DEF HonestInv, SyncTrue
    <2>2. job'.pc = "move" /\ job'.spent = job.batch \cap mintSpent
        BY <1>1
    <2>3. QED
        BY <1>1, <1>3, <2>1, <2>2 DEF SyncTrue, Whole
<1>5. QED
    BY <1>1, <1>2, <1>4, SyncKeeps DEF HonestInv

\* A sync that ends.
LEMMA SyncEndsHonest ==
    ASSUME HonestInv, job.kind = "sync", job' = Idle,
           UNCHANGED <<disk, mem, status, token, asked, watches, mintSpent, claimed>>
    PROVE  HonestInv'
<1>1. job.kind \notin Calling /\ job'.kind \notin Calling /\ job'.kind # "sync"
    BY DEF Idle, Calling
<1>2. SyncTrue'
    BY <1>1, WatchesFrame DEF HonestInv
<1>3. QED
    BY <1>1, <1>2, SyncKeeps DEF HonestInv

\* Whole tokens are written off, each of them spent.
LEMMA WriteOffHonest ==
    ASSUME IInv, CalmInv, HonestInv, WriteOff
    PROVE  HonestInv'
<1>1. /\ job.kind = "sync" /\ job.pc = "move" /\ Told /\ job.kind \notin Calling
      /\ UNCHANGED <<status, token, asked, watches, mintSpent, claimed>>
    BY DEF WriteOff, Told, Calling, userVars, mintVars
<1>2. CASE job.spent = {}
    <2>1. job' = Idle /\ UNCHANGED <<disk, mem>>
        BY <1>2 DEF WriteOff, storeVars
    <2>2. QED
        BY <1>1, <2>1, SyncEndsHonest
<1>3. CASE job.spent # {}
    <2>1. /\ job.spent \subseteq Live /\ Overwrite(job.spent, "SPENT")
          /\ job' = [kind |-> "sync", pc |-> "settle", from |-> job.from,
                     spent |-> job.spent, unspent |-> job.unspent,
                     todo |-> {mem[p].tx : p \in job.spent}]
        BY <1>3 DEF WriteOff, MoveToSpent
    <2> DEFINE X == job.spent
    <2>2. X \subseteq Proof /\ X \subseteq mintSpent /\ Whole(X)
        BY <1>1, <2>1 DEF Live, CalmInv, SpentIsSpent, HonestInv, SyncTrue
    <2>3. \A p \in X : mem[p] \in ProofRec /\ mem[p] # Absent
        BY <2>1 DEF IInv, StoreOK, Live
    <2>4. disk = mem
        BY DEF HonestInv, StoreTrue
    <2>5. /\ mem' = [p \in Proof |-> IF p \in X THEN [mem[p] EXCEPT !.state = "SPENT"] ELSE mem[p]]
          /\ disk' = [p \in Proof |-> IF p \in X THEN [mem[p] EXCEPT !.state = "SPENT"] ELSE disk[p]]
        BY <2>1 DEF Overwrite
    <2>6. ASSUME NEW p \in Proof
          PROVE  /\ p \in X => mem'[p] = Held("SPENT", mem[p].tx) /\ mem[p] # Absent
                 /\ p \notin X => mem'[p] = mem[p]
        BY <2>3, <2>5, <2>6 DEF ProofRec, Held
    <2>7. disk' = mem'
        BY <2>4, <2>5
    <2>8. ASSUME NEW p \in Proof
          PROVE  /\ mem'[p].tx = mem[p].tx
                 /\ p \in X => mem'[p].state = "SPENT"
        <3>1. CASE p \in X
            <4>1. mem'[p] = Held("SPENT", mem[p].tx)
                BY <2>6, <3>1
            <4>2. QED
                BY <4>1 DEF Held
        <3>2. CASE p \notin X
            BY <2>6, <3>2
        <3>3. QED
            BY <3>1, <3>2
    <2>9. ASSUME NEW t \in Send
          PROVE  token[t] \subseteq X \/ token[t] \cap X = {}
        BY <2>2, TokensApart DEF Whole, HonestInv
    <2>10. job'.kind = "sync" /\ job'.kind \notin Calling
        BY <2>1 DEF Calling
    <2>11. /\ job'.pc = "settle" /\ job'.spent = X /\ job'.todo = {mem[p].tx : p \in X}
        BY <2>1
    <2> HIDE DEF X
    <2>12. TablesOK' /\ StatusTrue'
        BY <1>1 DEF HonestInv, TablesOK, StatusTrue
    <2>13. StoreTrue'
        <3>1. mintSpent \subseteq Live'
            <4>1. \A p \in Live : p \in Live'
                <5>1. Absent.state = "none"
                    BY DEF Absent, Held
                <5>2. QED
                    BY <2>6, <2>8, <5>1 DEF Live
            <4>2. QED
                BY <4>1 DEF HonestInv, StoreTrue
        <3>2. Having(mem', "UNSPENT") \subseteq Having(mem, "UNSPENT")
            BY <2>6, <2>8 DEF Having
        <3>3. ASSUME NEW p \in Having(mem', "PENDING")
              PROVE  mem'[p].tx \in Send /\ p \in token[mem'[p].tx]
            <4>1. p \in Proof /\ p \notin X /\ p \in Having(mem, "PENDING")
                BY <2>6, <2>8 DEF Having
            <4>2. ~Locking
                BY <1>1 DEF Locking
            <4>3. mem[p].tx \in Send /\ p \in token[mem[p].tx]
                BY <4>1, <4>2 DEF HonestInv, StoreTrue
            <4>4. QED
                BY <2>8, <4>1, <4>3
        <3>4. ASSUME NEW t \in Send, NEW p \in token[t]
              PROVE  p \in Proof /\ mem'[p].state \in {"PENDING", "SPENT"} /\ mem'[p].tx = t
            <4>1. p \in Proof /\ mem[p].state \in {"PENDING", "SPENT"} /\ mem[p].tx = t
                BY DEF HonestInv, StoreTrue
            <4>2. QED
                BY <2>6, <2>8, <4>1
        <3>5. claimed \subseteq mintSpent /\ Having(mem, "UNSPENT") \cap mintSpent = {}
            BY DEF HonestInv, StoreTrue
        <3>6. QED
            BY <1>1, <2>7, <3>1, <3>2, <3>3, <3>4, <3>5 DEF StoreTrue
    <2>14. TokensWhole'
        <3>1. ASSUME NEW t \in Send
              PROVE  \/ token[t] \subseteq Having(mem', "PENDING")
                     \/ token[t] \subseteq Having(mem', "SPENT") /\ token[t] \subseteq mintSpent
            <4>1. token[t] \subseteq Proof
                BY DEF HonestInv, StoreTrue
            <4>2. CASE token[t] \subseteq X
                BY <2>2, <2>8, <4>1, <4>2 DEF Having
            <4>3. CASE token[t] \cap X = {}
                BY <2>6, <4>1, <4>3 DEF HonestInv, TokensWhole, Having
            <4>4. QED
                BY <2>9, <4>2, <4>3
        <3>2. ~Taken
            BY <1>1 DEF Taken
        <3>3. QED
            BY <1>1, <3>1, <3>2 DEF HonestInv, TokensWhole
    <2>15. SendTrue' /\ RevertTrue'
        BY <2>10 DEF SendTrue, RevertTrue
    <2>16. SyncTrue'
        <3>1. \A w \in watches' : Whole(w)'
            BY <1>1 DEF HonestInv, SyncTrue, Whole
        <3>2. \A p \in X : \E t \in Send : p \in token'[t] /\ token'[t] \subseteq X
            BY <1>1, <2>2 DEF Whole
        <3>3. X \subseteq Having(mem', "SPENT")
            BY <2>2, <2>8 DEF Having
        <3>4. {mem[p].tx : p \in X} = {mem'[p].tx : p \in X}
            BY <2>2, <2>8
        <3>5. QED
            <4>1. Whole(job.spent)'
                BY <2>11, <3>2 DEF Whole
            <4>2. job'.spent \subseteq Having(mem', "SPENT")
                BY <2>11, <3>3
            <4>3. job'.todo \subseteq {mem'[p].tx : p \in job'.spent}
                BY <2>11, <3>4
            <4>4. QED
                BY <2>11, <3>1, <4>1, <4>2, <4>3 DEF SyncTrue, Having
    <2>17. QED
        BY <2>12, <2>13, <2>14, <2>15, <2>16 DEF HonestInv
<1>4. QED
    BY <1>2, <1>3

\* A token found spent is found spent whole, so its send is never a partial one; and unless
\* it was reclaimed, it is a payee who has it.
LEMMA SettleTxHonest ==
    ASSUME CalmInv, HonestInv, NEW t \in Tx, SettleTx(t)
    PROVE  HonestInv'
<1>1. /\ job.kind = "sync" /\ job.pc = "settle" /\ t \in job.todo
      /\ UNCHANGED <<disk, mem, token, asked, watches, mintSpent, claimed>>
    BY DEF SettleTx, storeVars, userVars, mintVars
<1>2. /\ ~Locking /\ ~Taken /\ Told /\ job.kind \notin Calling
    BY <1>1 DEF Locking, Taken, Told, Calling
<1>3. /\ Whole(job.spent) /\ job.spent \subseteq mintSpent
      /\ job.spent \subseteq Having(mem, "SPENT")
      /\ job.todo \subseteq {mem[p].tx : p \in job.spent}
    BY <1>1, <1>2 DEF HonestInv, SyncTrue, CalmInv, SpentIsSpent
<1>4. /\ t \in Send /\ token[t] # {} /\ token[t] \subseteq job.spent
      /\ SpentOf(t) = token[t]
    <2>1. \A u \in Send : \A p \in token[u] : mem[p].tx = u
        BY DEF HonestInv, StoreTrue
    <2>2. \A p \in job.spent : /\ mem[p].tx \in Send /\ p \in token[mem[p].tx]
                               /\ token[mem[p].tx] \subseteq job.spent
        BY <1>3, <2>1 DEF Whole
    <2>3. PICK p \in job.spent : mem[p].tx = t
        BY <1>1, <1>3
    <2>4. t \in Send /\ token[t] # {} /\ token[t] \subseteq job.spent
        BY <2>2, <2>3
    <2>5. SpentOf(t) = token[t]
        BY <2>1, <2>2, <2>4 DEF SpentOf
    <2>6. QED
        BY <2>4, <2>5
<1>5. ~Partial(t)
    <2>1. Worth(SpentOf(t)) = Amount[t]
        BY <1>4 DEF HonestInv, TokensWhole
    <2>2. t # Genesis /\ Total(t) = Amount[t]
        BY <1>4, SendAssumptions DEF Total
    <2>3. Amount[t] \in Int
        BY <1>4, SendAssumptions DEF Slots
    <2>4. QED
        BY <2>1, <2>2, <2>3 DEF Partial
<1>6. job' = [job EXCEPT !.todo = @ \ {t}, !.pc = @]
    BY <1>5, Zenon DEF SettleTx
<1>7. /\ job'.kind = "sync" /\ job'.pc = "settle" /\ job'.spent = job.spent
      /\ job'.todo \subseteq job.todo
    BY <1>1, <1>6
<1>8. PICK s \in {"REVERTED", "COMPLETED", "ERROR"} :
          /\ status' = [status EXCEPT ![t] = s]
          /\ s = "REVERTED" <=> status[t] = "REVERTED"
    BY <1>4, <1>5, SendAssumptions DEF SettleTx, Finalized
<1>9. s = "COMPLETED" => token[t] \subseteq claimed
    <2>1. token[t] \cap mintSpent # {}
        BY <1>3, <1>4
    <2>2. \/ token[t] \cap mintSpent = {}
          \/ token[t] \subseteq claimed
          \/ status[t] = "REVERTED" \/ Taken
        BY <1>4 DEF HonestInv, TokensWhole
    <2>3. QED
        BY <1>2, <1>8, <2>1, <2>2
<1>10. TablesOK'
    <2>1. s \in Status
        BY <1>8 DEF Status
    <2>2. QED
        BY <1>1, <1>8, <2>1 DEF HonestInv, TablesOK
<1>11. ASSUME NEW u \in Send
       PROVE  status'[u] = IF u = t THEN s ELSE status[u]
    BY <1>8, <1>11, SendAssumptions DEF HonestInv, TablesOK
<1>12. StoreTrue'
    BY <1>1, <1>2, StoreFrame DEF HonestInv
<1>13. TokensWhole'
    <2>1. \A u \in Send : status[u] = "REVERTED" => status'[u] = "REVERTED"
        BY <1>8, <1>11
    <2>2. QED
        BY <1>1, <1>2, <2>1, TokensFrame DEF HonestInv
<1>14. StatusTrue'
    <2>1. ASSUME NEW u \in Send
          PROVE  /\ status'[u] \in {"none", "DRAFT", "PREPARED", "EXECUTING"} => token[u] = {}
                 /\ status'[u] = "COMPLETED" => token[u] # {} /\ token[u] \subseteq claimed
                 /\ status'[u] = "REVERTED" => status[u] = "REVERTED"
        <3>1. CASE u = t
            <4>1. status'[u] = s
                BY <1>11, <3>1
            <4>2. QED
                BY <1>4, <1>8, <1>9, <3>1, <4>1
        <3>2. CASE u # t
            <4>1. status'[u] = status[u]
                BY <1>11, <3>2
            <4>2. QED
                BY <4>1 DEF HonestInv, StatusTrue
        <3>3. QED
            BY <3>1, <3>2
    <2>2. QED
        BY <1>1, <2>1 DEF HonestInv, StatusTrue
<1>15. SendTrue' /\ RevertTrue'
    BY <1>7 DEF SendTrue, RevertTrue
<1>16. SyncTrue'
    <2>1. \A w \in watches' : Whole(w)'
        BY <1>1 DEF HonestInv, SyncTrue, Whole
    <2>2. Whole(job.spent)'
        BY <1>1, <1>3, <1>7 DEF Whole
    <2>3. job'.spent \subseteq Having(mem', "SPENT")
        BY <1>1, <1>3, <1>7 DEF Having
    <2>4. job'.todo \subseteq {mem'[p].tx : p \in job'.spent}
        BY <1>1, <1>3, <1>7
    <2>5. QED
        BY <1>7, <2>1, <2>2, <2>3, <2>4 DEF SyncTrue, Having
<1>17. QED
    BY <1>10, <1>12, <1>13, <1>14, <1>15, <1>16 DEF HonestInv

LEMMA SettledHonest ==
    ASSUME HonestInv, Settled
    PROVE  HonestInv'
<1>1. /\ job.kind = "sync" /\ job' = Idle
      /\ UNCHANGED <<disk, mem, status, token, asked, watches, mintSpent, claimed>>
    BY DEF Settled, storeVars, userVars, mintVars
<1>2. QED
    BY <1>1, SyncEndsHonest

\* No token is found partly spent, so nothing is released.
LEMMA ReleaseImpossible ==
    ASSUME HonestInv, Release
    PROVE  FALSE
BY DEF Release, HonestInv, SyncTrue, Told

------------------------------------------------------------------------------
(* While nothing is lost, payees redeem whole tokens and picks are fresh.  *)

LEMMA HonestInit == Init => HonestInv
<1> SUFFICES ASSUME Init PROVE HonestInv
    OBVIOUS
<1>1. /\ job.kind = "idle" /\ ~Locking /\ ~Taken /\ ~Told
    BY DEF Init, Idle, Locking, Taken, Told, Calling
<1>2. TablesOK
    BY SendAssumptions DEF Init, TablesOK, Status, AskedRec
<1>3. StoreTrue
    BY <1>1 DEF Init, StoreTrue, Having, Held, Absent
<1>4. TokensWhole
    BY <1>1 DEF Init, TokensWhole
<1>5. StatusTrue
    <2>1. \A t \in Send : status[t] = "none" /\ asked[t].want = "none"
        BY SendAssumptions DEF Init, Nothing
    <2>2. QED
        BY <2>1 DEF Init, StatusTrue
<1>6. SendTrue /\ RevertTrue
    BY <1>1 DEF SendTrue, RevertTrue
<1>7. SyncTrue
    BY <1>1 DEF Init, SyncTrue
<1>8. QED
    BY <1>2, <1>3, <1>4, <1>5, <1>6, <1>7 DEF HonestInv

LEMMA HonestStep ==
    ASSUME ~PartialClaims, IInv, IInv', CalmInv, HonestInv, PicksAreFresh,
           [Next]_vars, ~Crash, ~Lost
    PROVE  HonestInv'
<1>1. ASSUME NEW t \in Send, AskSend(t) \/ AskRevert(t) \/ Claim(t) \/ RefuseSend(t)
      PROVE  HonestInv'
    BY <1>1, AskSendHonest, AskRevertHonest, ClaimHonest, RefuseSendHonest
<1>2. ASSUME NEW t \in Send, StartSend(t) \/ StartRevert(t)
      PROVE  HonestInv'
    BY <1>2, StartSendHonest, StartRevertHonest
<1>3. ASSUME NEW t \in Send, SweepDrop(t) \/ SweepRetry(t)
      PROVE  FALSE
    <2>1. inflight[t] # NoRequest /\ job = Idle
        BY <1>3 DEF SweepDrop, SweepRetry, Ready
    <2>2. QED
        BY <2>1, NoCallNoLock DEF CalmInv, Idle, Calling
<1>4. CASE SyncPending \/ SyncUnspent
    BY <1>4, StartSyncHonest
<1>5. CASE SendSteps
    BY <1>5, SelectHonest, PreparedHonest, ExecuteWithoutSwapHonest DEF SendSteps
<1>6. CASE CallSteps
    BY <1>6, CallMintHonest, AcceptHonest, RefusedHonest, CommitSendHonest,
       CommitRevertHonest, UndoHonest, FailHonest
    DEF CallSteps
<1>7. CASE SyncSteps
    BY <1>7, CheckHonest, WriteOffHonest, ReleaseImpossible, SettledHonest, SettleTxHonest
    DEF SyncSteps
<1>8. CASE MintSteps
    BY <1>8, MintAnswersHonest DEF MintSteps
<1>9. ~Restart
    BY DEF Restart, Load, Recovered, RecoverOrphan, CalmInv, OneCallOnly
<1>10. CASE UNCHANGED vars
    <2>1. UNCHANGED <<disk, mem, status, token, asked, job, watches, mintSpent, claimed>>
        BY <1>10 DEF vars, storeVars, sendVars
    <2>2. /\ Locking' = Locking /\ Taken' = Taken /\ Told' = Told /\ Live' = Live
          /\ Outputs(job)' = Outputs(job) /\ PayeePart(job)' = PayeePart(job)
        BY <2>1 DEF Locking, Taken, Told, Live, Outputs, PayeePart
    <2>3. TablesOK' /\ StatusTrue' /\ SyncTrue'
        BY <2>1, <2>2 DEF HonestInv, TablesOK, StatusTrue, SyncTrue, Whole, Having
    <2>4. StoreTrue' /\ TokensWhole'
        BY <2>1, <2>2, StoreFrame, TokensFrame DEF HonestInv
    <2>5. SendTrue' /\ RevertTrue'
        BY <2>1, <2>2 DEF HonestInv, SendTrue, RevertTrue, NeedsSwap, Having
    <2>6. QED
        BY <2>3, <2>4, <2>5 DEF HonestInv
<1>11. QED
    BY <1>1, <1>2, <1>3, <1>4, <1>5, <1>6, <1>7, <1>8, <1>9, <1>10 DEF Next

\* While no process dies, no answer is lost, payees redeem tokens whole and proofs picked
\* by hand are still spendable when their send runs, both tables tell the truth about every
\* token.
THEOREM HonestInvariance == ~PartialClaims => (Spec /\ [](Calm /\ PicksAreFresh) => []HonestInv)
<1> SUFFICES ASSUME ~PartialClaims
             PROVE  Spec /\ [](Calm /\ PicksAreFresh) => []HonestInv
    OBVIOUS
<1>1. Init => HonestInv
    BY HonestInit
<1>2. HonestInv /\ IInv /\ IInv' /\ (FaultsOK /\ (Calm => CalmInv)) /\ (Calm /\ PicksAreFresh)
        /\ Calm' /\ [Next]_vars => HonestInv'
    <2> SUFFICES ASSUME HonestInv, IInv, IInv', FaultsOK, Calm => CalmInv, Calm, PicksAreFresh,
                        Calm', [Next]_vars
                 PROVE  HonestInv'
        OBVIOUS
    <2>1. CalmInv /\ ~Crash /\ ~Lost
        BY CalmBefore
    <2>2. QED
        BY <2>1, HonestStep
<1>3. QED
    BY <1>1, <1>2, Invariance, CalmInvariance, PTL DEF Spec

\* As long as nothing is lost, tokens are redeemed whole and picks are fresh, a send is
\* COMPLETED only if a payee has redeemed all of its token: finalize, which hears from the mint
\* only that the proofs are spent, never mistakes the wallet's own reclaim or swap for the
\* payee (sendOperationApi.ts 589-636).
THEOREM CompletedIsDelivered ==
    ~PartialClaims => (Spec /\ [](Calm /\ PicksAreFresh) => []CompletedOnlyIfDelivered)
<1> SUFFICES ASSUME ~PartialClaims
             PROVE  Spec /\ [](Calm /\ PicksAreFresh) => []CompletedOnlyIfDelivered
    OBVIOUS
<1>1. HonestInv => CompletedOnlyIfDelivered
    BY DEF HonestInv, StatusTrue, CompletedOnlyIfDelivered
<1>2. QED
    BY <1>1, HonestInvariance, PTL

\* Under the same conditions a send is REVERTED only if no payee has any of its token, however
\* the reclaim and the payee race (revertTask.ts 114-125).
THEOREM RevertedIsKept ==
    ~PartialClaims => (Spec /\ [](Calm /\ PicksAreFresh) => []RevertedOnlyIfKept)
<1> SUFFICES ASSUME ~PartialClaims
             PROVE  Spec /\ [](Calm /\ PicksAreFresh) => []RevertedOnlyIfKept
    OBVIOUS
<1>1. HonestInv => RevertedOnlyIfKept
    BY DEF HonestInv, StatusTrue, RevertedOnlyIfKept
<1>2. QED
    BY <1>1, HonestInvariance, PTL

\* Under the same conditions the balance holds no proof that the mint has as spent: neither the
\* inputs of a swap nor what a payee redeemed (sendOperationApi.ts 411-413).
THEOREM BalanceIsReal ==
    ~PartialClaims => (Spec /\ [](Calm /\ PicksAreFresh) => []SpendableIsReal)
<1> SUFFICES ASSUME ~PartialClaims
             PROVE  Spec /\ [](Calm /\ PicksAreFresh) => []SpendableIsReal
    OBVIOUS
<1>1. HonestInv => SpendableIsReal
    BY DEF HonestInv, StoreTrue, SpendableIsReal
<1>2. QED
    BY <1>1, HonestInvariance, PTL

\* Under the same conditions no proof of a token is in the balance, also while a reclaim of it
\* fails and puts it back (revertTask.ts 71-77).
THEOREM TokenIsNotSpendable ==
    ~PartialClaims => (Spec /\ [](Calm /\ PicksAreFresh) => []HandedOutNotSpendable)
<1> SUFFICES ASSUME ~PartialClaims
             PROVE  Spec /\ [](Calm /\ PicksAreFresh) => []HandedOutNotSpendable
    OBVIOUS
<1>1. HonestInv => HandedOutNotSpendable
    BY DEF HonestInv, StoreTrue, HandedOutNotSpendable, Having
<1>2. QED
    BY <1>1, HonestInvariance, PTL

\* While nothing is lost and tokens are redeemed whole, no ecash is given to two payees, unless
\* a proof picked by hand was taken by another task before its send ran
\* (sendOperationApi.ts 209-224).
THEOREM NoProofGivenTwice == ~PartialClaims => (Spec /\ []Calm => TokensDisjoint)
<1> SUFFICES ASSUME ~PartialClaims
             PROVE  Spec /\ []Calm => TokensDisjoint
    OBVIOUS
<1>1. HonestInv => Disjoint
    BY TokensApart DEF HonestInv, Disjoint
<1>2. QED
    BY <1>1, HonestInvariance, PTL DEF TokensDisjoint

------------------------------------------------------------------------------
(* What is written off stays so, whatever is lost.                         *)

\* The mint has taken what is written off: on disk, in memory, or in what a reservation
\* puts back.
TakenFirst ==
    /\ \A p \in Proof : disk[p].state = "SPENT" \/ mem[p].state = "SPENT" => p \in mintSpent
    /\ \A r \in rows : \A p \in DOMAIN r.locked : r.locked[p].state = "SPENT" => p \in mintSpent

Usable(p) == mem[p].state \in {"UNSPENT", "PENDING"}

\* No task takes a proof that is written off for another: it has no node, or a SPENT one.
NodesFollow ==
    /\ \A p \in Proof : disk[p].state = "SPENT" => ~Usable(p)
    /\ phase = "up" =>
           \A r \in rows : \A p \in DOMAIN r.locked : r.locked[p].state = "SPENT" => ~Usable(p)

RowsStored == \A r \in rows : DOMAIN r.locked \subseteq Stored

\* What a task holds between its reservation and the end of it.
RowIsOwn ==
    Locking =>
        /\ job.row \in rows
        /\ DOMAIN job.row.locked \subseteq job.offered
        /\ job.kind # "retry" =>
               \A p \in DOMAIN job.row.locked : job.row.locked[p].state # "SPENT"

\* A call uses all that it offers: cashu-ts returns nothing unchanged.
RequestsUseAll ==
    \A t \in Send : inflight[t] # NoRequest => inflight[t].used = inflight[t].offered

CallUsesAll ==
    /\ job.kind = "send" /\ job.pc \in {"reserved", "prepared", "call", "wait", "commit"} =>
           job.tx \in Offline \/ Covers(job.tx, job.offered)
    /\ job.kind = "send" /\ job.pc \in {"call", "wait", "commit"} => job.tx \notin Offline
    /\ job.kind = "send" /\ job.pc \in {"wait", "commit"} => job.used = job.offered
    /\ job.kind \in {"revert", "retry"} => job.used = job.offered

\* The mint has taken the inputs of a call that was answered, and its outputs are new.
AnswerHolds ==
    /\ Taken => job.used \subseteq mintSpent
    /\ job.kind \in Calling /\ job.pc = "commit" => Outputs(job) \cap Stored = {}

\* What the mint told the sync: nothing it called unspent has been written off since.
ToldHolds ==
    Told => /\ job.spent \subseteq mintSpent /\ job.spent \cap job.unspent = {}
            /\ \A p \in job.unspent : mem[p].state # "SPENT"

StoreSpent == TakenFirst /\ NodesFollow /\ RowsStored
TaskSpent  == RowIsOwn /\ RequestsUseAll /\ CallUsesAll /\ AnswerHolds /\ ToldHolds
SpentInv   == StoreSpent /\ TaskSpent

\* More proofs are worth more.
LEMMA WorthGrows ==
    ASSUME NEW W \in SUBSET Proof, NEW V \in SUBSET W
    PROVE  Worth(V) <= Worth(W)
<1>1. IsFiniteSet(W \cap Base) /\ IsFiniteSet(W \ Base)
    BY ProofsFinite, FS_Intersection, FS_Difference
<1>2. V \cap Base \in SUBSET (W \cap Base) /\ V \ Base \in SUBSET (W \ Base)
    OBVIOUS
<1>3. /\ Cardinality(V \cap Base) <= Cardinality(W \cap Base)
      /\ Cardinality(V \ Base) <= Cardinality(W \ Base)
    BY <1>1, <1>2, FS_Subset
<1>4. /\ Cardinality(V \cap Base) \in Nat /\ Cardinality(W \cap Base) \in Nat
      /\ Cardinality(V \ Base) \in Nat /\ Cardinality(W \ Base) \in Nat
    BY ProofsFinite
<1>5. \A a, b \in Nat : a <= b => BaseWorth * a <= BaseWorth * b
    BY SendAssumptions
<1>6. BaseWorth * Cardinality(V \cap Base) <= BaseWorth * Cardinality(W \cap Base)
    BY <1>3, <1>4, <1>5
<1>7. \A a, b \in Nat : BaseWorth * a \in Nat
    BY SendAssumptions
<1>8. /\ BaseWorth * Cardinality(V \cap Base) \in Nat
      /\ BaseWorth * Cardinality(W \cap Base) \in Nat
    BY <1>4, <1>7
<1>9. QED
    BY <1>3, <1>4, <1>6, <1>8 DEF Worth

\* A cover without a superfluous proof holds no smaller one.
LEMMA CoverIsMinimal ==
    ASSUME NEW t \in Send, NEW S \in SUBSET Proof, NEW V \in SUBSET S,
           Covers(t, S), Covers(t, V)
    PROVE  V = S
<1>1. ASSUME NEW p \in S, p \notin V
      PROVE  FALSE
    <2>1. V \in SUBSET (S \ {p}) /\ S \ {p} \in SUBSET Proof /\ V \in SUBSET Proof
        BY <1>1
    <2>2. Worth(V) <= Worth(S \ {p})
        BY <2>1, WorthGrows
    <2>3. Worth(S \ {p}) < Amount[t] /\ Worth(V) >= Amount[t]
        BY <1>1 DEF Covers
    <2>4. Worth(V) \in Nat /\ Worth(S \ {p}) \in Nat
        BY <2>1, ProofsFinite
    <2>5. Amount[t] \in Nat
        BY SendAssumptions DEF Slots
    <2>6. QED
        BY <2>2, <2>3, <2>4, <2>5
<1>2. QED
    BY <1>1

------------------------------------------------------------------------------
(* Written off: the primitives of the store.                               *)

LEMMA SpentFrame ==
    ASSUME StoreSpent, UNCHANGED storeVars, mintSpent \subseteq mintSpent',
           phase' = "up" => phase = "up" \/ rows = {}
    PROVE  StoreSpent'
<1>1. UNCHANGED <<disk, mem, rows>>
    BY DEF storeVars
<1>2. Stored' = Stored /\ \A p : Usable(p)' = Usable(p)
    BY <1>1 DEF Stored, Usable
<1>3. TakenFirst'
    BY <1>1 DEF StoreSpent, TakenFirst
<1>4. NodesFollow'
    BY <1>1, <1>2 DEF StoreSpent, NodesFollow
<1>5. RowsStored'
    BY <1>1, <1>2 DEF StoreSpent, RowsStored
<1>6. QED
    BY <1>3, <1>4, <1>5 DEF StoreSpent

\* A node is usable or SPENT.
LEMMA LiveState ==
    ASSUME StoreOK, NEW p \in Live
    PROVE  p \in Proof /\ (Usable(p) \/ mem[p].state = "SPENT")
BY DEF StoreOK, Live, Usable, ProofRec, ProofState

\* In a wallet that is up, what is written off is of no use to a task.
LEMMA WrittenOffUnusable ==
    ASSUME StoreSpent, phase = "up", NEW p \in WrittenOff
    PROVE  ~Usable(p)
BY DEF StoreSpent, NodesFollow, WrittenOff, Locked

\* What is written off is in the table.
LEMMA WrittenOffStored ==
    ASSUME StoreSpent, NEW p \in WrittenOff
    PROVE  p \in Stored
BY DEF StoreSpent, RowsStored, WrittenOff, Locked, Stored, Absent, Held

\* A lock of usable proofs, or of what a request names as it is.
LEMMA ReserveSpent ==
    ASSUME StoreOK, StoreOK', StoreSpent, phase = "up", phase' = "up", mintSpent' = mintSpent,
           Stored' = Stored,
           NEW t, NEW op, NEW S, NEW back \in {"UNSPENT", "PENDING", "preserve"},
           Reserve(t, op, S, back), back # "preserve" => \A p \in S : Usable(p)
    PROVE  StoreSpent' /\ WrittenOff \subseteq WrittenOff'
<1> DEFINE row == RowFor(t, op, S, back)
<1>1. /\ S \subseteq Live
      /\ rows' = rows \cup {row}
      /\ disk' = [p \in Proof |-> IF p \in S THEN Held("PENDING", t) ELSE disk[p]]
      /\ mem'  = [p \in Proof |-> IF p \in S /\ mem[p].state # "SPENT"
                                  THEN Held("PENDING", t) ELSE mem[p]]
    BY DEF Reserve
<1>2. /\ DOMAIN row.locked = S
      /\ \A p \in S : row.locked[p].state = IF back = "preserve" THEN mem[p].state ELSE back
    BY DEF RowFor, Snapshot, Held
<1> HIDE DEF row
<1>3. \A p \in S : row.locked[p].state = "SPENT" <=> mem[p].state = "SPENT"
    BY <1>2 DEF Usable
<1>4. \A p \in Proof : /\ disk'[p].state = "SPENT" => p \notin S /\ disk[p].state = "SPENT"
                       /\ mem'[p].state = "SPENT" <=> mem[p].state = "SPENT"
                       /\ Usable(p)' <=> Usable(p)
    <2>1. ASSUME NEW p \in Proof, p \in S
          PROVE  /\ disk'[p].state = "PENDING"
                 /\ mem'[p].state = "SPENT" <=> mem[p].state = "SPENT"
                 /\ Usable(p)' <=> Usable(p)
        <3>1. Usable(p) \/ mem[p].state = "SPENT"
            BY <1>1, <2>1, LiveState
        <3>2. disk'[p].state = "PENDING" /\ (mem[p].state # "SPENT" => mem'[p].state = "PENDING")
              /\ (mem[p].state = "SPENT" => mem'[p] = mem[p])
            BY <1>1, <2>1 DEF Held
        <3>3. QED
            BY <3>1, <3>2 DEF Usable
    <2>2. ASSUME NEW p \in Proof, p \notin S
          PROVE  disk'[p] = disk[p] /\ mem'[p] = mem[p]
        BY <1>1, <2>2
    <2>3. QED
        BY <2>1, <2>2 DEF Usable
<1>5. S \subseteq Proof /\ S \subseteq Stored
    BY <1>1 DEF Live, StoreOK
<1>6. TakenFirst'
    BY <1>1, <1>2, <1>3, <1>4, <1>5 DEF StoreSpent, TakenFirst
<1>7. NodesFollow'
    <2>1. ASSUME NEW r \in rows, NEW p \in DOMAIN r.locked, r.locked[p].state = "SPENT"
          PROVE  ~Usable(p)'
        <3>1. p \in Proof /\ ~Usable(p)
            BY <2>1 DEF StoreSpent, NodesFollow, RowsStored, Stored
        <3>2. QED
            BY <3>1, <1>4
    <2>2. ASSUME NEW p \in S, row.locked[p].state = "SPENT"
          PROVE  ~Usable(p)'
        BY <2>2, <1>3, <1>4, <1>5 DEF Usable
    <2>3. \A p \in Proof : disk'[p].state = "SPENT" => ~Usable(p)'
        BY <1>4 DEF StoreSpent, NodesFollow
    <2>4. QED
        BY <1>1, <1>2, <2>1, <2>2, <2>3 DEF NodesFollow
<1>8. RowsStored'
    BY <1>1, <1>2, <1>5 DEF StoreSpent, RowsStored
<1>9. ASSUME NEW p \in WrittenOff
      PROVE  p \in WrittenOff'
    <2>1. p \in Proof /\ ~Usable(p)
        BY <1>9, WrittenOffUnusable DEF WrittenOff
    <2>2. CASE p \in S
        <3>1. row.locked[p].state = "SPENT"
            BY <1>1, <1>3, <2>1, <2>2, LiveState
        <3>2. QED
            BY <1>1, <1>2, <2>1, <2>2, <3>1 DEF WrittenOff, Locked
    <2>3. CASE p \notin S
        BY <1>1, <1>2, <1>9, <2>1, <2>3 DEF WrittenOff, Locked
    <2>4. QED
        BY <2>2, <2>3
<1>10. QED
    BY <1>6, <1>7, <1>8, <1>9 DEF StoreSpent

\* A commit writes off what its reservation wrote off, and all it writes off is taken.
LEMMA CommitSpent ==
    ASSUME StoreOK, StoreSpent, phase = "up", phase' = "up", mintSpent' = mintSpent,
           Stored \subseteq Stored',
           NEW r, NEW A, NEW new, Commit(r, A, {}, new), A \subseteq mintSpent,
           DOMAIN new \cap Stored = {}, \A p \in DOMAIN new : new[p].state # "SPENT",
           r \in rows, \A p \in DOMAIN r.locked : r.locked[p].state = "SPENT" => p \in A
    PROVE  StoreSpent' /\ WrittenOff \subseteq WrittenOff'
<1> DEFINE moved(table) == Move(Move(table, A, "SPENT"), {}, "UNSPENT")
<1>1. /\ rows' = rows \ {r}
      /\ disk' = [p \in Proof |-> IF p \in DOMAIN new THEN new[p] ELSE moved(disk)[p]]
      /\ mem'  = [p \in Proof |-> IF p \in DOMAIN new /\ moved(mem)[p].state # "SPENT"
                                  THEN new[p] ELSE moved(mem)[p]]
    BY DEF Commit
<1>2. ASSUME NEW table \in [Proof -> ProofRec \cup {Absent}], NEW p \in Proof
      PROVE  /\ p \in A /\ table[p] # Absent => moved(table)[p].state = "SPENT"
             /\ p \notin A \/ table[p] = Absent => moved(table)[p] = table[p]
    <2>1. table[p] # Absent => [table[p] EXCEPT !.state = "SPENT"].state = "SPENT"
        BY <1>2 DEF ProofRec
    <2>2. QED
        BY <2>1 DEF Move
<1> HIDE DEF moved
<1>3. /\ disk \in [Proof -> ProofRec \cup {Absent}] /\ mem \in [Proof -> ProofRec \cup {Absent}]
      /\ Live \subseteq Stored /\ Absent.state = "none"
    BY DEF StoreOK, Absent, Held
<1>4. ASSUME NEW p \in Proof, p \in Stored
      PROVE  /\ disk'[p].state = "SPENT" <=> p \in A \/ disk[p].state = "SPENT"
             /\ mem'[p].state = "SPENT" => p \in A \/ mem[p].state = "SPENT"
             /\ Usable(p)' => p \notin A /\ Usable(p)
    <2>1. p \notin DOMAIN new /\ disk[p] # Absent
        BY <1>4 DEF Stored
    <2>2. disk'[p] = moved(disk)[p] /\ mem'[p] = moved(mem)[p]
        BY <1>1, <2>1
    <2>3. disk'[p].state = "SPENT" <=> p \in A \/ disk[p].state = "SPENT"
        BY <1>2, <1>3, <2>1, <2>2
    <2>4. CASE p \in A /\ mem[p] # Absent
        <3>1. mem'[p].state = "SPENT"
            BY <1>2, <1>3, <2>2, <2>4
        <3>2. QED
            BY <2>3, <2>4, <3>1 DEF Usable
    <2>5. CASE ~(p \in A /\ mem[p] # Absent)
        <3>1. mem'[p] = mem[p]
            BY <1>2, <1>3, <2>2, <2>5
        <3>2. Usable(p)' => p \notin A
            BY <1>3, <2>5, <3>1 DEF Usable
        <3>3. QED
            BY <2>3, <3>1, <3>2 DEF Usable
    <2>6. QED
        BY <2>4, <2>5
<1>5. ASSUME NEW p \in Proof, p \notin Stored
      PROVE  disk'[p].state # "SPENT" /\ mem'[p].state # "SPENT"
    <2>1. disk[p] = Absent /\ mem[p] = Absent
        BY <1>3, <1>5 DEF Stored, Live
    <2>2. moved(disk)[p] = Absent /\ moved(mem)[p] = Absent
        BY <1>2, <1>3, <2>1
    <2>3. QED
        BY <1>1, <1>3, <2>2
<1>6. TakenFirst'
    <2>1. ASSUME NEW p \in Proof, disk'[p].state = "SPENT" \/ mem'[p].state = "SPENT"
          PROVE  p \in mintSpent
        BY <1>4, <1>5, <2>1 DEF StoreSpent, TakenFirst
    <2>2. QED
        BY <1>1, <2>1 DEF StoreSpent, TakenFirst
<1>7. NodesFollow'
    <2>1. ASSUME NEW p \in Proof, disk'[p].state = "SPENT"
          PROVE  ~Usable(p)'
        BY <1>4, <1>5, <2>1 DEF StoreSpent, NodesFollow
    <2>2. ASSUME NEW s \in rows, NEW p \in DOMAIN s.locked, s.locked[p].state = "SPENT"
          PROVE  ~Usable(p)'
        BY <1>4, <2>2 DEF StoreSpent, NodesFollow, RowsStored, Stored
    <2>3. QED
        BY <1>1, <2>1, <2>2 DEF NodesFollow
<1>8. RowsStored'
    BY <1>1 DEF StoreSpent, RowsStored
<1>9. ASSUME NEW p \in WrittenOff
      PROVE  p \in WrittenOff'
    <2>1. p \in Proof /\ p \in Stored
        BY <1>9, WrittenOffStored DEF WrittenOff
    <2>2. \A s \in rows' : s \in rows /\ (p \in DOMAIN s.locked => s.locked[p].state = "SPENT")
        BY <1>1, <1>9 DEF WrittenOff
    <2>3. CASE p \in DOMAIN r.locked
        <3>1. disk'[p].state = "SPENT"
            BY <1>4, <1>9, <2>1, <2>3 DEF WrittenOff
        <3>2. QED
            BY <2>1, <2>2, <3>1 DEF WrittenOff
    <2>4. CASE p \notin DOMAIN r.locked
        <3>1. disk'[p].state = "SPENT" \/ Locked(p)'
            BY <1>1, <1>4, <1>9, <2>1, <2>4 DEF WrittenOff, Locked
        <3>2. QED
            BY <2>1, <2>2, <3>1 DEF WrittenOff
    <2>5. QED
        BY <2>3, <2>4
<1>10. QED
    BY <1>6, <1>7, <1>8, <1>9 DEF StoreSpent

\* A rollback puts back SPENT where its reservation found it.
LEMMA RollbackSpent ==
    ASSUME StoreOK, StoreSpent, phase' = phase, mintSpent' = mintSpent, Stored' = Stored,
           NEW r \in rows, Rollback(r)
    PROVE  StoreSpent' /\ WrittenOff \subseteq WrittenOff'
<1>1. /\ rows' = rows \ {r}
      /\ disk' = [p \in Proof |-> IF p \in DOMAIN r.locked /\ disk[p] # Absent
                                  THEN r.locked[p] ELSE disk[p]]
      /\ mem'  = [p \in Proof |->
                     IF p \in DOMAIN r.locked /\ mem[p] # Absent /\ mem[p].state # "SPENT"
                     THEN Held(r.locked[p].state,
                               IF r.locked[p].tx = NoTx THEN mem[p].tx ELSE r.locked[p].tx)
                     ELSE mem[p]]
    BY DEF Rollback
<1>2. ASSUME NEW p \in Proof, p \in DOMAIN r.locked
      PROVE  /\ disk'[p] = r.locked[p]
             /\ mem'[p].state = "SPENT" => r.locked[p].state = "SPENT" \/ mem[p].state = "SPENT"
             /\ Usable(p)' => Usable(p) /\ r.locked[p].state # "SPENT"
    <2>1. disk[p] # Absent
        BY <1>2 DEF StoreSpent, RowsStored, Stored
    <2>2. disk'[p] = r.locked[p]
        BY <1>1, <1>2, <2>1
    <2>3. CASE Usable(p)
        <3>1. mem[p] # Absent /\ mem[p].state # "SPENT"
            BY <2>3 DEF Usable, Absent, Held
        <3>2. mem'[p].state = r.locked[p].state
            BY <1>1, <1>2, <3>1 DEF Held
        <3>3. QED
            BY <2>2, <2>3, <3>2 DEF Usable
    <2>4. CASE ~Usable(p)
        <3>1. mem[p] = Absent \/ mem[p].state = "SPENT"
            BY <2>4, LiveState DEF Live
        <3>2. mem'[p] = mem[p]
            BY <1>1, <3>1
        <3>3. QED
            BY <2>2, <2>4, <3>2 DEF Usable
    <2>5. QED
        BY <2>3, <2>4
<1>3. ASSUME NEW p \in Proof, p \notin DOMAIN r.locked
      PROVE  disk'[p] = disk[p] /\ mem'[p] = mem[p] /\ Usable(p)' = Usable(p)
    BY <1>1, <1>3 DEF Usable
<1>4. TakenFirst'
    <2>1. ASSUME NEW p \in Proof, disk'[p].state = "SPENT" \/ mem'[p].state = "SPENT"
          PROVE  p \in mintSpent
        BY <1>2, <1>3, <2>1 DEF StoreSpent, TakenFirst
    <2>2. QED
        BY <1>1, <2>1 DEF StoreSpent, TakenFirst
<1>5. NodesFollow'
    <2>1. ASSUME NEW p \in Proof, disk'[p].state = "SPENT"
          PROVE  ~Usable(p)'
        BY <1>2, <1>3, <2>1 DEF StoreSpent, NodesFollow
    <2>2. ASSUME phase = "up", NEW s \in rows, NEW p \in DOMAIN s.locked,
                 s.locked[p].state = "SPENT"
          PROVE  ~Usable(p)'
        <3>1. p \in Proof /\ ~Usable(p)
            BY <2>2 DEF StoreSpent, NodesFollow, RowsStored, Stored
        <3>2. QED
            BY <1>2, <1>3, <3>1
    <2>3. QED
        BY <1>1, <2>1, <2>2 DEF NodesFollow
<1>6. RowsStored'
    BY <1>1 DEF StoreSpent, RowsStored
<1>7. ASSUME NEW p \in WrittenOff
      PROVE  p \in WrittenOff'
    <2>1. p \in Proof /\ \A s \in rows : p \in DOMAIN s.locked => s.locked[p].state = "SPENT"
        BY <1>7 DEF WrittenOff
    <2>2. disk'[p].state = "SPENT" \/ Locked(p)'
        <3>1. CASE p \in DOMAIN r.locked
            BY <1>2, <2>1, <3>1
        <3>2. CASE p \notin DOMAIN r.locked
            BY <1>1, <1>3, <1>7, <2>1, <3>2 DEF WrittenOff, Locked
        <3>3. QED
            BY <3>1, <3>2
    <2>3. QED
        BY <1>1, <2>1, <2>2 DEF WrittenOff
<1>8. QED
    BY <1>4, <1>5, <1>6, <1>7 DEF StoreSpent

\* Sync writes off what the mint has taken, and makes spendable what is not written off.
LEMMA OverwriteSpent ==
    ASSUME StoreOK, StoreSpent, phase = "up", phase' = "up", mintSpent' = mintSpent,
           Stored' = Stored, NEW S, NEW s, S \subseteq Live, Overwrite(S, s),
           \/ s = "SPENT" /\ S \subseteq mintSpent
           \/ s = "UNSPENT" /\ \A p \in S : mem[p].state # "SPENT"
    PROVE  /\ StoreSpent' /\ WrittenOff \subseteq WrittenOff'
           /\ \A p \in Proof \ S : mem'[p] = mem[p]
<1>1. /\ rows' = rows
      /\ disk' = [p \in Proof |-> IF p \in S THEN [mem[p] EXCEPT !.state = s] ELSE disk[p]]
      /\ mem'  = [p \in Proof |-> IF p \in S THEN [mem[p] EXCEPT !.state = s] ELSE mem[p]]
    BY DEF Overwrite
<1>2. ASSUME NEW p \in S
      PROVE  /\ p \in Proof /\ disk'[p].state = s /\ mem'[p].state = s
             /\ s = "UNSPENT" => Usable(p)
             /\ Usable(p)' <=> s = "UNSPENT"
    <2>1. p \in Live /\ p \in Proof /\ mem[p] \in ProofRec
        BY <1>2 DEF Live, StoreOK
    <2>2. disk'[p] = [mem[p] EXCEPT !.state = s] /\ mem'[p] = [mem[p] EXCEPT !.state = s]
        BY <1>1, <2>1
    <2>3. disk'[p].state = s /\ mem'[p].state = s
        BY <2>1, <2>2 DEF ProofRec
    <2>4. s = "UNSPENT" => Usable(p)
        BY <2>1, LiveState
    <2>5. Usable(p)' <=> s = "UNSPENT"
        BY <2>3 DEF Usable
    <2>6. QED
        BY <2>1, <2>3, <2>4, <2>5
<1>3. ASSUME NEW p \in Proof, p \notin S
      PROVE  disk'[p] = disk[p] /\ mem'[p] = mem[p] /\ Usable(p)' = Usable(p)
    BY <1>1, <1>3 DEF Usable
<1>4. TakenFirst'
    <2>1. ASSUME NEW p \in Proof, disk'[p].state = "SPENT" \/ mem'[p].state = "SPENT"
          PROVE  p \in mintSpent
        BY <1>2, <1>3, <2>1 DEF StoreSpent, TakenFirst
    <2>2. QED
        BY <1>1, <2>1 DEF StoreSpent, TakenFirst
<1>5. ASSUME NEW p \in Proof, ~Usable(p)
      PROVE  ~Usable(p)'
    BY <1>2, <1>3, <1>5
<1>6. NodesFollow'
    <2>1. ASSUME NEW p \in Proof, disk'[p].state = "SPENT"
          PROVE  ~Usable(p)'
        BY <1>2, <1>3, <2>1 DEF StoreSpent, NodesFollow
    <2>2. ASSUME NEW r \in rows, NEW p \in DOMAIN r.locked, r.locked[p].state = "SPENT"
          PROVE  ~Usable(p)'
        BY <1>5, <2>2 DEF StoreSpent, NodesFollow, RowsStored, Stored
    <2>3. QED
        BY <1>1, <2>1, <2>2 DEF NodesFollow
<1>7. RowsStored'
    BY <1>1 DEF StoreSpent, RowsStored
<1>8. ASSUME NEW p \in WrittenOff
      PROVE  p \in WrittenOff'
    <2>1. p \in Proof /\ ~Usable(p)
        BY <1>8, WrittenOffUnusable DEF WrittenOff
    <2>2. disk'[p].state = "SPENT" \/ disk'[p] = disk[p]
        BY <1>2, <1>3, <2>1
    <2>3. QED
        BY <1>1, <1>8, <2>2 DEF WrittenOff, Locked
<1>9. QED
    BY <1>3, <1>4, <1>6, <1>7, <1>8 DEF StoreSpent

------------------------------------------------------------------------------
(* Written off: what a step that moves no proof leaves.                    *)

LEMMA RequestDropped ==
    ASSUME RequestsOK, RequestsUseAll,
           \/ inflight' = inflight
           \/ \E t : inflight' = [inflight EXCEPT ![t] = NoRequest]
    PROVE  RequestsUseAll'
<1>1. \A t \in Send : inflight'[t] = inflight[t] \/ inflight'[t] = NoRequest
    BY DEF RequestsOK
<1>2. QED
    BY <1>1 DEF RequestsUseAll

LEMMA NoTaskSpent ==
    ASSUME RequestsUseAll', job'.kind \notin Calling, ~Told'
    PROVE  TaskSpent'
<1>1. ~Locking' /\ ~Taken'
    BY DEF Locking, Taken
<1>2. RowIsOwn' /\ CallUsesAll' /\ AnswerHolds' /\ ToldHolds'
    BY <1>1 DEF RowIsOwn, CallUsesAll, AnswerHolds, ToldHolds, Calling
<1>3. QED
    BY <1>2 DEF TaskSpent

\* A step of the user, a payee or the screens.
LEMMA UnrelatedSpent ==
    ASSUME SpentInv, RequestsUseAll', UNCHANGED <<storeVars, job>>,
           mintSpent \subseteq mintSpent', phase' = "up" => phase = "up" \/ rows = {}
    PROVE  SpentInv'
<1>1. StoreSpent'
    BY SpentFrame DEF SpentInv
<1>2. UNCHANGED <<disk, mem, rows>>
    BY DEF storeVars
<1>3. /\ Locking' = Locking /\ Taken' = Taken /\ Told' = Told /\ Outputs(job)' = Outputs(job)
      /\ Stored' = Stored
    BY <1>2 DEF Locking, Taken, Told, Outputs, Stored
<1>4. RowIsOwn' /\ CallUsesAll' /\ AnswerHolds' /\ ToldHolds'
    BY <1>2, <1>3
    DEF SpentInv, TaskSpent, RowIsOwn, CallUsesAll, AnswerHolds, ToldHolds, Covers
<1>5. QED
    BY <1>1, <1>4 DEF SpentInv, TaskSpent

\* A task goes on with its call.
LEMMA CallGoesOnSpent ==
    ASSUME SpentInv, RequestsUseAll', CallUsesAll', AnswerHolds', UNCHANGED <<storeVars, phase>>,
           mintSpent \subseteq mintSpent', Locking \/ ~Locking', job'.kind \in Calling,
           job'.kind = job.kind, job'.row = job.row, job'.offered = job.offered
    PROVE  SpentInv'
<1>1. StoreSpent'
    BY SpentFrame DEF SpentInv
<1>2. rows' = rows
    BY DEF storeVars
<1>3. RowIsOwn'
    BY <1>2 DEF SpentInv, TaskSpent, RowIsOwn
<1>4. ToldHolds'
    BY DEF ToldHolds, Told, Calling
<1>5. QED
    BY <1>1, <1>3, <1>4 DEF SpentInv, TaskSpent

------------------------------------------------------------------------------
(* Written off: the steps of a send before its call.                       *)

LEMMA StartSendSpent ==
    ASSUME SpentInv, NEW t \in Send, StartSend(t)
    PROVE  SpentInv' /\ UNCHANGED storeVars
<1>1. /\ job' = Task("send", t, "select", NoRow, {}, {})
      /\ UNCHANGED <<storeVars, inflight, phase, mintSpent>>
    BY DEF StartSend, mintVars
<1>2. job'.kind = "send" /\ job'.pc = "select"
    BY <1>1, TaskFields
<1>3. StoreSpent'
    BY <1>1, SpentFrame DEF SpentInv
<1>4. ~Locking' /\ ~Taken' /\ ~Told'
    BY <1>2 DEF Locking, Taken, Told
<1>5. RequestsUseAll'
    BY <1>1 DEF SpentInv, TaskSpent, RequestsUseAll
<1>6. RowIsOwn' /\ CallUsesAll' /\ AnswerHolds' /\ ToldHolds'
    BY <1>2, <1>4 DEF RowIsOwn, CallUsesAll, AnswerHolds, ToldHolds
<1>7. QED
    BY <1>1, <1>3, <1>5, <1>6 DEF SpentInv, TaskSpent

\* A send locks usable proofs, and none to spare.
LEMMA SelectSpent ==
    ASSUME ~Extras, IInv, SpentInv, PicksAreFresh, Select
    PROVE  SpentInv' /\ WrittenOff \subseteq WrittenOff'
<1> DEFINE row(S) == RowFor(job.tx, "send", S, "UNSPENT")
<1>1. PICK S \in SUBSET Live :
          /\ Selection(job.tx, S)
          /\ Reserve(job.tx, "send", S, "UNSPENT")
          /\ job' = [job EXCEPT !.pc = "reserved", !.offered = S, !.row = row(S)]
    BY Zenon DEF Select
<1>2. /\ job \in CallJob /\ phase = "up" /\ job.kind = "send" /\ job.pc = "select"
      /\ UNCHANGED <<inflight, phase, mintSpent>>
    BY CallingJob DEF Select, IInv, Calling, mintVars
<1>3. S \subseteq Spendable /\ (job.tx \in Offline \/ Covers(job.tx, S))
    BY <1>1, <1>2 DEF Selection, PicksAreFresh
<1>4. \A p \in S : Usable(p)
    BY <1>3 DEF Spendable, Having, Usable
<1>5. job.tx \in Send /\ job.tx \in Tx /\ "send" \in Calling /\ "UNSPENT" \in RollbackTo
    BY <1>2, SendAssumptions DEF CallJob, Calling, RollbackTo, ProofState
<1>6. StoreOK' /\ Stored' = Stored
    BY <1>1, <1>5, ReserveStep DEF IInv
<1>7. StoreSpent' /\ WrittenOff \subseteq WrittenOff'
    BY <1>1, <1>2, <1>4, <1>6, ReserveSpent DEF IInv, SpentInv
<1>8. /\ rows' = rows \cup {row(S)} /\ DOMAIN row(S).locked = S
      /\ \A p \in S : row(S).locked[p].state = "UNSPENT"
    BY <1>1 DEF Reserve, RowFor, Snapshot, Held
<1> HIDE DEF row
<1>9. /\ job'.kind = "send" /\ job'.pc = "reserved" /\ job'.row = row(S) /\ job'.offered = S
      /\ job'.tx = job.tx
    BY <1>1, <1>2 DEF CallJob
<1>10. RequestsUseAll'
    BY <1>2 DEF SpentInv, TaskSpent, RequestsUseAll
<1>11. RowIsOwn'
    BY <1>8, <1>9 DEF RowIsOwn
<1>12. CallUsesAll' /\ AnswerHolds' /\ ToldHolds'
    <2>1. Covers(job'.tx, job'.offered) \/ job'.tx \in Offline
        BY <1>3, <1>9
    <2>2. ~Taken' /\ ~Told'
        BY <1>9 DEF Taken, Told
    <2>3. QED
        BY <1>9, <2>1, <2>2 DEF CallUsesAll, AnswerHolds, ToldHolds
<1>13. QED
    BY <1>7, <1>10, <1>11, <1>12 DEF SpentInv, TaskSpent

LEMMA PreparedSpent ==
    ASSUME IInv, SpentInv, Prepared \/ ExecuteWithSwap
    PROVE  SpentInv' /\ UNCHANGED storeVars
<1>1. /\ UNCHANGED <<storeVars, inflight, phase, mintSpent>>
      /\ job.kind = "send" /\ job.pc \in {"reserved", "prepared"}
      /\ \/ job' = [job EXCEPT !.pc = "prepared"]
         \/ job' = [job EXCEPT !.pc = "call"] /\ job.tx \notin Offline
    BY DEF Prepared, ExecuteWithSwap, NeedsSwap, mintVars
<1>2. job \in CallJob
    BY <1>1, CallingJob DEF IInv, Calling
<1>3. /\ job'.kind = "send" /\ job'.row = job.row /\ job'.offered = job.offered
      /\ job'.tx = job.tx
      /\ job'.pc = "prepared" \/ (job'.pc = "call" /\ job.tx \notin Offline)
    BY <1>1, <1>2 DEF CallJob
<1>4. Locking /\ ~Taken' /\ job'.kind \in Calling
    BY <1>1, <1>3 DEF Locking, Taken, Calling
<1>5. job.tx \in Offline \/ Covers(job.tx, job.offered)
    BY <1>1 DEF SpentInv, TaskSpent, CallUsesAll
<1>6. CallUsesAll' /\ AnswerHolds' /\ RequestsUseAll'
    <2>1. Covers(job'.tx, job'.offered) \/ job'.tx \in Offline
        BY <1>3, <1>5
    <2>2. RequestsUseAll'
        BY <1>1 DEF SpentInv, TaskSpent, RequestsUseAll
    <2>3. QED
        BY <1>3, <1>4, <2>1, <2>2 DEF CallUsesAll, AnswerHolds
<1>7. SpentInv'
    BY <1>1, <1>3, <1>4, <1>6, CallGoesOnSpent
<1>8. QED
    BY <1>1, <1>7

LEMMA ExecuteWithoutSwapSpent ==
    ASSUME IInv, SpentInv, ExecuteWithoutSwap
    PROVE  SpentInv' /\ WrittenOff \subseteq WrittenOff'
<1>1. /\ job.kind = "send" /\ job.pc = "prepared" /\ job' = Idle
      /\ Commit(job.row, {}, {}, <<>>) /\ UNCHANGED <<inflight, phase, mintSpent>>
    BY DEF ExecuteWithoutSwap, mintVars
<1>2. phase = "up" /\ Locking /\ job'.kind \notin Calling /\ ~Told'
    BY <1>1, CallingJob DEF IInv, Calling, Locking, Told, Idle
<1>3. /\ job.row \in rows
      /\ \A p \in DOMAIN job.row.locked : job.row.locked[p].state # "SPENT"
    BY <1>1, <1>2 DEF SpentInv, TaskSpent, RowIsOwn
<1>4. DOMAIN <<>> = {}
    OBVIOUS
<1>5. Stored' = Stored
    BY ExecuteWithoutSwapStore DEF Stored
<1>6. StoreSpent' /\ WrittenOff \subseteq WrittenOff'
    <2> DEFINE none == <<>>
    <2>1. DOMAIN none = {} /\ Commit(job.row, {}, {}, none)
        BY <1>1, <1>4
    <2> HIDE DEF none
    <2>2. QED
        BY <1>1, <1>2, <1>3, <1>5, <2>1, CommitSpent DEF IInv, SpentInv
<1>7. TaskSpent'
    BY <1>1, <1>2, NoTaskSpent DEF SpentInv, TaskSpent, RequestsUseAll
<1>8. QED
    BY <1>6, <1>7 DEF SpentInv

------------------------------------------------------------------------------
(* Written off: the other tasks that call the mint, up to the call.        *)

LEMMA StartRevertSpent ==
    ASSUME IInv, SpentInv, NEW t \in Send, StartRevert(t)
    PROVE  SpentInv' /\ (UNCHANGED storeVars \/ WrittenOff \subseteq WrittenOff')
<1> DEFINE S == PendingOf(t)
           row == RowFor(t, "revert", S, "PENDING")
<1>1. /\ phase = "up" /\ UNCHANGED <<inflight, phase, mintSpent>>
      /\ \/ job' = Task("revert", t, "failed", NoRow, {}, {}) /\ UNCHANGED storeVars
         \/ job' = Task("revert", t, "call", row, S, S) /\ Reserve(t, "revert", S, "PENDING")
    BY DEF StartRevert, Ready, mintVars
<1>2. RequestsUseAll'
    BY <1>1 DEF SpentInv, TaskSpent, RequestsUseAll
<1>3. CASE job' = Task("revert", t, "failed", NoRow, {}, {}) /\ UNCHANGED storeVars
    <2>1. job'.kind = "revert" /\ job'.pc = "failed" /\ job'.used = job'.offered
        BY <1>3, TaskFields
    <2>2. ~Locking' /\ ~Taken' /\ ~Told'
        BY <2>1 DEF Locking, Taken, Told
    <2>3. RowIsOwn' /\ CallUsesAll' /\ AnswerHolds' /\ ToldHolds'
        BY <2>1, <2>2 DEF RowIsOwn, CallUsesAll, AnswerHolds, ToldHolds
    <2>4. StoreSpent'
        BY <1>1, <1>3, SpentFrame DEF SpentInv
    <2>5. QED
        BY <1>2, <1>3, <2>3, <2>4 DEF SpentInv, TaskSpent
<1>4. CASE job' = Task("revert", t, "call", row, S, S) /\ Reserve(t, "revert", S, "PENDING")
    <2>1. t \in Tx /\ "revert" \in Calling /\ "PENDING" \in RollbackTo
        BY SendAssumptions DEF Calling, RollbackTo, ProofState
    <2>2. S \in SUBSET Live /\ \A p \in S : Usable(p)
        BY DEF PendingOf, Having, Live, Absent, Held, Usable
    <2>3. /\ rows' = rows \cup {row} /\ DOMAIN row.locked = S
          /\ \A p \in S : row.locked[p].state = "PENDING"
        BY <1>4 DEF Reserve, RowFor, Snapshot, Held
    <2>4. job' = Task("revert", t, "call", row, S, S)
        BY <1>4
    <2> HIDE DEF row, S
    <2>5. StoreOK' /\ Stored' = Stored
        BY <1>4, <2>1, <2>2, ReserveStep DEF IInv
    <2>6. StoreSpent' /\ WrittenOff \subseteq WrittenOff'
        BY <1>1, <1>4, <2>2, <2>5, ReserveSpent DEF IInv, SpentInv
    <2>7. /\ job'.kind = "revert" /\ job'.pc = "call" /\ job'.used = job'.offered
          /\ job'.row = row /\ job'.offered = S
        BY <2>4, TaskFields
    <2>8. ~Taken' /\ ~Told'
        BY <2>7 DEF Taken, Told
    <2>9. RowIsOwn' /\ CallUsesAll' /\ AnswerHolds' /\ ToldHolds'
        BY <2>3, <2>7, <2>8 DEF RowIsOwn, CallUsesAll, AnswerHolds, ToldHolds
    <2>10. QED
        BY <1>2, <2>6, <2>9 DEF SpentInv, TaskSpent
<1>5. QED
    BY <1>1, <1>3, <1>4

\* The replay locks what its request names as it finds it.
LEMMA SweepRetrySpent ==
    ASSUME IInv, SpentInv, NEW t \in Send, SweepRetry(t)
    PROVE  SpentInv' /\ WrittenOff \subseteq WrittenOff'
<1> DEFINE S == inflight[t].offered \cap Live
           row == RowFor(t, "retry", S, "preserve")
<1>1. /\ phase = "up" /\ UNCHANGED <<inflight, phase, mintSpent>> /\ inflight[t] # NoRequest
      /\ Reserve(t, "retry", S, "preserve")
      /\ job' = Task("retry", t, "call", row, inflight[t].offered, inflight[t].used)
    BY DEF SweepRetry, Ready, mintVars
<1>2. t \in Tx /\ "retry" \in Calling /\ "preserve" \in RollbackTo
    BY SendAssumptions DEF Calling, RollbackTo
<1>3. /\ rows' = rows \cup {row} /\ DOMAIN row.locked = S
      /\ S \in SUBSET Live /\ S \subseteq inflight[t].offered
    BY <1>1 DEF Reserve, RowFor
<1> HIDE DEF row, S
<1>4. StoreOK' /\ Stored' = Stored
    BY <1>1, <1>2, <1>3, ReserveStep DEF IInv
<1>5. StoreSpent' /\ WrittenOff \subseteq WrittenOff'
    BY <1>1, <1>4, ReserveSpent DEF IInv, SpentInv
<1>6. /\ job'.kind = "retry" /\ job'.pc = "call" /\ job'.row = row
      /\ job'.offered = inflight[t].offered /\ job'.used = inflight[t].used
    BY <1>1, TaskFields
<1>7. inflight[t].used = inflight[t].offered
    BY <1>1 DEF SpentInv, TaskSpent, RequestsUseAll
<1>8. ~Taken' /\ ~Told'
    BY <1>6 DEF Taken, Told
<1>9. RowIsOwn' /\ CallUsesAll' /\ AnswerHolds' /\ ToldHolds'
    BY <1>3, <1>6, <1>7, <1>8 DEF RowIsOwn, CallUsesAll, AnswerHolds, ToldHolds
<1>10. RequestsUseAll'
    BY <1>1 DEF SpentInv, TaskSpent, RequestsUseAll
<1>11. QED
    BY <1>5, <1>9, <1>10 DEF SpentInv, TaskSpent

------------------------------------------------------------------------------
(* Written off: the call and its outcomes.                                 *)

LEMMA CallMintSpent ==
    ASSUME IInv, SpentInv, CallMint
    PROVE  SpentInv' /\ UNCHANGED storeVars
<1>1. /\ job \in CallJob /\ job.kind \in Calling /\ job.pc = "call"
      /\ UNCHANGED <<storeVars, phase, mintSpent>>
    BY CallingJob DEF CallMint, IInv
<1>2. PICK U \in IF job.kind = "send"
                 THEN {V \in SUBSET job.offered : Covers(job.tx, V)} ELSE {job.used} :
      \E start \in {Maximum(derived, counter')} :
          /\ derived' = start + 1
          /\ job' = [job EXCEPT !.pc = "wait", !.used = U, !.index = start, !.answer = "none"]
          /\ inflight' = IF Nut19 /\ job.kind # "retry"
                         THEN [inflight EXCEPT ![job.tx] = [kind |-> job.kind, used |-> U,
                                                            offered |-> job.offered]]
                         ELSE inflight
    BY Zenon DEF CallMint
<1>3. /\ job'.kind = job.kind /\ job'.tx = job.tx /\ job'.row = job.row /\ job'.pc = "wait"
      /\ job'.offered = job.offered /\ job'.used = U /\ job'.answer = "none"
    BY <1>1, <1>2 DEF CallJob
<1>4. U = job.offered
    <2>1. CASE job.kind = "send"
        <3>1. Covers(job.tx, job.offered) /\ job.tx \in Send /\ job.offered \in SUBSET Proof
            BY <1>1, <2>1 DEF SpentInv, TaskSpent, CallUsesAll, CallJob
        <3>2. U \in SUBSET job.offered /\ Covers(job.tx, U)
            BY <1>2, <2>1
        <3>3. QED
            BY <3>1, <3>2, CoverIsMinimal
    <2>2. CASE job.kind # "send"
        <3>1. U = job.used /\ job.kind \in {"revert", "retry"}
            BY <1>1, <1>2, <2>2 DEF Calling
        <3>2. QED
            BY <3>1 DEF SpentInv, TaskSpent, CallUsesAll
    <2>3. QED
        BY <2>1, <2>2
<1>5. RequestsUseAll'
    <2>1. ASSUME NEW t \in Send, inflight'[t] # NoRequest
          PROVE  inflight'[t].used = inflight'[t].offered
        <3>1. \/ inflight'[t] = inflight[t]
              \/ inflight'[t] = [kind |-> job.kind, used |-> U, offered |-> job.offered]
            BY <1>2 DEF IInv, RequestsOK
        <3>2. QED
            BY <1>4, <2>1, <3>1 DEF SpentInv, TaskSpent, RequestsUseAll
    <2>2. QED
        BY <2>1 DEF RequestsUseAll
<1>6. Locking /\ ~Taken' /\ job'.kind \in Calling
    BY <1>1, <1>3 DEF Locking, Taken
<1>7. CallUsesAll'
    <2>1. job.kind = "send" => Covers(job'.tx, job'.offered) /\ job'.tx \notin Offline
        BY <1>1, <1>3 DEF SpentInv, TaskSpent, CallUsesAll
    <2>2. QED
        BY <1>3, <1>4, <2>1 DEF CallUsesAll
<1>8. AnswerHolds'
    BY <1>3, <1>6 DEF AnswerHolds
<1>9. SpentInv'
    BY <1>1, <1>3, <1>5, <1>6, <1>7, <1>8, CallGoesOnSpent
<1>10. QED
    BY <1>1, <1>9

\* The outputs of an answered call are new to the table (NeverStored).
LEMMA AcceptSpent ==
    ASSUME IInv, SpentInv, Accept
    PROVE  SpentInv' /\ UNCHANGED storeVars
<1>1. /\ job \in CallJob /\ job.kind \in Calling /\ job.pc = "wait" /\ job.answer = "ok"
      /\ inflight' = [inflight EXCEPT ![job.tx] = NoRequest]
      /\ job' = [job EXCEPT !.pc = "commit"]
      /\ UNCHANGED <<storeVars, phase, mintSpent>>
    BY CallingJob DEF Accept, IInv, mintVars
<1>2. /\ job'.kind = job.kind /\ job'.tx = job.tx /\ job'.row = job.row /\ job'.pc = "commit"
      /\ job'.offered = job.offered /\ job'.used = job.used /\ job'.index = job.index
    BY <1>1 DEF CallJob
<1>3. Locking /\ Taken
    BY <1>1 DEF Locking, Taken
<1>4. RequestsUseAll'
    BY <1>1, RequestDropped DEF IInv, SpentInv, TaskSpent
<1>5. CallUsesAll'
    <2>1. job.kind = "send" => /\ Covers(job'.tx, job'.offered) /\ job'.tx \notin Offline
                               /\ job'.used = job'.offered
        BY <1>1, <1>2 DEF SpentInv, TaskSpent, CallUsesAll
    <2>2. job.kind \in {"revert", "retry"} => job'.used = job'.offered
        BY <1>2 DEF SpentInv, TaskSpent, CallUsesAll
    <2>3. QED
        BY <1>2, <2>1, <2>2 DEF CallUsesAll
<1>6. AnswerHolds'
    <2>1. Outputs(job) \cap Stored = {}
        BY <1>1, NeverStored DEF FreshOutputs
    <2>2. Outputs(job') = Outputs(job) /\ Stored' = Stored
        BY <1>1, <1>2 DEF Outputs, Stored, storeVars
    <2>3. job'.used \subseteq mintSpent'
        BY <1>1, <1>2, <1>3 DEF SpentInv, TaskSpent, AnswerHolds
    <2>4. QED
        BY <2>1, <2>2, <2>3 DEF AnswerHolds
<1>7. SpentInv'
    BY <1>1, <1>2, <1>3, <1>4, <1>5, <1>6, CallGoesOnSpent
<1>8. QED
    BY <1>1, <1>7

\* What the error paths leave of a task.
LEMMA ErrorKeeps ==
    ASSUME job \in CallJob, NEW heal \in BOOLEAN
    PROVE  /\ AfterError(heal).kind = job.kind /\ AfterError(heal).tx = job.tx
           /\ AfterError(heal).used = job.used
<1> DEFINE outcome == {[job EXCEPT !.pc = "call", !.healed = TRUE],
                       [job EXCEPT !.pc = "failed"], [job EXCEPT !.pc = "undo"]}
<1>1. AfterError(heal) \in outcome
    BY DEF AfterError
<1>2. \A j \in outcome : j.kind = job.kind /\ j.tx = job.tx /\ j.used = job.used
    BY DEF CallJob
<1>3. QED
    BY <1>1, <1>2

LEMMA RefusedSpent ==
    ASSUME IInv, SpentInv, Refused \/ Lost
    PROVE  SpentInv' /\ UNCHANGED storeVars
<1>1. /\ job \in CallJob /\ job.kind \in Calling /\ job.pc = "wait"
      /\ UNCHANGED <<storeVars, phase, mintSpent>>
      /\ inflight' = [inflight EXCEPT ![job.tx] = NoRequest] \/ inflight' = inflight
    BY CallingJob DEF Refused, Lost, IInv, mintVars
<1>2. PICK heal \in BOOLEAN : job' = AfterError(heal)
    <2>1. CASE Refused
        BY <2>1 DEF Refused
    <2>2. CASE Lost
        BY <2>2 DEF Lost
    <2>3. QED
        BY <2>1, <2>2
<1>3. /\ job'.kind = job.kind /\ job'.tx = job.tx /\ job'.row = job.row
      /\ job'.offered = job.offered /\ job'.used = job.used
      /\ job'.pc \in {"call", "failed", "undo"}
    BY <1>1, <1>2, ErrorShape, ErrorKeeps
<1>4. Locking /\ ~Taken' /\ job'.kind \in Calling
    BY <1>1, <1>3 DEF Locking, Taken
<1>5. RequestsUseAll'
    BY <1>1, RequestDropped DEF IInv, SpentInv, TaskSpent
<1>6. CallUsesAll'
    <2>1. job.kind = "send" => Covers(job'.tx, job'.offered) /\ job'.tx \notin Offline
        BY <1>1, <1>3 DEF SpentInv, TaskSpent, CallUsesAll
    <2>2. job.kind \in {"revert", "retry"} => job'.used = job'.offered
        BY <1>3 DEF SpentInv, TaskSpent, CallUsesAll
    <2>3. QED
        BY <1>3, <2>1, <2>2 DEF CallUsesAll
<1>7. AnswerHolds'
    BY <1>3, <1>4 DEF AnswerHolds
<1>8. SpentInv'
    BY <1>1, <1>3, <1>4, <1>5, <1>6, <1>7, CallGoesOnSpent
<1>9. QED
    BY <1>1, <1>8

\* "ok" means that the mint has taken the inputs, now or when it first answered.
LEMMA MintAnswersSpent ==
    ASSUME IInv, SpentInv, NEW q \in net, NEW a, MintAnswers(q, a)
    PROVE  SpentInv' /\ UNCHANGED storeVars
<1>1. /\ UNCHANGED <<storeVars, inflight, phase>>
      /\ a = "ok" => mintSpent' = mintSpent \cup q.used
      /\ mintSpent \subseteq mintSpent'
      /\ \/ job' = job
         \/ /\ job.kind \in Calling /\ job.pc = "wait" /\ Wire(job) = q
            /\ job' = [job EXCEPT !.answer = a]
    BY DEF MintAnswers
<1>2. RequestsUseAll'
    BY <1>1 DEF SpentInv, TaskSpent, RequestsUseAll
<1>3. CASE job' = job
    <2>1. SpentInv'
        BY <1>1, <1>2, <1>3, UnrelatedSpent
    <2>2. QED
        BY <1>1, <2>1
<1>4. CASE /\ job.kind \in Calling /\ job.pc = "wait" /\ Wire(job) = q
           /\ job' = [job EXCEPT !.answer = a]
    <2>1. job \in CallJob
        BY <1>4, CallingJob DEF IInv
    <2>2. /\ job'.kind = job.kind /\ job'.tx = job.tx /\ job'.row = job.row
          /\ job'.offered = job.offered /\ job'.used = job.used /\ job'.pc = "wait"
          /\ job'.answer = a /\ q.used = job.used
        BY <1>4, <2>1 DEF CallJob, Wire
    <2>3. Locking /\ job'.kind \in Calling
        BY <1>4, <2>2 DEF Locking
    <2>4. CallUsesAll'
        <3>1. job.kind = "send" => /\ Covers(job'.tx, job'.offered) /\ job'.tx \notin Offline
                                   /\ job'.used = job'.offered
            BY <1>4, <2>2 DEF SpentInv, TaskSpent, CallUsesAll
        <3>2. job.kind \in {"revert", "retry"} => job'.used = job'.offered
            BY <2>2 DEF SpentInv, TaskSpent, CallUsesAll
        <3>3. QED
            BY <2>2, <3>1, <3>2 DEF CallUsesAll
    <2>5. AnswerHolds'
        BY <1>1, <2>2 DEF AnswerHolds, Taken
    <2>6. SpentInv'
        BY <1>1, <1>2, <2>2, <2>3, <2>4, <2>5, CallGoesOnSpent
    <2>7. QED
        BY <1>1, <2>6
<1>5. QED
    BY <1>1, <1>3, <1>4

------------------------------------------------------------------------------
(* Written off: resolving the reservation.                                 *)

\* The task ends with a commit of all its inputs.
LEMMA CommitTaskSpent ==
    ASSUME IInv, SpentInv, CommitSend \/ CommitRevert
    PROVE  SpentInv' /\ WrittenOff \subseteq WrittenOff'
<1> DEFINE new == NewProofs(job)
<1>1. /\ job.kind \in Calling /\ job.pc = "commit" /\ job' = Idle
      /\ UNCHANGED <<inflight, phase, mintSpent>>
    BY DEF CommitSend, CommitRevert, Calling, mintVars
<1>2. PICK A :
          /\ A = IF job.kind = "send" THEN job.used
                 ELSE IF job.kind = "retry" THEN DOMAIN job.row.locked ELSE job.offered
          /\ Commit(job.row, A, {}, new)
    BY DEF CommitSend, CommitRevert, CommitWithCounter
<1>3. job \in CallJob /\ phase = "up" /\ Locking /\ Taken
    BY <1>1, CallingJob DEF IInv, Locking, Taken
<1>4. /\ job.row \in rows /\ DOMAIN job.row.locked \subseteq job.offered
      /\ job.kind # "retry" => \A p \in DOMAIN job.row.locked : job.row.locked[p].state # "SPENT"
      /\ job.used = job.offered /\ job.used \subseteq mintSpent
      /\ Outputs(job) \cap Stored = {}
    <2>1. job.used = job.offered
        BY <1>1 DEF SpentInv, TaskSpent, CallUsesAll, Calling
    <2>2. QED
        BY <1>1, <1>3, <2>1 DEF SpentInv, TaskSpent, RowIsOwn, AnswerHolds
<1>5. A \subseteq mintSpent /\ \A p \in DOMAIN job.row.locked :
                                   job.row.locked[p].state = "SPENT" => p \in A
    BY <1>2, <1>4
<1>6. /\ DOMAIN new = Outputs(job) \cup Unchanged(job)
      /\ \A p \in DOMAIN new : new[p] \in ProofRec /\ new[p].state # "SPENT"
    <2>1. \A p \in DOMAIN new : new[p].state # "SPENT"
        BY DEF NewProofs, Held
    <2>2. QED
        BY <1>3, <2>1, NewProofsShape
<1>7. DOMAIN new \cap Stored = {}
    BY <1>4, <1>6 DEF Unchanged
<1> HIDE DEF new
<1>8. Stored \subseteq Stored'
    BY <1>2, <1>6, CommitStep DEF IInv
<1>9. StoreSpent' /\ WrittenOff \subseteq WrittenOff'
    BY <1>1, <1>2, <1>3, <1>4, <1>5, <1>6, <1>7, <1>8, CommitSpent DEF IInv, SpentInv
<1>10. TaskSpent'
    <2>1. job'.kind \notin Calling /\ ~Told'
        BY <1>1 DEF Idle, Calling, Told
    <2>2. RequestsUseAll'
        BY <1>1 DEF SpentInv, TaskSpent, RequestsUseAll
    <2>3. QED
        BY <2>1, <2>2, NoTaskSpent
<1>11. QED
    BY <1>9, <1>10 DEF SpentInv

LEMMA UndoSpent ==
    ASSUME IInv, SpentInv, Undo
    PROVE  SpentInv' /\ WrittenOff \subseteq WrittenOff'
<1>1. /\ job.kind \in Calling /\ job.pc = "undo" /\ Rollback(job.row)
      /\ job' = Idle \/ job' = [job EXCEPT !.pc = "failed"]
      /\ UNCHANGED <<inflight, phase, mintSpent>>
    BY DEF Undo, mintVars
<1>2. job \in CallJob /\ phase = "up" /\ job.row \in Row /\ Locking
    BY <1>1, CallingJob DEF IInv, CallOK, Locking
<1>3. job.row \in rows
    BY <1>2 DEF SpentInv, TaskSpent, RowIsOwn
<1>4. Stored' = Stored
    BY <1>1, <1>2, RollbackStep DEF IInv
<1>5. StoreSpent' /\ WrittenOff \subseteq WrittenOff'
    BY <1>1, <1>3, <1>4, RollbackSpent DEF IInv, SpentInv
<1>6. RequestsUseAll'
    BY <1>1 DEF SpentInv, TaskSpent, RequestsUseAll
<1>7. TaskSpent'
    <2>1. CASE job' = Idle
        <3>1. job'.kind \notin Calling /\ ~Told'
            BY <2>1 DEF Idle, Calling, Told
        <3>2. QED
            BY <1>6, <3>1, NoTaskSpent
    <2>2. CASE job' = [job EXCEPT !.pc = "failed"]
        <3>1. /\ job'.kind = job.kind /\ job'.pc = "failed" /\ job'.used = job.used
              /\ job'.offered = job.offered
            BY <1>2, <2>2 DEF CallJob
        <3>2. ~Locking' /\ ~Taken' /\ ~Told'
            BY <1>1, <3>1 DEF Locking, Taken, Told
        <3>3. RowIsOwn' /\ CallUsesAll' /\ AnswerHolds' /\ ToldHolds'
            BY <3>1, <3>2
            DEF RowIsOwn, CallUsesAll, AnswerHolds, ToldHolds, SpentInv, TaskSpent
        <3>4. QED
            BY <1>6, <3>3 DEF TaskSpent
    <2>3. QED
        BY <1>1, <2>1, <2>2
<1>8. QED
    BY <1>5, <1>7 DEF SpentInv

LEMMA TaskEndsSpent ==
    ASSUME SpentInv, Fail \/ Settled
    PROVE  SpentInv' /\ UNCHANGED storeVars
<1>1. job' = Idle /\ UNCHANGED <<storeVars, inflight, phase, mintSpent>>
    BY DEF Fail, Settled, mintVars
<1>2. job'.kind \notin Calling /\ ~Told'
    BY <1>1 DEF Idle, Calling, Told
<1>3. RequestsUseAll'
    BY <1>1 DEF SpentInv, TaskSpent, RequestsUseAll
<1>4. TaskSpent'
    BY <1>2, <1>3, NoTaskSpent
<1>5. StoreSpent'
    BY <1>1, SpentFrame DEF SpentInv
<1>6. QED
    BY <1>1, <1>4, <1>5 DEF SpentInv

------------------------------------------------------------------------------
(* Written off: sync.                                                      *)

LEMMA StartSyncSpent ==
    ASSUME SpentInv, NEW S, NEW from, StartSync(S, from)
    PROVE  SpentInv' /\ UNCHANGED storeVars
<1>1. /\ job'.kind = "sync" /\ job'.pc = "check"
      /\ UNCHANGED <<storeVars, inflight, phase, mintSpent>>
    BY DEF StartSync, mintVars
<1>2. job'.kind \notin Calling /\ ~Told'
    BY <1>1 DEF Calling, Told
<1>3. RequestsUseAll'
    BY <1>1 DEF SpentInv, TaskSpent, RequestsUseAll
<1>4. TaskSpent'
    BY <1>2, <1>3, NoTaskSpent
<1>5. StoreSpent'
    BY <1>1, SpentFrame DEF SpentInv
<1>6. QED
    BY <1>1, <1>4, <1>5 DEF SpentInv

\* Sync goes on with what it was told.
LEMMA ToldStays ==
    ASSUME RequestsUseAll', job'.kind = "sync", ToldHolds'
    PROVE  TaskSpent'
<1>1. job'.kind \notin Calling /\ ~Locking' /\ ~Taken'
    BY DEF Calling, Locking, Taken
<1>2. RowIsOwn' /\ CallUsesAll' /\ AnswerHolds'
    BY <1>1 DEF RowIsOwn, CallUsesAll, AnswerHolds
<1>3. QED
    BY <1>2 DEF TaskSpent

\* What the mint calls unspent has not been written off.
LEMMA CheckSpent ==
    ASSUME IInv, SpentInv, Check
    PROVE  SpentInv' /\ UNCHANGED storeVars
<1>1. /\ job'.kind = "sync" /\ job'.spent = job.batch \cap mintSpent
      /\ job'.unspent = job.batch \ mintSpent /\ job.kind = "sync" /\ job.pc = "check"
      /\ UNCHANGED <<storeVars, mem, inflight, phase, mintSpent>>
    BY DEF Check, mintVars, storeVars
<1>2. job.batch \subseteq Proof
    BY <1>1, SyncJob DEF IInv, AskJob
<1>3. ToldHolds'
    BY <1>1, <1>2 DEF ToldHolds, SpentInv, StoreSpent, TakenFirst
<1>4. RequestsUseAll'
    BY <1>1 DEF SpentInv, TaskSpent, RequestsUseAll
<1>5. TaskSpent'
    BY <1>1, <1>3, <1>4, ToldStays
<1>6. StoreSpent'
    BY <1>1, SpentFrame DEF SpentInv
<1>7. QED
    BY <1>1, <1>5, <1>6 DEF SpentInv

LEMMA WriteOffSpent ==
    ASSUME IInv, SpentInv, WriteOff
    PROVE  SpentInv' /\ (UNCHANGED storeVars \/ WrittenOff \subseteq WrittenOff')
<1>1. /\ job.kind = "sync" /\ job.pc = "move" /\ UNCHANGED <<inflight, phase, mintSpent>>
    BY DEF WriteOff, mintVars
<1>2. RequestsUseAll'
    BY <1>1 DEF SpentInv, TaskSpent, RequestsUseAll
<1>3. CASE job.spent = {}
    <2>1. UNCHANGED storeVars /\ job' = Idle
        BY <1>3 DEF WriteOff
    <2>2. job'.kind \notin Calling /\ ~Told'
        BY <2>1 DEF Idle, Calling, Told
    <2>3. TaskSpent'
        BY <1>2, <2>2, NoTaskSpent
    <2>4. StoreSpent'
        BY <1>1, <2>1, SpentFrame DEF SpentInv
    <2>5. QED
        BY <2>1, <2>3, <2>4 DEF SpentInv
<1>4. CASE job.spent # {}
    <2>1. /\ job.spent \subseteq Live /\ Overwrite(job.spent, "SPENT")
          /\ job'.kind = "sync" /\ job'.spent = job.spent /\ job'.unspent = job.unspent
        BY <1>4 DEF WriteOff, MoveToSpent
    <2>2. phase = "up" /\ Told /\ job \in ToldJob
        BY <1>1, SyncJob DEF IInv, Told
    <2>3. /\ job.spent \subseteq mintSpent /\ job.spent \cap job.unspent = {}
          /\ \A p \in job.unspent : mem[p].state # "SPENT"
        BY <2>2 DEF SpentInv, TaskSpent, ToldHolds
    <2>4. Stored' = Stored
        BY <2>1, OverwriteStep DEF IInv, ProofState
    <2>5. /\ StoreSpent' /\ WrittenOff \subseteq WrittenOff'
          /\ \A p \in Proof \ job.spent : mem'[p] = mem[p]
        BY <1>1, <2>1, <2>2, <2>3, <2>4, OverwriteSpent DEF IInv, SpentInv
    <2>6. ToldHolds'
        BY <1>1, <2>1, <2>2, <2>3, <2>5 DEF ToldHolds, ToldJob
    <2>7. TaskSpent'
        BY <1>2, <2>1, <2>6, ToldStays
    <2>8. QED
        BY <2>5, <2>7 DEF SpentInv
<1>5. QED
    BY <1>3, <1>4

LEMMA SettleTxSpent ==
    ASSUME IInv, SpentInv, NEW t \in Tx, SettleTx(t)
    PROVE  SpentInv' /\ UNCHANGED storeVars
<1>1. /\ job.kind = "sync" /\ job.pc = "settle" /\ job \in SettleJob
      /\ UNCHANGED <<storeVars, mem, inflight, phase, mintSpent>>
    BY SyncJob DEF SettleTx, IInv, mintVars, storeVars
<1>2. job'.kind = "sync" /\ job'.spent = job.spent /\ job'.unspent = job.unspent
    <2>1. job' = [job EXCEPT !.todo = @ \ {t},
                             !.pc = IF Partial(t) /\ job.from = "PENDING" THEN "release" ELSE @]
        BY DEF SettleTx
    <2>2. QED
        BY <1>1, <2>1 DEF SettleJob
<1>3. Told
    BY <1>1 DEF Told
<1>4. ToldHolds'
    BY <1>1, <1>2, <1>3 DEF ToldHolds, SpentInv, TaskSpent
<1>5. RequestsUseAll'
    BY <1>1 DEF SpentInv, TaskSpent, RequestsUseAll
<1>6. TaskSpent'
    BY <1>2, <1>4, <1>5, ToldStays
<1>7. StoreSpent'
    BY <1>1, SpentFrame DEF SpentInv
<1>8. QED
    BY <1>1, <1>6, <1>7 DEF SpentInv

\* Siblings of a partial spend become spendable, and none of them is written off.
LEMMA ReleaseSpent ==
    ASSUME IInv, SpentInv, Release
    PROVE  SpentInv' /\ WrittenOff \subseteq WrittenOff'
<1>1. /\ job.kind = "sync" /\ job.pc = "release" /\ job \in SettleJob /\ phase = "up" /\ Told
      /\ UNCHANGED <<inflight, phase, mintSpent>>
      /\ job.unspent \subseteq Live /\ Overwrite(job.unspent, "UNSPENT")
      /\ job' = [job EXCEPT !.pc = "settle"]
    BY SyncJob DEF Release, IInv, mintVars, RevertToSpendable, Told
<1>2. job'.kind = "sync" /\ job'.spent = job.spent /\ job'.unspent = job.unspent
    BY <1>1 DEF SettleJob
<1>3. /\ job.spent \subseteq mintSpent /\ job.spent \cap job.unspent = {}
      /\ \A p \in job.unspent : mem[p].state # "SPENT"
    BY <1>1 DEF SpentInv, TaskSpent, ToldHolds
<1>4. Stored' = Stored
    BY <1>1, OverwriteStep DEF IInv, ProofState
<1>5. StoreSpent' /\ WrittenOff \subseteq WrittenOff'
    BY <1>1, <1>3, <1>4, OverwriteSpent DEF IInv, SpentInv
<1>6. \A p \in job.unspent : mem'[p].state # "SPENT"
    <2>1. ASSUME NEW p \in job.unspent
          PROVE  mem'[p].state = "UNSPENT"
        <3>1. p \in Proof /\ mem[p] \in ProofRec
            BY <1>1 DEF Live, IInv, StoreOK
        <3>2. mem'[p] = [mem[p] EXCEPT !.state = "UNSPENT"]
            BY <1>1, <3>1 DEF Overwrite
        <3>3. QED
            BY <3>1, <3>2 DEF ProofRec
    <2>2. QED
        BY <2>1
<1>7. ToldHolds'
    BY <1>1, <1>2, <1>3, <1>6 DEF ToldHolds
<1>8. RequestsUseAll'
    BY <1>1 DEF SpentInv, TaskSpent, RequestsUseAll
<1>9. TaskSpent'
    BY <1>2, <1>7, <1>8, ToldStays
<1>10. QED
    BY <1>5, <1>9 DEF SpentInv

------------------------------------------------------------------------------
(* Written off: dying and coming back.                                     *)

LEMMA CrashSpent ==
    ASSUME SpentInv, Crash
    PROVE  SpentInv' /\ WrittenOff \subseteq WrittenOff'
<1>1. /\ phase' = "loading" /\ job' = Idle /\ UNCHANGED <<disk, rows, inflight, mintSpent>>
      /\ mem' = [p \in Proof |-> Absent]
    BY DEF Crash, mintVars
<1>2. \A p \in Proof : mem'[p].state = "none"
    BY <1>1 DEF Absent, Held
<1>3. TakenFirst'
    BY <1>1, <1>2 DEF SpentInv, StoreSpent, TakenFirst
<1>4. NodesFollow'
    BY <1>1, <1>2 DEF NodesFollow, Usable
<1>5. RowsStored' /\ WrittenOff' = WrittenOff
    BY <1>1 DEF SpentInv, StoreSpent, RowsStored, Stored, WrittenOff, Locked
<1>6. job'.kind \notin Calling /\ ~Told'
    BY <1>1 DEF Idle, Calling, Told
<1>7. TaskSpent'
    BY <1>1, <1>6, NoTaskSpent DEF SpentInv, TaskSpent, RequestsUseAll
<1>8. QED
    BY <1>3, <1>4, <1>5, <1>7 DEF SpentInv, StoreSpent

\* SPENT proofs are not loaded.
LEMMA LoadSpent ==
    ASSUME IInv, SpentInv, Load
    PROVE  SpentInv' /\ WrittenOff \subseteq WrittenOff'
<1>1. /\ phase = "loading" /\ phase' = "recovering"
      /\ UNCHANGED <<disk, rows, inflight, job, mintSpent>>
      /\ mem' = [p \in Proof |-> IF disk[p].state \in {"UNSPENT", "PENDING"}
                                 THEN disk[p] ELSE Absent]
    BY DEF Load, LoadProofs, mintVars
<1>2. Absent.state = "none"
    BY DEF Absent, Held
<1>3. \A p \in Proof : /\ mem'[p].state # "SPENT"
                       /\ disk[p].state = "SPENT" => mem'[p].state = "none"
    BY <1>1, <1>2
<1>4. TakenFirst'
    BY <1>1, <1>3 DEF SpentInv, StoreSpent, TakenFirst
<1>5. NodesFollow'
    BY <1>1, <1>3 DEF NodesFollow, Usable
<1>6. RowsStored' /\ WrittenOff' = WrittenOff
    BY <1>1 DEF SpentInv, StoreSpent, RowsStored, Stored, WrittenOff, Locked
<1>7. job'.kind \notin Calling /\ ~Told'
    BY <1>1 DEF IInv, JobsOK, Idle, Calling, Told
<1>8. TaskSpent'
    BY <1>1, <1>7, NoTaskSpent DEF SpentInv, TaskSpent, RequestsUseAll
<1>9. QED
    BY <1>4, <1>5, <1>6, <1>8 DEF SpentInv, StoreSpent

LEMMA RecoverOrphanSpent ==
    ASSUME IInv, SpentInv, NEW r \in rows, RecoverOrphan(r)
    PROVE  SpentInv' /\ WrittenOff \subseteq WrittenOff'
<1>1. /\ phase = "recovering" /\ Rollback(r) /\ UNCHANGED <<phase, inflight, job, mintSpent>>
    BY DEF RecoverOrphan, sendVars
<1>2. Stored' = Stored
    BY <1>1, RollbackStep DEF IInv, StoreOK
<1>3. StoreSpent' /\ WrittenOff \subseteq WrittenOff'
    BY <1>1, <1>2, RollbackSpent DEF IInv, SpentInv
<1>4. job'.kind \notin Calling /\ ~Told'
    BY <1>1 DEF IInv, JobsOK, Idle, Calling, Told
<1>5. TaskSpent'
    BY <1>1, <1>4, NoTaskSpent DEF SpentInv, TaskSpent, RequestsUseAll
<1>6. QED
    BY <1>3, <1>5 DEF SpentInv

------------------------------------------------------------------------------
(* Written off: every step.                                                *)

LEMMA SpentInit == Init => SpentInv
<1> SUFFICES ASSUME Init PROVE SpentInv
    OBVIOUS
<1>1. /\ disk = [p \in Proof |-> IF p \in Base THEN Held("UNSPENT", Genesis) ELSE Absent]
      /\ mem = disk /\ rows = {} /\ job = Idle /\ inflight = [t \in Send |-> NoRequest]
    BY DEF Init
<1>2. \A p \in Proof : disk[p].state # "SPENT"
    BY <1>1 DEF Held, Absent
<1>3. StoreSpent
    BY <1>1, <1>2 DEF StoreSpent, TakenFirst, NodesFollow, RowsStored
<1>4. job.kind \notin Calling /\ job.kind \notin {"send", "sync", "revert", "retry"}
    BY <1>1 DEF Idle, Calling
<1>5. TaskSpent
    BY <1>1, <1>4 DEF TaskSpent, RowIsOwn, RequestsUseAll, CallUsesAll, AnswerHolds, ToldHolds,
                      Locking, Taken, Told
<1>6. QED
    BY <1>3, <1>5 DEF SpentInv

LEMMA SpentStep ==
    ASSUME ~Extras, IInv, SpentInv, PicksAreFresh, [Next]_vars
    PROVE  SpentInv' /\ (UNCHANGED storeVars \/ WrittenOff \subseteq WrittenOff')
<1> DEFINE Goal == SpentInv' /\ (UNCHANGED storeVars \/ WrittenOff \subseteq WrittenOff')
<1>1. ASSUME NEW t \in Send, AskSend(t) \/ AskRevert(t) \/ Claim(t) \/ RefuseSend(t)
      PROVE  Goal
    <2>1. UNCHANGED <<storeVars, job, inflight, phase>> /\ mintSpent \subseteq mintSpent'
        BY <1>1 DEF AskSend, AskRevert, Claim, RefuseSend, mintVars
    <2>2. RequestsUseAll'
        BY <2>1 DEF SpentInv, TaskSpent, RequestsUseAll
    <2>3. SpentInv'
        BY <2>1, <2>2, UnrelatedSpent
    <2>4. QED
        BY <2>1, <2>3
<1>2. ASSUME NEW t \in Send, SweepDrop(t)
      PROVE  Goal
    <2>1. /\ UNCHANGED <<storeVars, job, phase, mintSpent>>
          /\ inflight' = [inflight EXCEPT ![t] = NoRequest]
        BY <1>2 DEF SweepDrop, mintVars
    <2>2. RequestsUseAll'
        BY <2>1, RequestDropped DEF IInv, SpentInv, TaskSpent
    <2>3. SpentInv'
        BY <2>1, <2>2, UnrelatedSpent
    <2>4. QED
        BY <2>1, <2>3
<1>3. ASSUME NEW t \in Send, StartSend(t) \/ StartRevert(t) \/ SweepRetry(t)
      PROVE  Goal
    BY <1>3, StartSendSpent, StartRevertSpent, SweepRetrySpent
<1>4. CASE SyncPending \/ SyncUnspent
    BY <1>4, StartSyncSpent DEF SyncPending, SyncUnspent
<1>5. CASE SendSteps
    BY <1>5, SelectSpent, PreparedSpent, ExecuteWithoutSwapSpent DEF SendSteps
<1>6. CASE CallSteps \/ Lost
    BY <1>6, CallMintSpent, AcceptSpent, RefusedSpent, CommitTaskSpent, UndoSpent, TaskEndsSpent
    DEF CallSteps
<1>7. CASE SyncSteps
    BY <1>7, CheckSpent, WriteOffSpent, ReleaseSpent, TaskEndsSpent, SettleTxSpent DEF SyncSteps
<1>8. CASE MintSteps
    BY <1>8, MintAnswersSpent DEF MintSteps
<1>9. CASE Crash
    BY <1>9, CrashSpent
<1>10. CASE Restart
    <2>1. CASE Recovered
        <3>1. /\ UNCHANGED <<storeVars, job, inflight, mintSpent>> /\ rows = {}
            BY <2>1 DEF Recovered, mintVars
        <3>2. RequestsUseAll'
            BY <3>1 DEF SpentInv, TaskSpent, RequestsUseAll
        <3>3. SpentInv'
            BY <3>1, <3>2, UnrelatedSpent
        <3>4. QED
            BY <3>1, <3>3
    <2>2. QED
        BY <1>10, <2>1, LoadSpent, RecoverOrphanSpent DEF Restart
<1>11. CASE UNCHANGED vars
    <2>1. UNCHANGED <<storeVars, job, inflight, phase, mintSpent>>
        BY <1>11 DEF vars, sendVars
    <2>2. RequestsUseAll'
        BY <2>1 DEF SpentInv, TaskSpent, RequestsUseAll
    <2>3. SpentInv'
        BY <2>1, <2>2, UnrelatedSpent
    <2>4. QED
        BY <2>1, <2>3
<1>12. QED
    BY <1>1, <1>2, <1>3, <1>4, <1>5, <1>6, <1>7, <1>8, <1>9, <1>10, <1>11 DEF Next

\* If cashu-ts uses every input it is offered, and a proof picked by hand is still free when
\* it is locked, then what is written off has been spent at the mint, whatever dies, is lost
\* or is replayed.
THEOREM SpentInvariance == ~Extras => (Spec /\ []PicksAreFresh => []SpentInv)
<1> SUFFICES ASSUME ~Extras PROVE Spec /\ []PicksAreFresh => []SpentInv
    OBVIOUS
<1>1. IInv /\ SpentInv /\ PicksAreFresh /\ [Next]_vars => SpentInv'
    BY SpentStep
<1>2. QED
    BY <1>1, SpentInit, Invariance, PTL DEF Spec

\* A proof that is written off stays so, through crashes, lost answers, dropped counter
\* writes, partial claims and replays (inFlightOperations.ts 142-151, "never un-spends").
THEOREM SpentIsForever == ~Extras => (Spec /\ []PicksAreFresh => SpentStaysSpent)
<1> SUFFICES ASSUME ~Extras PROVE Spec /\ []PicksAreFresh => SpentStaysSpent
    OBVIOUS
<1>1. IInv /\ SpentInv /\ PicksAreFresh /\ [Next]_vars => [WrittenOff \subseteq WrittenOff']_storeVars
    BY SpentStep
<1>2. QED
    BY <1>1, SpentInvariance, Invariance, PTL DEF Spec, SpentStaysSpent
==============================================================================
