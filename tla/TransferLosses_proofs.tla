------------------------- MODULE TransferLosses_proofs -------------------------
(***************************************************************************)
(* One lost call, or one crash, does not make a status lie:                *)
(* OneLossIsSurvived, for any number of transfers, proofs and workers.     *)
(*                                                                         *)
(* Always is AInv with two facts more, still whatever is lost: ecash has   *)
(* an owner that has begun, and what a melt took is enough for it.         *)
(*                                                                         *)
(* Before the first loss the order of TransferLifecycle_proofs holds, and  *)
(* the reservations are the task's own.  The step that loses a call (a     *)
(* timeout or a crash) leaves a scar: the transfer T of the task and the   *)
(* ecash X it held.  From then on everything that is in doubt, between     *)
(* the wallet and the mint, is about T and X: Scarred(T, X), which every   *)
(* step that loses nothing more keeps, restarts included.  LossInv counts  *)
(* the losses and says which of the two holds.                             *)
(***************************************************************************)
EXTENDS TransferLifecycle_proofs

------------------------------------------------------------------------------
(* Ecash has an owner that has begun, and a melt has enough.               *)

\* The transaction is more than a draft.
Begun(t) == status[t] # "none"

\* Ecash is owned by transactions that have begun; a draft visits nothing.
BegunTrue ==
    /\ status[Genesis] # "none"
    /\ \A p \in Proof : disk[p] # Absent => Begun(disk[p].tx)
    /\ \A p \in Proof : mem[p] # Absent => Begun(mem[p].tx)
    /\ \A r \in rows : \A p \in DOMAIN r.locked : Begun(r.locked[p].tx)
    /\ job.pc \in WithRow => \A p \in job.inputs : Begun(job.row.locked[p].tx)
    /\ \A w \in Worker : visit[w].pc \in Working => Begun(visit[w].tx)

\* What is asked for and what is taken is enough.
EnoughTrue ==
    /\ job.pc \in Holding => Worth(job.inputs) >= Need[job.tx]
    /\ \A q \in net : Worth(q.inputs) >= Need[q.tx]
    /\ \A t \in Transfer : Taken(t) => Worth(quote[t].inputs) >= Need[t]
    /\ job.pc = "swap" /\ job.answer = "swapped" => job.inputs \subseteq mintSpent

\* What holds in every state, whatever is lost and whoever dies.
Always == IInv /\ AInv /\ BegunTrue /\ EnoughTrue

\* What the task may do next, by where it is.
LEMMA JobAt ==
    ASSUME TaskTrue, Lives
    PROVE  \/ UNCHANGED job
           \/ job.pc = "idle" /\ \E t \in Transfer : StartTransfer(t) \/ CheckOnchain(t)
           \/ job.pc = "checking" /\ OnchainChecked
           \/ job.pc = "select" /\ Select
           \/ job.pc = "swap" /\ (MintSwaps \/ CommitSwap \/ SwapFails)
           \/ job.pc = "lock" /\ Lock
           \/ job.pc = "locked" /\ Prepared
           \/ job.pc = "prepared" /\ Execute
           \/ job.pc = "submit" /\ Submit
           \/ job.pc = "wait" /\ (TakeAnswer \/ TakeError \/ LoseAnswer)
           \/ job.pc = "wait" /\ job.answer = "none" /\ (AnswerMelt(job.tx) \/ \E q \in net : RefuseMelt(q) /\ q.tx = job.tx)
           \/ job.pc = "settle" /\ (SettlePaid \/ SettlePending \/ SettleUnpaid)
           \/ job.pc = "recheck" /\ (Recheck \/ RecheckFails)
           \/ job.pc = "judge" /\ (JudgePaid \/ JudgePending \/ JudgeUnpaid)
           \/ job.pc = "rescue" /\ Rescued
           \/ job.pc \in {"nested", "nestedtwice"} /\ NestedDone
           \/ job.pc = "fail" /\ Fail
<1>1. CASE UNCHANGED job
    BY <1>1
<1>2. CASE JobRuns
    BY <1>2 DEF JobRuns, Lock, Prepared, Execute, SettlePaid, SettlePending, SettleUnpaid, Fail, Rescued, OnchainChecked
<1>3. CASE JobResumes
    BY ZenonT(30), <1>3 DEF JobResumes, Select, CommitSwap, Submit, TakeAnswer, TakeError, Recheck, JudgePaid, JudgePending,
       JudgeUnpaid, NestedDone
<1>4. CASE SwapFails \/ LoseAnswer \/ RecheckFails \/ MintSwaps
    BY <1>4 DEF SwapFails, LoseAnswer, RecheckFails, MintSwaps
<1>5. ASSUME NEW t \in Transfer, StartTransfer(t) \/ CheckOnchain(t)
      PROVE  job.pc = "idle" /\ \E u \in Transfer : StartTransfer(u) \/ CheckOnchain(u)
  <2>1. job.pc = "idle"
      BY <1>5 DEF StartTransfer, CheckOnchain, Ready, IdleJob
  <2> QED
      BY <1>5, <2>1
<1>6. ASSUME NEW t \in Transfer, AnswerMelt(t) PROVE job.pc = "wait" /\ job.answer = "none" /\ AnswerMelt(job.tx)
    BY <1>6 DEF AnswerMelt
<1>7. ASSUME NEW q \in net, RefuseMelt(q), ~UNCHANGED job PROVE job.pc = "wait" /\ job.answer = "none" /\ q.tx = job.tx
    BY <1>7 DEF RefuseMelt, Reply
<1> QED
    BY <1>1, <1>2, <1>3, <1>4, <1>5, <1>6, <1>7, JobMoves DEF TaskSteps

\* What the sync may do next, by where it is.
LEMMA SyncAt ==
    ASSUME TaskTrue, SyncTrue, Lives
    PROVE  \/ UNCHANGED sync
           \/ sync.pc = "idle" /\ (JudgeUnpaid \/ NestedDone \/ \E s \in {"PENDING", "UNSPENT"} : SyncAll(s))
           \/ sync.pc = "check" /\ (Check \/ CheckFails)
           \/ sync.pc = "move" /\ WriteOff
           \/ sync.pc = "settle" /\ (Register \/ \E t \in Tx : SettleShort(t) \/ SkipSettled(t) \/ Dispatch(t))
           \/ sync.pc = "settling" /\ Dispatched
           \/ sync.pc = "mark" /\ MarkPending
           \/ sync.pc = "gone" /\ Unregister
           \/ sync.pc = "refresh" /\ (Synced \/ \E t \in Tx : RefreshGone(t))
           \/ sync.pc = "refreshing" /\ GoneRefreshed
<1>1. CASE UNCHANGED sync
    BY <1>1
<1>2. CASE SyncRuns
    BY <1>2 DEF SyncRuns, Dispatched, Register, Unregister, GoneRefreshed, Synced, SettleShort, SkipSettled, Dispatch,
       RefreshGone
<1>3. CASE SyncResumes \/ CheckFails
    BY <1>3 DEF SyncResumes, Check, WriteOff, MarkPending, CheckFails
<1>4. CASE JudgeUnpaid \/ NestedDone
  <2>1. sync.pc = "idle"
      BY <1>4 DEF JudgeUnpaid, NestedDone, SyncTrue
  <2> QED
      BY <1>4, <2>1
<1>5. ASSUME NEW s \in {"PENDING", "UNSPENT"}, SyncAll(s) PROVE sync.pc = "idle"
    BY <1>5, IdleIs DEF SyncAll, Ready
<1> QED
    BY <1>1, <1>2, <1>3, <1>4, <1>5, SyncMoves DEF SyncSteps

\* A transfer that has begun never becomes unbegun.
LEMMA StatusStays == ASSUME IInv, Lives PROVE \A t \in Tx : status'[t] = "none" => status[t] = "none"
<1> USE DEF SetStatus, IInv, Shapes, mintVars
<1>0. ASSUME NEW w \in Worker, SeesForRecovery(w) PROVE \A t \in Tx : status'[t] = "none" => status[t] = "none"
    BY <1>0 DEF SeesForRecovery, ReadAgain
<1>1. CASE Running
    BY <1>1, TransferAssumptions DEF Running, JobRuns, SyncRuns, VisitRuns, Lock, Prepared, Execute, SettlePaid, SettlePending,
       SettleUnpaid, Fail, Rescued, OnchainChecked, Dispatched, Register, Unregister, GoneRefreshed, Synced,
       SettleShort, SkipSettled, Dispatch, RefreshGone, ReleaseFailed, MarkReverted, SettleVisit
<1>2. CASE Resuming
    BY <1>0, <1>2, TransferAssumptions DEF Resuming, JobResumes, SyncResumes, VisitResumes, Select, CommitSwap, Submit, TakeAnswer,
       TakeError, Recheck, JudgePaid, JudgePending, JudgeUnpaid, NestedDone, Check, WriteOff, MarkPending,
       AskQuote, SeesPaid, SeesUnpaid, Unblind
<1>3. CASE Failures
    BY <1>3, TransferAssumptions DEF Failures, SwapFails, LoseAnswer, RecheckFails, CheckFails, AskFails, UnblindFails
<1>4. CASE Starts
    BY <1>4, TransferAssumptions DEF Starts, StartTransfer, CheckOnchain, RecoverByHand, MonitorRefreshes, ExpireTransfer, ReloadTransfer, ReadAgain, SyncAll
<1>5. CASE MintSteps \/ NetworkSteps
    BY <1>5 DEF MintSteps, NetworkSteps, MintSwaps, TakeMelt, RefuseMelt, AnswerMelt,
       Broadcast, PaymentSucceeds, PaymentFails
<1> QED
    BY <1>1, <1>2, <1>3, <1>4, <1>5 DEF Lives

\* What a task holds or a melt took stays worth what it needs.
LEMMA EnoughKept == ASSUME IInv, AInv, EnoughTrue, Lives PROVE EnoughTrue'
<1> USE DEF AInv
<1>1. job'.pc \in Holding => Worth(job'.inputs) >= Need[job'.tx]
  <2>1. CASE Select
      BY <2>1, SelectIs
  <2>2. CASE CommitSwap /\ job'.inputs = {<<job.tx, "swap">>} /\ job'.tx = job.tx
    <3>1. job.tx \in Transfer
        BY <2>2 DEF CommitSwap, IInv, JobKnows
    <3>2. Need[job.tx] <= Worth({<<job.tx, "swap">>}) /\ Need[job.tx] \in Nat /\ <<job.tx, "swap">> \in Proof
        BY <3>1, SwapIsEnough, ValueAssumptions, TransferAssumptions DEF Role
    <3>3. Worth({<<job.tx, "swap">>}) \in Nat
        BY <3>2, WorthGrows
    <3> QED
        BY <2>2, <3>2, <3>3
  <2>3. CASE job.pc \in Holding /\ job'.inputs = job.inputs /\ job'.tx = job.tx
      BY <2>3 DEF EnoughTrue
  <2> QED
      BY <2>1, <2>2, <2>3, JobHolds
<1>2. \A q \in net' : Worth(q.inputs) >= Need[q.tx]
  <2>1. CASE net' \subseteq net
      BY <2>1 DEF EnoughTrue
  <2>2. CASE Submit
      BY <2>2 DEF EnoughTrue, Submit, Holding
  <2>3. ASSUME NEW q \in net, TakeMelt(q) PROVE net' \subseteq net
      BY <2>3, TakeIs
  <2>4. ASSUME NEW t \in Transfer, Broadcast(t) \/ PaymentSucceeds(t) \/ PaymentFails(t) PROVE net' \subseteq net
      BY <2>4, NetworkIs
  <2> QED
      BY <2>1, <2>2, <2>3, <2>4, MintDoesSo DEF MintDoes, mintVars
<1>3. ASSUME NEW t \in Transfer, quote'[t].inputs # {} PROVE Worth(quote'[t].inputs) >= Need[t]
  <2>1. CASE Taken(t)
      BY <2>1, MintFacts DEF EnoughTrue
  <2>2. CASE ~Taken(t)
    <3>1. \E q \in net : q.tx = t /\ quote'[t].inputs = q.inputs
        BY <1>3, <2>2, MintFacts DEF Taken
    <3> QED
        BY <3>1 DEF EnoughTrue
  <2> QED
      BY <2>1, <2>2
<1>4. ASSUME job'.pc = "swap", job'.answer = "swapped" PROVE job'.inputs \subseteq mintSpent'
  <2>1. ~Select
      BY <1>4, SelectIs DEF TaskTrue
  <2>2. job.pc = "swap"
      BY <1>4, <2>1, SwapCameFrom
  <2>3. CASE UNCHANGED job
      BY <1>4, <2>3, SpentGrows DEF EnoughTrue
  <2>4. CASE MintSwaps
      BY <2>4 DEF MintSwaps, IInv, Shapes
  <2>5. CASE CommitSwap \/ SwapFails
      BY <1>4, <2>5 DEF CommitSwap, SwapFails, IInv, Shapes
  <2> QED
      BY <2>2, <2>3, <2>4, <2>5, JobAt
<1> QED
    BY <1>1, <1>2, <1>3, <1>4 DEF EnoughTrue, Taken

\* Owned by what has begun before the step: the records a step writes.
Owns == /\ \A p \in Proof : disk'[p] # Absent => Begun(disk'[p].tx)
        /\ \A p \in Proof : mem'[p] # Absent => Begun(mem'[p].tx)
        /\ \A r \in rows' : \A p \in DOMAIN r.locked : Begun(r.locked[p].tx)

\* Every row that a step writes belongs to a transaction that has begun.
LEMMA OwnersAre == ASSUME IInv, AInv, BegunTrue, Lives PROVE Owns
<1> USE DEF AInv
<1>0. Kinded /\ RowsTrue /\ RowTrue
    BY StoreParts
<1>a. job.pc # "idle" => job.tx \in Tx /\ Begun(job.tx)
    BY TransferAssumptions DEF IInv, JobKnows, TaskTrue, Begun
<1>b. \A w \in Worker : visit[w].pc = "settle" => visit[w].tx \in Tx /\ Begun(visit[w].tx)
    BY TransferAssumptions DEF IInv, VisitKnows, BegunTrue, Working
<1>1. ASSUME UNCHANGED <<disk, mem, rows>> PROVE Owns
    BY <1>1 DEF Owns, BegunTrue
<1>2. ASSUME NEW t \in Tx, Begun(t), NEW op, NEW S, Reserve(t, op, S, "UNSPENT") PROVE Owns
  <2>1. /\ S \subseteq Live /\ rows' = rows \cup {RowFor(t, op, S, "UNSPENT")}
        /\ \A p \in Proof : /\ disk'[p] = IF p \in S THEN Held("PENDING", t) ELSE disk[p]
                            /\ mem'[p] = IF p \in S /\ mem[p].state # "SPENT" THEN Held("PENDING", t) ELSE mem[p]
      BY <1>0, <1>2, ReserveDoes
  <2>2. /\ DOMAIN RowFor(t, op, S, "UNSPENT").locked = S
        /\ \A p \in S : RowFor(t, op, S, "UNSPENT").locked[p].tx = mem[p].tx
      BY <1>0, <2>1, RowForIs, RecIs
  <2>3. \A p \in S : p \in Proof /\ mem[p] # Absent
      BY <2>1 DEF Live
  <2> QED
      BY <1>2, <2>1, <2>2, <2>3, RecIs DEF Owns, BegunTrue
<1>3. ASSUME NEW r, NEW S, NEW new, Commit(r, S, {}, new), \A p \in DOMAIN new : new[p] \in Rec,
             \A p \in DOMAIN new : Begun(new[p].tx)
      PROVE  Owns
  <2>1. /\ rows' = rows \ {r}
        /\ \A p \in Proof :
             /\ p \in DOMAIN new => disk'[p] = new[p]
             /\ p \notin DOMAIN new => disk'[p] = IF p \in S /\ disk[p] # Absent THEN Held("SPENT", disk[p].tx) ELSE disk[p]
             /\ mem'[p] = IF p \in DOMAIN new /\ mem[p].state # "SPENT" /\ ~(p \in S /\ mem[p] # Absent) THEN new[p]
                             ELSE IF p \in S /\ mem[p] # Absent THEN Held("SPENT", mem[p].tx) ELSE mem[p]
      BY <1>0, <1>3, CommitDoes
  <2> QED
      BY <1>3, <2>1, RecIs DEF Owns, BegunTrue
<1>4. ASSUME NEW r, Rollback(r), \A p \in DOMAIN r.locked : r.locked[p] \in [state : {"UNSPENT"}, tx : Tx] /\ Begun(r.locked[p].tx)
      PROVE  Owns
  <2>1. /\ rows' = rows \ {r}
        /\ \A p \in Proof : /\ disk'[p] = IF p \in DOMAIN r.locked /\ disk[p] # Absent THEN r.locked[p] ELSE disk[p]
                            /\ mem'[p] = IF p \in DOMAIN r.locked /\ mem[p] # Absent /\ mem[p].state # "SPENT" THEN r.locked[p] ELSE mem[p]
      BY <1>0, <1>4, RollbackDoes
  <2> QED
      BY <1>4, <2>1 DEF Owns, BegunTrue
<1>5. ASSUME NEW S, NEW s \in ProofState, S \subseteq Live, Overwrite(S, s) PROVE Owns
  <2>1. /\ rows' = rows
        /\ \A p \in Proof : /\ disk'[p] = IF p \in S THEN Held(s, mem[p].tx) ELSE disk[p]
                            /\ mem'[p] = IF p \in S THEN Held(s, mem[p].tx) ELSE mem[p]
      BY <1>0, <1>5, OverwriteDoes
  <2> QED
      BY <1>5, <2>1, RecIs DEF Owns, BegunTrue, Live
<1>6. ASSUME job.pc \in WithRow, Rollback(job.row) PROVE Owns
    BY <1>0, <1>4, <1>6 DEF RowTrue, BegunTrue
<1>7. ASSUME NEW r, NEW S, Commit(r, S, {}, <<>>) PROVE Owns
    BY <1>3, <1>7, OutputsDo
<1>8. ASSUME Select PROVE Owns
  <2>1. PICK op, S : Reserve(job.tx, op, S, "UNSPENT")
      BY <1>8 DEF Select
  <2> QED
      BY <1>2, <1>8, <1>a, <2>1 DEF Select
<1>9. ASSUME Lock PROVE Owns
    BY <1>2, <1>9, <1>a DEF Lock
<1>10. ASSUME CommitSwap PROVE Owns
  <2>1. Commit(job.row, job.inputs, {}, SwapOutputs(job.tx)) /\ job.tx \in Tx /\ Begun(job.tx)
      BY <1>10, <1>a DEF CommitSwap
  <2>2. \A p \in DOMAIN SwapOutputs(job.tx) : SwapOutputs(job.tx)[p].tx = job.tx
    <3>1. /\ DOMAIN SwapOutputs(job.tx) = {<<job.tx, "swap">>, <<job.tx, "rest">>}
          /\ SwapOutputs(job.tx)[<<job.tx, "swap">>] = Held("PENDING", job.tx)
          /\ SwapOutputs(job.tx)[<<job.tx, "rest">>] = Held("UNSPENT", job.tx)
        BY <2>1, OutputsDo
    <3> QED
        BY <3>1 DEF Held
  <2> QED
      BY <1>3, <2>1, <2>2, OutputsDo
<1>11. ASSUME SwapFails \/ SettleUnpaid PROVE Owns
    BY <1>6, <1>11 DEF SwapFails, SettleUnpaid, WithRow, Holding
<1>n. ASSUME NEW r, NEW S, NEW C, NEW t \in Tx, Begun(t), Commit(r, S, {}, Unspent(C, t)) PROVE Owns
  <2>1. \A p \in DOMAIN Unspent(C, t) : Unspent(C, t)[p] \in Rec /\ Unspent(C, t)[p].tx = t
      BY OutputsDo, RecIs
  <2> QED
      BY <1>3, <1>n, <2>1
<1>12. ASSUME SettlePaid \/ SettlePending PROVE Owns
  <2>1. PICK r, S : Commit(r, S, {}, Unspent(job.change, job.tx))
      BY <1>12 DEF SettlePaid, SettlePending
  <2> QED
      BY <1>12, <1>a, <1>n, <2>1 DEF SettlePaid, SettlePending
<1>13. ASSUME JudgePaid \/ JudgePending PROVE Owns
    BY <1>7, <1>13 DEF JudgePaid, JudgePending
<1>14. ASSUME JudgeUnpaid PROVE Owns
  <2>1. Commit(job.row, {}, {}, <<>>) \/ (job.pc \in WithRow /\ Rollback(job.row))
      BY <1>14 DEF JudgeUnpaid, WithRow, Holding
  <2> QED
      BY <1>6, <1>7, <2>1
<1>15. ASSUME WriteOff PROVE Owns
    BY <1>5, <1>15 DEF WriteOff, MoveToSpent, ProofState
<1>16. ASSUME Register PROVE Owns
  <2>1. UNCHANGED <<disk, mem, rows>> \/ \E S : MoveToPending(S)
      BY <1>16 DEF Register, storeVars
  <2> QED
      BY <1>1, <1>5, <2>1 DEF MoveToPending, ProofState
<1>17. ASSUME NEW w \in Worker, ReleaseFailed(w) PROVE Owns
    BY <1>5, <1>17 DEF ReleaseFailed, RevertToSpendable, ProofState
<1>18. ASSUME NEW w \in Worker, SettleVisit(w) PROVE Owns
  <2>1. PICK r, S : Commit(r, S, {}, Unspent(visit[w].change, visit[w].tx))
      BY <1>18 DEF SettleVisit
  <2>2. visit[w].tx \in Tx /\ Begun(visit[w].tx)
      BY <1>18, <1>b DEF SettleVisit
  <2> QED
      BY <1>n, <2>1, <2>2
<1>19. ASSUME NEW t \in Tx, SettleShort(t) PROVE Owns
  <2>1. UNCHANGED <<disk, mem, rows>> \/ \E S : RevertToSpendable(S)
      BY <1>19 DEF SettleShort, storeVars
  <2> QED
      BY <1>1, <1>5, <2>1 DEF RevertToSpendable, ProofState
<1> QED
    BY <1>1, <1>8, <1>9, <1>10, <1>11, <1>12, <1>13, <1>14, <1>15, <1>16, <1>17, <1>18, <1>19, StoreMoves DEF StoreSteps

\* A worker at work visits a transfer that has begun.
LEMMA VisitBegun == ASSUME IInv, AInv, BegunTrue, Lives, NEW w \in Worker, visit'[w].pc \in Working PROVE Begun(visit'[w].tx)
<1> USE DEF IInv, Shapes, Working, Begun
<1>0. Queue \in Worker /\ Screen \in Worker /\ Transfer \subseteq Worker
    BY TransferAssumptions DEF Queue, Screen, Worker
<1>1. CASE visit'[w] = visit[w] \/ (visit[w].pc \in Working /\ visit'[w].tx = visit[w].tx)
    BY <1>1 DEF BegunTrue
<1>2. CASE visit'[w] = NoVisit
    BY <1>2, IdleIs
<1>3. ASSUME NEW t, NEW mode, Enter(w, t, mode), mode = "recover" => status[t] # "none" PROVE Begun(visit'[w].tx)
  <2>1. visit'[w] = [NoVisit EXCEPT !.pc = EntryPc(t, mode), !.tx = t, !.mode = mode]
      BY <1>3 DEF Enter
  <2>2. visit'[w].pc = EntryPc(t, mode) /\ visit'[w].tx = t
      BY <2>1 DEF NoVisit
  <2> QED
      BY <1>3, <2>2 DEF EntryPc, InFlight
<1>4. ASSUME NEW o, o \in {"returned", "threw"}, EndVisit(w, o) PROVE FALSE
  <2>1. visit'[w].pc \in {"returned", "threw", "none"}
      BY <1>4, IdleIs DEF EndVisit, Ended
  <2> QED
      BY <2>1
<1>5. CASE ReleaseFailed(w)
    BY <1>1, <1>5 DEF ReleaseFailed, GoOn
<1>6. CASE MarkReverted(w) \/ SettleVisit(w) \/ AskFails(w)
    BY <1>4, <1>6 DEF MarkReverted, SettleVisit, AskFails
<1>7. CASE AskQuote(w) \/ SeesPaid(w)
    BY ZenonT(30), <1>1, <1>7 DEF AskQuote, SeesPaid
<1>8. CASE SeesUnpaid(w)
  <2>1. EndVisit(w, "returned") \/ EndVisit(w, "threw") \/ GoOn(w, "release")
      BY <1>8 DEF SeesUnpaid
  <2> QED
      BY <1>1, <1>4, <1>8, <2>1 DEF GoOn, SeesUnpaid
<1>9. CASE SeesForRecovery(w)
  <2>1. EndVisit(w, "threw") \/ EndVisit(w, "returned") \/ visit'[w].tx = visit[w].tx
      BY <1>9 DEF SeesForRecovery
  <2> QED
      BY <1>1, <1>4, <1>9, <2>1 DEF SeesForRecovery
<1>10. CASE Unblind(w) \/ UnblindFails(w)
  <2>1. EndVisit(w, "returned") \/ visit'[w].tx = visit[w].tx
      BY <1>10 DEF Unblind, UnblindFails
  <2> QED
      BY <1>1, <1>4, <1>10, <2>1 DEF Unblind, UnblindFails
<1>11. CASE w = Queue /\ (Rescued \/ OnchainChecked \/ Dispatched \/ GoneRefreshed)
    BY <1>0, <1>2, <1>11 DEF Rescued, OnchainChecked, Dispatched, GoneRefreshed
<1>12. CASE w = Queue /\ JudgePaid
  <2>1. visit'[w].tx = job.tx /\ job.pc = "judge"
      BY <1>0, <1>12, IdleIs DEF JudgePaid, NoVisit
  <2> QED
      BY <2>1 DEF AInv, TaskTrue
<1>13. ASSUME w = Queue, NEW t \in Tx, Dispatch(t) \/ RefreshGone(t) PROVE Begun(visit'[w].tx)
  <2>1. \E mode \in {"refresh", "finalize"} : Enter(w, t, mode)
      BY <1>13 DEF Dispatch, RefreshGone
  <2> QED
      BY <1>3, <2>1
<1>14. ASSUME w = Queue, NEW t \in Transfer, CheckOnchain(t) PROVE Begun(visit'[w].tx)
    BY <1>3, <1>14 DEF CheckOnchain
<1>15. ASSUME w = Screen, NEW t \in Transfer, RecoverByHand(t) PROVE Begun(visit'[w].tx)
    BY <1>3, <1>15 DEF RecoverByHand
<1>16. CASE w \in Transfer /\ MonitorRefreshes(w)
    BY <1>3, <1>16 DEF MonitorRefreshes
<1> QED
    BY <1>1, <1>5, <1>6, <1>7, <1>8, <1>9, <1>10, <1>11, <1>12, <1>13, <1>14, <1>15, <1>16, VisitMoves DEF VisitSteps, AInv

\* So ecash stays with transactions that have begun.
LEMMA BegunKept == ASSUME IInv, AInv, BegunTrue, Lives PROVE BegunTrue'
<1> USE DEF AInv
<1>0. Owns /\ (\A t \in Tx : Begun(t) => status'[t] # "none") /\ Transfer \subseteq Tx /\ Genesis \in Tx
    BY OwnersAre, StatusStays, TransferAssumptions DEF Begun
<1>1. AInv' /\ IInv'
    BY NextStep, LivesKeep DEF Next, Lives
<1>2. /\ \A p \in Proof : (disk'[p] # Absent => disk'[p].tx \in Tx) /\ (mem'[p] # Absent => mem'[p].tx \in Tx)
      /\ \A r \in rows' : \A p \in DOMAIN r.locked : r.locked[p].tx \in Tx
  <2>1. Kinded' /\ RowsTrue'
      BY <1>1 DEF StoreTrue, Kinded, Kind, RowsTrue
  <2> QED
      BY <2>1, RecIs DEF Kinded, Kind, RowsTrue
<1>3. \A w \in Worker : visit'[w].pc \in Working => status'[visit'[w].tx] # "none"
  <2>1. \A w \in Worker : visit'[w].pc \in Working => visit'[w].tx \in Transfer
      BY <1>1 DEF IInv, VisitKnows, Working
  <2> QED
      BY <1>0, <2>1, VisitBegun
<1>4. ASSUME job'.pc \in WithRow, NEW p \in job'.inputs PROVE status'[job'.row.locked[p].tx] # "none"
  <2>1. job'.row.locked[p].tx \in Tx
      BY <1>1, <1>4 DEF StoreTrue
  <2>2. CASE job.pc \in WithRow /\ job'.row = job.row /\ job'.inputs = job.inputs
      BY <1>0, <1>4, <2>1, <2>2 DEF BegunTrue
  <2>3. CASE Select \/ Lock
    <3>1. PICK op, S : Reserve(job.tx, op, S, "UNSPENT") /\ job'.row = RowFor(job.tx, op, S, "UNSPENT") /\ job'.inputs = S
        BY <2>3, SelectIs DEF Lock, IInv, Shapes
    <3>2. p \in Live
        BY <1>4, <3>1 DEF Reserve
    <3>3. S \subseteq Live
        BY <3>1 DEF Reserve
    <3>4. job'.row.locked[p] = Held("UNSPENT", mem[p].tx)
        BY <1>4, <3>1, <3>3, RowForIs, StoreParts
    <3> QED
        BY <1>0, <2>1, <3>2, <3>4, RecIs DEF BegunTrue, Live
  <2> QED
      BY <1>4, <2>2, <2>3, RowHeld
<1> QED
    BY <1>0, <1>2, <1>3, <1>4 DEF BegunTrue, Owns, Begun

\* Every step keeps what always holds.
LEMMA AllStep == Always /\ [Next]_vars => Always'
<1> SUFFICES ASSUME Always, [Next]_vars PROVE Always'
    OBVIOUS
<1> USE DEF Always
<1>1. IInv' /\ AInv'
    BY NextStep, AlwaysStep
<1>2. CASE UNCHANGED vars
  <2>1. UNCHANGED <<disk, mem, rows, status, job, visit, quote, mintSpent, net>>
      BY <1>2 DEF vars, storeVars, transferVars, mintVars, queueVars
  <2> QED
      BY <1>1, <2>1 DEF BegunTrue, EnoughTrue, Begun, Taken
<1>3. CASE Lives
    BY <1>1, <1>3, BegunKept, EnoughKept
<1>4. CASE Crash
  <2>1. /\ job' = IdleJob /\ \A w \in Worker : visit'[w] = NoVisit
        /\ \A p \in Proof : mem'[p] = Absent
        /\ \A t \in Tx : status'[t] = status[t] \/ status'[t] = "EXPIRED"
        /\ UNCHANGED <<disk, rows, quote, mintSpent, net>>
      BY <1>4, TransferAssumptions, ReadingAgain DEF Crash, Rereads, mintVars
  <2>2. BegunTrue'
    <3>1. /\ \A p \in Proof : disk[p] # Absent => disk[p].tx \in Tx
          /\ \A r \in rows : \A p \in DOMAIN r.locked : r.locked[p].tx \in Tx
        BY RecIs DEF AInv, StoreTrue
    <3>2. \A t \in Tx : Begun(t) => Begun(t)'
        BY <2>1 DEF Begun
    <3> QED
        BY <2>1, <3>1, <3>2, IdleIs, TransferAssumptions DEF BegunTrue, Begun, WithRow, Holding, Working
  <2> QED
      BY <1>1, <2>1, <2>2, IdleIs DEF EnoughTrue, Taken, Holding
<1>5. CASE Restart
  <2>0. /\ UNCHANGED <<status, job, visit, quote, mintSpent, net>>
        /\ phase \in {"loading", "recovering"}
      BY <1>5 DEF Restart, Load, Recovered, RecoverOrphan, transferVars, queueVars, mintVars
  <2>1. job = IdleJob /\ \A w \in Worker : visit[w] = NoVisit
      BY <2>0 DEF AInv, TaskTrue
  <2>2. /\ \A p \in Proof : disk'[p] # Absent => Begun(disk'[p].tx)
        /\ \A p \in Proof : mem'[p] # Absent => Begun(mem'[p].tx)
        /\ \A r \in rows' : \A p \in DOMAIN r.locked : Begun(r.locked[p].tx)
    <3>1. CASE Load
        BY <3>1 DEF Load, LoadProofs, BegunTrue
    <3>2. CASE Recovered
        BY <3>2 DEF Recovered, storeVars, BegunTrue
    <3>3. ASSUME NEW r \in rows, RecoverOrphan(r)
          PROVE  /\ \A p \in Proof : disk'[p] # Absent => Begun(disk'[p].tx)
                 /\ \A p \in Proof : mem'[p] # Absent => Begun(mem'[p].tx)
                 /\ \A s \in rows' : \A p \in DOMAIN s.locked : Begun(s.locked[p].tx)
      <4>1. Kinded /\ RowsTrue
          BY StoreParts DEF AInv
      <4>2. /\ rows' = rows \ {r}
            /\ \A p \in Proof :
                 /\ disk'[p] = IF p \in DOMAIN r.locked /\ disk[p] # Absent THEN r.locked[p] ELSE disk[p]
                 /\ mem'[p] = IF p \in DOMAIN r.locked /\ mem[p] # Absent /\ mem[p].state # "SPENT" THEN r.locked[p] ELSE mem[p]
          BY <3>3, <4>1, RollbackDoes DEF RecoverOrphan, RowsTrue
      <4> QED
          BY <4>2 DEF BegunTrue
    <3> QED
        BY <1>5, <3>1, <3>2, <3>3 DEF Restart
  <2>3. BegunTrue'
      BY <2>0, <2>1, <2>2, IdleIs DEF BegunTrue, Begun, WithRow, Holding, Working
  <2> QED
      BY <1>1, <2>0, <2>3 DEF EnoughTrue, Taken
<1> QED
    BY <1>2, <1>3, <1>4, <1>5 DEF Next, Lives

\* What always holds holds at the start.
LEMMA AllInit == Init => Always
<1> SUFFICES ASSUME Init PROVE Always
    OBVIOUS
<1>1. IInv /\ AInv
    BY InitStep, AlwaysInit
<1>2. /\ job = IdleJob /\ \A w \in Worker : visit[w] = NoVisit
      /\ rows = {} /\ net = {} /\ mem = disk
      /\ \A p \in Proof : disk[p] # Absent => disk[p] = Held("UNSPENT", Genesis)
      /\ status[Genesis] = "COMPLETED"
      /\ \A t \in Transfer : quote[t].inputs = {}
    BY TransferAssumptions DEF Init
<1>3. BegunTrue
    BY <1>2, IdleIs DEF BegunTrue, Begun, WithRow, Holding, Working, Held
<1>4. EnoughTrue
    BY <1>2, IdleIs DEF EnoughTrue, Taken, Holding
<1> QED
    BY <1>1, <1>3, <1>4 DEF Always

\* Nothing of the wallet moves after a crash and before the recovery has ended.
LEMMA DownSteps ==
    ASSUME TaskTrue, Lives, phase # "up"
    PROVE  UNCHANGED <<disk, mem, rows, status, recovery, registry, job, sync, visit, phase>>
<1>0. job = IdleJob /\ sync = IdleSync /\ \A w \in Worker : visit[w] = NoVisit
    BY DEF TaskTrue
<1>1. CASE Running
    BY <1>0, <1>1, IdleIs DEF Running, JobRuns, SyncRuns, VisitRuns, Lock, Prepared, Execute, SettlePaid, SettlePending,
       SettleUnpaid, Fail, Rescued, OnchainChecked, Dispatched, Register, Unregister, GoneRefreshed, Synced,
       SettleShort, SkipSettled, Dispatch, RefreshGone, ReleaseFailed, MarkReverted, SettleVisit
<1>2. CASE Resuming
    BY <1>0, <1>2, IdleIs DEF Resuming, JobResumes, SyncResumes, VisitResumes, Select, CommitSwap, Submit, TakeAnswer,
       TakeError, Recheck, JudgePaid, JudgePending, JudgeUnpaid, NestedDone, Check, WriteOff, MarkPending,
       AskQuote, SeesPaid, SeesUnpaid, SeesForRecovery, Unblind
<1>3. CASE Failures
    BY <1>0, <1>3, IdleIs DEF Failures, SwapFails, LoseAnswer, RecheckFails, CheckFails, AskFails, UnblindFails
<1>4. CASE Starts
    BY <1>4 DEF Starts, StartTransfer, CheckOnchain, RecoverByHand, MonitorRefreshes, ExpireTransfer, ReloadTransfer, ReadAgain, SyncAll, Ready
<1>5. CASE MintSteps \/ NetworkSteps
  <2>1. CASE MintSwaps
      BY <1>0, <2>1, IdleIs DEF MintSwaps
  <2>2. ASSUME NEW q \in net, RefuseMelt(q) PROVE UNCHANGED <<disk, mem, rows, status, recovery, registry, job, sync, visit, phase>>
      BY <1>0, <2>2, IdleIs DEF RefuseMelt, Reply, storeVars
  <2>3. ASSUME NEW q \in net, TakeMelt(q) PROVE UNCHANGED <<disk, mem, rows, status, recovery, registry, job, sync, visit, phase>>
      BY <2>3 DEF TakeMelt, storeVars, queueVars
  <2>4. ASSUME NEW t \in Transfer, AnswerMelt(t) PROVE FALSE
      BY <1>0, <2>4, IdleIs DEF AnswerMelt
  <2>5. ASSUME NEW t \in Transfer, Broadcast(t) \/ PaymentSucceeds(t) \/ PaymentFails(t)
        PROVE UNCHANGED <<disk, mem, rows, status, recovery, registry, job, sync, visit, phase>>
      BY <2>5 DEF Broadcast, PaymentSucceeds, PaymentFails, storeVars, queueVars
  <2> QED
      BY <1>5, <2>1, <2>2, <2>3, <2>4, <2>5 DEF MintSteps, NetworkSteps
<1> QED
    BY <1>1, <1>2, <1>3, <1>4, <1>5 DEF Lives

\* What holds of every state, whatever is lost.
THEOREM AlwaysHolds == Spec => []Always
BY AllInit, AllStep, PTL DEF Spec

------------------------------------------------------------------------------
(* Order before the first loss, and what one loss leaves behind.           *)

\* Before the first loss the reservations are the task's.
RowsOwn ==
    /\ rows \subseteq (IF job.pc \in WithRow THEN {job.row} ELSE {})
    /\ job.pc \in WithRow => \A p \in job.inputs :
            job.row.locked[p].tx = job.tx => job.inputs = {<<job.tx, "swap">>}
    /\ job.pc = "select" => \A p \in Proof : disk[p].tx # job.tx
    /\ job.pc = "lock" => job.inputs = {<<job.tx, "swap">>}
    /\ \A t \in Transfer : Busy(t) => status[t] # "REVERTED"

\* p is reserved for t.
LockedBy(p, t) == disk[p] = Held("PENDING", t)
\* p is written off here.
Gone(p) == disk[p].state = "SPENT"
\* A standing melt of t has its ecash reserved or written off here.
Sound(t) == Standing(t) => \A p \in quote[t].inputs : disk[p].tx = t /\ disk[p].state \in {"PENDING", "SPENT"}
\* Nobody can ask the mint for t any more, and its melt is sound.
Settled(t) == ~Pursued(t) /\ Sound(t)
\* Nothing more can happen to t behind the back of who saw it.
Calm(t) == t \in Transfer => Settled(t)
\* The mint has p, or has taken it for a melt.
AtMintNow(p) == p \in mintSpent \/ \E t \in Transfer : Standing(t) /\ p \in quote[t].inputs

\* A request of T has nobody waiting for its answer.
Late(T) == Requested(T) /\ ~(job.pc = "wait" /\ job.tx = T)
\* The lost call has gone through, or the ecash of its swap is gone.
Cursed(T, X) == T \in Transfer /\ (Standing(T) \/ (X \subseteq mintSpent /\ ~Taken(T) /\ ~Late(T)))
\* A melt of T stands at the mint, or may yet.
Threat(T) == T \in Transfer /\ (Pursued(T) \/ Standing(T))
\* X is the output of the preemptive swap of T.
Alone(T, X) == X = {<<T, "swap">>}

\* T is the transfer whose call was lost (or none), X the ecash its task held.
ScarTyped(T, X) ==
    /\ X \subseteq Proof
    /\ T \in Transfer \/ (T = Genesis /\ X = {})
    /\ T \in Transfer => X \cap Blanks(T) = {} /\ (Taken(T) => quote[T].inputs = X) /\ Begun(T)
    /\ phase # "loading" => \A p \in Proof : mem[p] = disk[p] \/ (disk[p].state = "SPENT" /\ mem[p] = Absent)

\* A restart finds at most the reservation of X.
ScarDown(T, X) ==
    phase # "up" =>
        /\ \A r, s \in rows : r = s
        /\ \A r \in rows :
            /\ DOMAIN r.locked = X
            /\ \A p \in X : LockedBy(p, T)
            /\ \A p \in X : r.locked[p].tx = T => Alone(T, X)
            /\ T \in Transfer => status[T] \notin {"PENDING", "EXPIRING"}

\* No task holds what another's request names.
ScarTask(T, X) ==
    /\ job.pc \in {"wait", "settle"} /\ Taken(job.tx) => quote[job.tx].inputs = job.inputs
    /\ job.pc \in {"recheck", "judge"} /\ job.answer = "lost" => job.tx = T
    /\ job.tx = T /\ job.pc \in Holding \cup {"select"} => job.pc # "select" /\ job.inputs = X
    /\ \A q \in net : \/ job.pc = "wait" /\ job.answer = "none" /\ q.tx = job.tx /\ q.inputs = job.inputs
                      \/ q.tx = T /\ q.inputs = X

\* PENDING, REVERTED and COMPLETED say the truth about the ecash of every transfer.
ScarStatus ==
    \A t \in Transfer :
        /\ status[t] \in {"PENDING", "EXPIRING"} => Settled(t)
        /\ status[t] = "REVERTED" => ~Pursued(t) /\ ~Standing(t)
        /\ status[t] = "COMPLETED" => \A p \in quote[t].inputs : Gone(p)

\* A visit that settles or releases does so to the ecash of its own transfer, which the mint has done with.
ScarVisit(v, T, X) ==
    /\ v.pc = "settle" => \A p \in v.change : disk[p] = Absent \/ (v.mode # "recover" /\ disk[p].state = "UNSPENT")
    /\ v.mode # "recover" /\ v.pc \in Working => Settled(v.tx) /\ (v.seen = "UNPAID" => ~Standing(v.tx))
    /\ v.mode # "recover" /\ v.pc \in {"unblind", "settle"} =>
        /\ \A p \in quote[v.tx].inputs : p \in v.pending \/ Gone(p)
        /\ \A p \in v.pending : (LockedBy(p, v.tx) \/ Gone(p)) /\ p \in quote[v.tx].inputs \cup X

\* What a short payment in the batch would release.
Unseen == sync.batch \ (sync.spent \cup sync.pend)

\* The sync writes off whole payments, and finds none short.
Clean ==
    /\ sync.pc = "move" => \A p \in sync.spent :
            LET t == disk[p].tx
            IN  t \in Transfer /\ Sound(t) /\ Standing(t) /\ p \in quote[t].inputs /\ quote[t].inputs \subseteq sync.spent
    /\ sync.pc \in {"settle", "settling"} => sync.short = {}

\* What a short payment would release is nothing that the mint has or may get.
Dirty(T, X) ==
    /\ ~Requested(T)
    /\ Unseen \cap X = {} /\ Unseen \cap mintSpent = {}
    /\ \A t \in Transfer : Standing(t) => Unseen \cap quote[t].inputs = {}

\* What the sync asks about, it asks about whole melts.
ScarBatch(T, X) ==
    sync.pc = "check" =>
        /\ \A p \in sync.batch : AtMintNow(p) =>
            \/ p \in X /\ Cursed(T, X)
            \/ /\ disk[p].tx \in Transfer /\ Standing(disk[p].tx)
               /\ p \in quote[disk[p].tx].inputs /\ quote[disk[p].tx].inputs \subseteq sync.batch
        /\ \A p \in sync.batch \cap X : sync.from = "PENDING" =>
                 /\ disk[p] = Held("UNSPENT", T) => ~Threat(T)
                 /\ LockedBy(p, T) /\ Threat(T) => X \subseteq sync.batch
        /\ \A p \in sync.batch, t \in Transfer :
                 Standing(t) /\ p \in quote[t].inputs /\ LockedBy(p, t) => quote[t].inputs \subseteq sync.batch
        /\ sync.from = "UNSPENT" => \A p \in sync.batch : disk[p].state = "UNSPENT"

\* What the sync saw gone or going.
Seen == (IF sync.pc = "move" THEN sync.spent ELSE {}) \cup sync.pend

\* What the sync carries from the mint's answer to its writes is still so.
ScarSync(T, X) ==
    sync.pc \in {"move", "settle", "settling"} =>
        /\ Clean \/ Dirty(T, X)
        /\ sync.from = "PENDING" => \A p \in Seen : Calm(disk[p].tx)
        /\ sync.from = "UNSPENT" => \A p \in Seen : disk[p].state = "UNSPENT" /\ p \in X /\ ~Pursued(T)
        /\ sync.pc = "move" => \A p \in sync.spent :
              /\ \A t \in Transfer :
                    Standing(t) /\ p \in quote[t].inputs /\ LockedBy(p, t) => quote[t].inputs \subseteq sync.spent
              /\ p \in X /\ LockedBy(p, T) /\ Threat(T) => X \subseteq sync.spent

\* The transfers the sync settles have nothing under way.
ScarOwners ==
    /\ sync.pc \in {"settle", "settling"} => \A t \in sync.todo : Calm(t)
    /\ sync.pc \in {"check", "move", "settle", "settling", "mark"} => \A t \in sync.ids : Calm(t)
    /\ sync.pc = "settling" => sync.at \in Transfer /\ Calm(sync.at)

\* What the task holds is reserved for it, and a rollback of X forgets nothing.
ScarLock(T, X) ==
    /\ job.pc \in WithRow =>
        /\ \A p \in job.inputs : LockedBy(p, job.tx)
        /\ \A p \in job.inputs \cap X : Threat(T) /\ job.row.locked[p].tx = T => Alone(T, X)
    /\ job.pc = "lock" => \A p \in job.inputs :
            disk[p].state = "UNSPENT" \/ (LockedBy(p, job.tx) /\ Alone(job.tx, job.inputs))
    /\ job.pc \in Holding => \A p \in Blanks(job.tx) : disk[p].state \in {"none", "UNSPENT"}

\* Ecash that is live here and gone at the mint is accounted for, and so is what is reserved.
ScarProof(p, T, X) ==
    /\ disk[p].state \in {"UNSPENT", "PENDING"} /\ AtMintNow(p) =>
        \/ disk[p].tx \in Transfer /\ LockedBy(p, disk[p].tx) /\ p \in quote[disk[p].tx].inputs /\ Standing(disk[p].tx)
        \/ Swapping(p)
        \/ p \in X /\ Cursed(T, X)
    /\ disk[p].state = "PENDING" =>
        \/ Own(p)
        \/ p \in X
        \/ disk[p].tx \in Transfer /\ (p \in quote[disk[p].tx].inputs \/ (~Taken(disk[p].tx) /\ ~Pursued(disk[p].tx)))

\* The melts of other transfers are sound, and each has its ecash reserved whole or not at all.
ScarQuote(t, T) ==
    /\ t # T => Sound(t)
    /\ Standing(t) => \A p, r \in quote[t].inputs : LockedBy(p, t) => LockedBy(r, t)

\* As long as the lost call may go through, X is reserved whole.
ScarWhole(T, X) ==
    Threat(T) => \A p, r \in X : disk[p].tx = T =>
        IF disk[p].state = "UNSPENT" THEN Alone(T, X) ELSE disk[r] = disk[p]

\* One call was lost, and all that came of it is T and X.
Scar(T, X) ==
    /\ ScarTyped(T, X) /\ ScarDown(T, X) /\ ScarTask(T, X) /\ ScarStatus
    /\ (\A w \in Worker : ScarVisit(visit[w], T, X))
    /\ ScarBatch(T, X) /\ ScarSync(T, X) /\ ScarOwners
    /\ ScarLock(T, X) /\ (\A p \in Proof : ScarProof(p, T, X)) /\ (\A t \in Transfer : ScarQuote(t, T))
    /\ ScarWhole(T, X)

\* Nor does the task of the lost call swap again.
Scarred(T, X) == Scar(T, X) /\ ~(job.tx = T /\ job.pc = "swap")

------------------------------------------------------------------------------
(* What a step does to a proof, after the loss.                            *)

\* Memory shows what the disk has, except for ecash it never loaded because it was written off.
Mirrored(p) == mem[p] = disk[p] \/ (disk[p].state = "SPENT" /\ mem[p] = Absent)

\* What is written off, and when the task gives back what it has locked.
Writing(p) ==
    \/ (CommitSwap \/ SettlePaid \/ JudgePaid) /\ p \in job.inputs
    \/ WriteOff /\ p \in sync.spent
    \/ \E w \in Worker : SettleVisit(w) /\ p \in visit[w].pending
\* Which steps put back what the reservation remembers.
GivingBack == SwapFails \/ SettleUnpaid \/ (JudgeUnpaid /\ job.answer \notin {"spent", "taken"})

\* Everything that can happen to a proof.
Effect(p) ==
    \/ disk'[p] = disk[p]
    \/ Select /\ p \in job'.inputs /\ disk[p].state = "UNSPENT" /\ disk'[p] = Held("PENDING", job.tx)
    \/ Lock /\ p \in job.inputs /\ disk'[p] = Held("PENDING", job.tx)
    \/ Writing(p) /\ disk[p] # Absent /\ disk'[p] = Held("SPENT", disk[p].tx)
    \/ GivingBack /\ p \in job.inputs /\ disk'[p] = job.row.locked[p]
    \/ \E w \in Worker : ReleaseFailed(w) /\ LockedBy(p, visit[w].tx) /\ disk'[p] = Held("UNSPENT", visit[w].tx)
    \/ \E t \in Tx : SettleShort(t) /\ p \in Unseen /\ disk[p] # Absent /\ disk'[p] = Held("UNSPENT", disk[p].tx)
    \/ /\ CommitSwap /\ disk[p] = Absent
       /\ \/ p = <<job.tx, "swap">> /\ disk'[p] = Held("PENDING", job.tx)
          \/ p = <<job.tx, "rest">> /\ disk'[p] = Held("UNSPENT", job.tx)
    \/ (SettlePaid \/ SettlePending) /\ p \in job.change /\ disk[p].state \in {"none", "UNSPENT"} /\ disk'[p] = Held("UNSPENT", job.tx)
    \/ \E w \in Worker : /\ SettleVisit(w) /\ p \in visit[w].change /\ disk'[p] = Held("UNSPENT", visit[w].tx)
                         /\ disk[p] = Absent \/ (visit[w].mode # "recover" /\ disk[p].state = "UNSPENT")
    \/ Register /\ sync.from = "UNSPENT" /\ p \in sync.pend /\ disk[p].state = "UNSPENT" /\ disk'[p] = Held("PENDING", disk[p].tx)

\* What certainly happens to it.
Sure(p) ==
    /\ Select \/ Lock => (p \in job'.inputs => disk'[p] = Held("PENDING", job.tx))
    /\ Writing(p) => disk'[p].state = "SPENT"
    /\ GivingBack => (p \in job.inputs => disk'[p] = job.row.locked[p])
    /\ Register /\ sync.from = "UNSPENT" /\ p \in sync.pend \ registry => disk'[p].state = "PENDING"
    /\ CommitSwap /\ p = <<job.tx, "swap">> => disk'[p] = Held("PENDING", job.tx)

\* A step of a wallet that is alive does one of these things to each proof, and what it says it writes it writes.
LEMMA Effects ==
    ASSUME NEW T, NEW X, Always, Scar(T, X), Lives
    PROVE  \A p \in Proof : Effect(p) /\ Sure(p) /\ (phase # "loading" => Mirrored(p)')
<1> USE DEF Always, AInv
<1>0. Kinded /\ RowsTrue /\ RowTrue
    BY StoreParts
<1>d. CASE phase # "up"
  <2>1. UNCHANGED <<disk, mem, job, sync, visit>>
      BY <1>d, DownSteps
  <2>2. job = IdleJob /\ sync = IdleSync /\ \A w \in Worker : visit[w] = NoVisit
      BY <1>d DEF TaskTrue
  <2>3. ~Select /\ ~Lock /\ ~GivingBack /\ ~Register /\ ~CommitSwap /\ \A p : ~Writing(p)
      BY <2>2, IdleIs DEF Select, Lock, GivingBack, Register, CommitSwap, Writing, SettlePaid, JudgePaid, WriteOff,
         SettleVisit, SwapFails, SettleUnpaid, JudgeUnpaid
  <2> QED
      BY <2>1, <2>3 DEF Effect, Sure, Mirrored, Scar, ScarTyped
<1> SUFFICES ASSUME phase = "up" PROVE \A p \in Proof : Effect(p) /\ Sure(p) /\ Mirrored(p)'
    BY <1>d
<1>m. \A p \in Proof : Mirrored(p)
    BY DEF Scar, ScarTyped, Mirrored
<1>k. /\ \A p \in Proof : disk[p] \in Rec \cup {Absent} /\ mem[p] \in Rec \cup {Absent}
      /\ Absent.state = "none"
      /\ \A s, t : Held(s, t).state = s /\ Held(s, t).tx = t
      /\ \A r \in Rec : r # Absent /\ r.state \in ProofState /\ r.tx \in Tx
    BY <1>0, RecIs DEF Kinded, Kind
<1>a. job.pc # "idle" => job.tx \in Tx
    BY TransferAssumptions DEF IInv, JobKnows
<1>b. \A w \in Worker : visit[w].pc # "none" => visit[w].tx \in Tx
    BY TransferAssumptions DEF IInv, VisitKnows
<1>i. \A p \in job.inputs : p \in Proof /\ disk[p] # Absent
    BY DEF TaskTrue, OutputsTrue
<1>1. UNCHANGED <<disk, mem, rows>> => \A p \in Proof : disk'[p] = disk[p] /\ Mirrored(p)'
    BY <1>m DEF Mirrored
<1>2. Select => \A p \in Proof : /\ disk'[p] = IF p \in job'.inputs THEN Held("PENDING", job.tx) ELSE disk[p]
                                 /\ p \in job'.inputs => disk[p].state = "UNSPENT"
                                 /\ Mirrored(p)'
  <2> SUFFICES ASSUME Select PROVE \A p \in Proof : /\ disk'[p] = IF p \in job'.inputs THEN Held("PENDING", job.tx) ELSE disk[p]
                                                    /\ p \in job'.inputs => disk[p].state = "UNSPENT"
                                                    /\ Mirrored(p)'
      OBVIOUS
  <2>1. PICK S \in SUBSET Spendable, op \in {"transfer-swap", "transfer-melt"} :
            Reserve(job.tx, op, S, "UNSPENT") /\ job'.inputs = S
      BY SelectIs
  <2>2. job.tx \in Tx
      BY <1>a DEF Select
  <2>3. \A p \in Proof : /\ disk'[p] = IF p \in S THEN Held("PENDING", job.tx) ELSE disk[p]
                         /\ mem'[p] = IF p \in S /\ mem[p].state # "SPENT" THEN Held("PENDING", job.tx) ELSE mem[p]
      BY <1>0, <2>1, <2>2, ReserveDoes
  <2>4. \A p \in S : mem[p].state = "UNSPENT"
      BY <2>1 DEF Spendable, Having
  <2> QED
      BY <1>m, <1>k, <2>1, <2>3, <2>4 DEF Mirrored
<1>3. Lock => \A p \in Proof : /\ disk'[p] = IF p \in job.inputs THEN Held("PENDING", job.tx) ELSE disk[p]
                               /\ job'.inputs = job.inputs
                               /\ Mirrored(p)'
  <2> SUFFICES ASSUME Lock PROVE \A p \in Proof : /\ disk'[p] = IF p \in job.inputs THEN Held("PENDING", job.tx) ELSE disk[p]
                                                  /\ job'.inputs = job.inputs
                                                  /\ Mirrored(p)'
      OBVIOUS
  <2>2. job.tx \in Tx /\ job.pc = "lock" /\ Reserve(job.tx, "transfer-melt", job.inputs, "UNSPENT") /\ job'.inputs = job.inputs
      BY <1>a DEF Lock, IInv, Shapes
  <2>3. \A p \in Proof : /\ disk'[p] = IF p \in job.inputs THEN Held("PENDING", job.tx) ELSE disk[p]
                         /\ mem'[p] = IF p \in job.inputs /\ mem[p].state # "SPENT" THEN Held("PENDING", job.tx) ELSE mem[p]
      BY <1>0, <2>2, ReserveDoes
  <2>4. \A p \in job.inputs : disk[p].state \in {"UNSPENT", "PENDING"}
      BY <2>2, <1>k DEF Scar, ScarLock, LockedBy
  <2>5. \A p \in job.inputs : mem[p].state # "SPENT"
      BY <1>m, <1>i, <1>k, <2>4 DEF Mirrored
  <2> QED
      BY <1>m, <1>k, <2>2, <2>3, <2>5 DEF Mirrored
<1>c. ASSUME NEW r, NEW S \in SUBSET Proof, NEW new, Commit(r, S, {}, new), \A p \in DOMAIN new : new[p] \in Rec,
             \A p \in S : disk[p] # Absent /\ p \notin DOMAIN new,
             \A p \in Proof : p \in DOMAIN new => disk[p].state # "SPENT"
      PROVE  \A p \in Proof : /\ disk'[p] = IF p \in DOMAIN new THEN new[p] ELSE IF p \in S THEN Held("SPENT", disk[p].tx) ELSE disk[p]
                              /\ Mirrored(p)'
  <2>1. \A p \in Proof :
          /\ p \in DOMAIN new => disk'[p] = new[p]
          /\ p \notin DOMAIN new => disk'[p] = IF p \in S /\ disk[p] # Absent THEN Held("SPENT", disk[p].tx) ELSE disk[p]
          /\ mem'[p] = IF p \in DOMAIN new /\ mem[p].state # "SPENT" /\ ~(p \in S /\ mem[p] # Absent) THEN new[p]
                          ELSE IF p \in S /\ mem[p] # Absent THEN Held("SPENT", mem[p].tx) ELSE mem[p]
      BY <1>0, <1>c, CommitDoes
  <2> QED
      BY <1>c, <1>m, <1>k, <2>1 DEF Mirrored
<1>n. ASSUME NEW r, Commit(r, {}, {}, <<>>) PROVE \A p \in Proof : disk'[p] = disk[p] /\ Mirrored(p)'
  <2>1. {} \in SUBSET Proof /\ DOMAIN <<>> = {}
      OBVIOUS
  <2>2. \A p \in Proof : /\ disk'[p] = IF p \in DOMAIN <<>> THEN <<>>[p] ELSE IF p \in {} THEN Held("SPENT", disk[p].tx) ELSE disk[p]
                         /\ Mirrored(p)'
      BY <1>c, <1>n, <2>1
  <2> QED
      BY <2>1, <2>2
<1>p. ASSUME NEW r, NEW S \in SUBSET Proof, Commit(r, S, {}, <<>>), \A p \in S : disk[p] # Absent
      PROVE  \A p \in Proof : disk'[p] = (IF p \in S THEN Held("SPENT", disk[p].tx) ELSE disk[p]) /\ Mirrored(p)'
  <2>1. DOMAIN <<>> = {}
      OBVIOUS
  <2>2. \A p \in Proof : /\ disk'[p] = IF p \in DOMAIN <<>> THEN <<>>[p] ELSE IF p \in S THEN Held("SPENT", disk[p].tx) ELSE disk[p]
                         /\ Mirrored(p)'
      BY <1>c, <1>p, <2>1
  <2> QED
      BY <2>1, <2>2
<1>r. ASSUME job.pc \in WithRow, Rollback(job.row)
      PROVE  \A p \in Proof : disk'[p] = (IF p \in job.inputs THEN job.row.locked[p] ELSE disk[p]) /\ Mirrored(p)'
  <2>1. DOMAIN job.row.locked = job.inputs /\ \A p \in job.inputs : job.row.locked[p] \in [state : {"UNSPENT"}, tx : Tx]
      BY <1>0, <1>r DEF RowTrue
  <2>2. \A p \in Proof :
          /\ disk'[p] = IF p \in DOMAIN job.row.locked /\ disk[p] # Absent THEN job.row.locked[p] ELSE disk[p]
          /\ mem'[p] = IF p \in DOMAIN job.row.locked /\ mem[p] # Absent /\ mem[p].state # "SPENT" THEN job.row.locked[p] ELSE mem[p]
      BY <1>0, <1>r, <2>1, RollbackDoes
  <2>3. \A p \in job.inputs : disk[p].state = "PENDING"
      BY <1>r, <1>k DEF Scar, ScarLock, LockedBy
  <2> QED
      BY <1>m, <1>i, <1>k, <2>1, <2>2, <2>3 DEF Mirrored
<1>o. ASSUME NEW S, NEW s \in ProofState, S \subseteq Live, Overwrite(S, s)
      PROVE  \A p \in Proof : /\ disk'[p] = IF p \in S THEN Held(s, disk[p].tx) ELSE disk[p]
                              /\ Mirrored(p)'
                              /\ p \in S => disk[p] # Absent /\ mem[p] = disk[p]
  <2>1. \A p \in Proof : /\ disk'[p] = IF p \in S THEN Held(s, mem[p].tx) ELSE disk[p]
                         /\ mem'[p] = IF p \in S THEN Held(s, mem[p].tx) ELSE mem[p]
      BY <1>0, <1>o, OverwriteDoes
  <2> QED
      BY <1>o, <1>m, <2>1 DEF Mirrored, Live
<1>4. CommitSwap => \A p \in Proof :
          /\ disk'[p] = IF p = <<job.tx, "swap">> THEN Held("PENDING", job.tx)
                        ELSE IF p = <<job.tx, "rest">> THEN Held("UNSPENT", job.tx)
                        ELSE IF p \in job.inputs THEN Held("SPENT", disk[p].tx) ELSE disk[p]
          /\ p \in {<<job.tx, "swap">>, <<job.tx, "rest">>} => disk[p] = Absent
          /\ Mirrored(p)'
  <2> SUFFICES ASSUME CommitSwap PROVE \A p \in Proof :
          /\ disk'[p] = IF p = <<job.tx, "swap">> THEN Held("PENDING", job.tx)
                        ELSE IF p = <<job.tx, "rest">> THEN Held("UNSPENT", job.tx)
                        ELSE IF p \in job.inputs THEN Held("SPENT", disk[p].tx) ELSE disk[p]
          /\ p \in {<<job.tx, "swap">>, <<job.tx, "rest">>} => disk[p] = Absent
          /\ Mirrored(p)'
      OBVIOUS
  <2>1. Commit(job.row, job.inputs, {}, SwapOutputs(job.tx)) /\ job.tx \in Tx /\ job.tx \in Transfer /\ job.pc = "swap"
      BY <1>a DEF CommitSwap, IInv, JobKnows
  <2>2. disk[<<job.tx, "swap">>] = Absent /\ disk[<<job.tx, "rest">>] = Absent
      BY <2>1 DEF OutputsTrue
  <2>3. /\ DOMAIN SwapOutputs(job.tx) = {<<job.tx, "swap">>, <<job.tx, "rest">>}
        /\ SwapOutputs(job.tx)[<<job.tx, "swap">>] = Held("PENDING", job.tx)
        /\ SwapOutputs(job.tx)[<<job.tx, "rest">>] = Held("UNSPENT", job.tx)
        /\ \A p \in DOMAIN SwapOutputs(job.tx) : SwapOutputs(job.tx)[p] \in Rec
      BY <2>1, OutputsDo
  <2>4. \A p \in Proof : /\ disk'[p] = IF p \in DOMAIN SwapOutputs(job.tx) THEN SwapOutputs(job.tx)[p]
                                       ELSE IF p \in job.inputs THEN Held("SPENT", disk[p].tx) ELSE disk[p]
                         /\ Mirrored(p)'
    <3>1. job.inputs \in SUBSET Proof /\ \A p \in job.inputs : disk[p] # Absent /\ p \notin DOMAIN SwapOutputs(job.tx)
        BY <1>i, <2>2, <2>3 DEF TaskTrue
    <3>2. \A p \in Proof : p \in DOMAIN SwapOutputs(job.tx) => disk[p].state # "SPENT"
        BY <1>k, <2>2, <2>3
    <3> QED
        BY <1>c, <2>1, <2>3, <3>1, <3>2
  <2> QED
      BY <2>2, <2>3, <2>4
<1>5. SwapFails \/ SettleUnpaid => \A p \in Proof :
          disk'[p] = (IF p \in job.inputs THEN job.row.locked[p] ELSE disk[p]) /\ Mirrored(p)'
    BY <1>r DEF SwapFails, SettleUnpaid, WithRow, Holding
<1>u. ASSUME NEW r, NEW S \in SUBSET Proof, NEW C, NEW t \in Tx, Commit(r, S, {}, Unspent(C, t)),
             \A p \in S : disk[p] # Absent /\ p \notin C, \A p \in Proof : p \in C => disk[p].state # "SPENT"
      PROVE  \A p \in Proof : /\ disk'[p] = IF p \in C THEN Held("UNSPENT", t) ELSE IF p \in S THEN Held("SPENT", disk[p].tx) ELSE disk[p]
                              /\ Mirrored(p)'
  <2>1. DOMAIN Unspent(C, t) = C /\ \A p \in C : Unspent(C, t)[p] = Held("UNSPENT", t) /\ Unspent(C, t)[p] \in Rec
      BY OutputsDo
  <2> QED
      BY <1>c, <1>u, <2>1
<1>j. job.pc = "settle" => /\ \A p \in job.change : disk[p].state \in {"none", "UNSPENT"} /\ p \notin job.inputs
                           /\ job.tx \in Tx
  <2> SUFFICES ASSUME job.pc = "settle" PROVE /\ \A p \in job.change : disk[p].state \in {"none", "UNSPENT"} /\ p \notin job.inputs
                                              /\ job.tx \in Tx
      OBVIOUS
  <2>1. job.change \subseteq Blanks(job.tx) /\ job.inputs \cap Blanks(job.tx) = {}
      BY DEF ChangeTrue, OutputsTrue, Holding
  <2> QED
      BY <1>a, <2>1 DEF Scar, ScarLock, Holding
<1>6. SettlePaid => \A p \in Proof :
          /\ disk'[p] = IF p \in job.change THEN Held("UNSPENT", job.tx) ELSE IF p \in job.inputs THEN Held("SPENT", disk[p].tx) ELSE disk[p]
          /\ p \in job.change => disk[p].state \in {"none", "UNSPENT"} /\ p \notin job.inputs
          /\ Mirrored(p)'
    BY <1>u, <1>j, <1>i DEF SettlePaid, TaskTrue
<1>7. SettlePending => \A p \in Proof :
          /\ disk'[p] = IF p \in job.change THEN Held("UNSPENT", job.tx) ELSE disk[p]
          /\ p \in job.change => disk[p].state \in {"none", "UNSPENT"}
          /\ Mirrored(p)'
  <2>1. ASSUME SettlePending PROVE Commit(job.row, {}, {}, Unspent(job.change, job.tx)) /\ job.pc = "settle"
      BY <2>1 DEF SettlePending
  <2> QED
      BY <1>u, <1>j, <2>1
<1>8. JudgePaid => \A p \in Proof :
          disk'[p] = (IF p \in job.inputs THEN Held("SPENT", disk[p].tx) ELSE disk[p]) /\ Mirrored(p)'
  <2> SUFFICES ASSUME JudgePaid PROVE \A p \in Proof :
          disk'[p] = (IF p \in job.inputs THEN Held("SPENT", disk[p].tx) ELSE disk[p]) /\ Mirrored(p)'
      OBVIOUS
  <2>1. Commit(job.row, job.inputs, {}, <<>>) /\ job.inputs \in SUBSET Proof
      BY DEF JudgePaid, TaskTrue
  <2> QED
      BY <1>p, <1>i, <2>1
<1>9. JudgePending => \A p \in Proof : disk'[p] = disk[p] /\ Mirrored(p)'
    BY <1>n DEF JudgePending
<1>10. JudgeUnpaid => \A p \in Proof : /\ disk'[p] = IF job.answer \notin {"spent", "taken"} /\ p \in job.inputs THEN job.row.locked[p] ELSE disk[p]
                                       /\ Mirrored(p)'
  <2> SUFFICES ASSUME JudgeUnpaid PROVE \A p \in Proof : /\ disk'[p] = IF job.answer \notin {"spent", "taken"} /\ p \in job.inputs THEN job.row.locked[p] ELSE disk[p]
                                       /\ Mirrored(p)'
      OBVIOUS
  <2>1. CASE job.answer \in {"spent", "taken"}
    <3>1. Commit(job.row, {}, {}, <<>>)
        BY <2>1 DEF JudgeUnpaid
    <3> QED
        BY <1>n, <2>1, <3>1
  <2>2. CASE job.answer \notin {"spent", "taken"}
    <3>1. Rollback(job.row) /\ job.pc \in WithRow
        BY <2>2 DEF JudgeUnpaid, WithRow, Holding
    <3> QED
        BY <1>r, <2>2, <3>1
  <2> QED
      BY <2>1, <2>2
<1>11. WriteOff => \A p \in Proof : /\ disk'[p] = IF p \in sync.spent THEN Held("SPENT", disk[p].tx) ELSE disk[p]
                                    /\ Mirrored(p)'
                                    /\ p \in sync.spent => disk[p] # Absent
    BY <1>o DEF WriteOff, MoveToSpent, ProofState
<1>12. Register => \A p \in Proof :
          /\ disk'[p] = IF sync.from = "UNSPENT" /\ p \in sync.pend \ registry THEN Held("PENDING", disk[p].tx) ELSE disk[p]
          /\ Mirrored(p)'
          /\ sync.from = "UNSPENT" /\ p \in sync.pend => disk[p].state = "UNSPENT"
  <2> SUFFICES ASSUME Register PROVE \A p \in Proof :
          /\ disk'[p] = IF sync.from = "UNSPENT" /\ p \in sync.pend \ registry THEN Held("PENDING", disk[p].tx) ELSE disk[p]
          /\ Mirrored(p)'
          /\ sync.from = "UNSPENT" /\ p \in sync.pend => disk[p].state = "UNSPENT"
      OBVIOUS
  <2>1. sync.pc = "settle" /\ sync.from \in {"PENDING", "UNSPENT"}
      BY DEF Register, SyncTrue
  <2>2. sync.from = "UNSPENT" => \A p \in sync.pend : disk[p].state = "UNSPENT"
      BY <2>1 DEF Scar, ScarSync, Seen
  <2>3. CASE sync.from = "PENDING"
      BY <1>1, <2>3 DEF Register, storeVars
  <2>4. CASE sync.from = "UNSPENT"
    <3>1. MoveToPending(sync.pend \ registry)
        BY <2>4 DEF Register
    <3> QED
        BY <1>o, <2>2, <2>4, <3>1 DEF MoveToPending, ProofState
  <2> QED
      BY <2>1, <2>2, <2>3, <2>4
<1>13. \A w \in Worker : ReleaseFailed(w) => \A p \in Proof :
          /\ disk'[p] = disk[p] \/ (disk[p] = Held("PENDING", visit[w].tx) /\ disk'[p] = Held("UNSPENT", visit[w].tx))
          /\ Mirrored(p)'
  <2> SUFFICES ASSUME NEW w \in Worker, ReleaseFailed(w) PROVE \A p \in Proof :
          /\ disk'[p] = disk[p] \/ (disk[p] = Held("PENDING", visit[w].tx) /\ disk'[p] = Held("UNSPENT", visit[w].tx))
          /\ Mirrored(p)'
      OBVIOUS
  <2>1. RevertToSpendable(PendingOf(visit[w].tx))
      BY DEF ReleaseFailed
  <2>2. \A p \in PendingOf(visit[w].tx) : p \in Proof /\ mem[p].state = "PENDING" /\ mem[p].tx = visit[w].tx
      BY DEF PendingOf, Having
  <2>3. \A p \in Proof : /\ disk'[p] = IF p \in PendingOf(visit[w].tx) THEN Held("UNSPENT", disk[p].tx) ELSE disk[p]
                         /\ Mirrored(p)'
                         /\ p \in PendingOf(visit[w].tx) => disk[p] # Absent /\ mem[p] = disk[p]
      BY <1>o, <2>1 DEF RevertToSpendable, ProofState
  <2>4. \A p \in PendingOf(visit[w].tx) : disk[p] = Held("PENDING", visit[w].tx)
      BY <1>k, <2>2, <2>3, RecIs
  <2> QED
      BY <1>k, <2>3, <2>4
<1>14. \A w \in Worker : SettleVisit(w) => \A p \in Proof :
          /\ disk'[p] = IF p \in visit[w].change THEN Held("UNSPENT", visit[w].tx)
                        ELSE IF p \in visit[w].pending THEN Held("SPENT", disk[p].tx) ELSE disk[p]
          /\ p \in visit[w].change => /\ disk[p] = Absent \/ (visit[w].mode # "recover" /\ disk[p].state = "UNSPENT")
                                      /\ p \notin visit[w].pending
          /\ p \in visit[w].pending => disk[p] # Absent
          /\ Mirrored(p)'
  <2> SUFFICES ASSUME NEW w \in Worker, SettleVisit(w) PROVE \A p \in Proof :
          /\ disk'[p] = IF p \in visit[w].change THEN Held("UNSPENT", visit[w].tx)
                        ELSE IF p \in visit[w].pending THEN Held("SPENT", disk[p].tx) ELSE disk[p]
          /\ p \in visit[w].change => /\ disk[p] = Absent \/ (visit[w].mode # "recover" /\ disk[p].state = "UNSPENT")
                                      /\ p \notin visit[w].pending
          /\ p \in visit[w].pending => disk[p] # Absent
          /\ Mirrored(p)'
      OBVIOUS
  <2>1. visit[w].pc = "settle" /\ \E r : Commit(r, visit[w].pending, {}, Unspent(visit[w].change, visit[w].tx))
      BY DEF SettleVisit
  <2>2. visit[w].tx \in Tx /\ visit[w].pending \in SUBSET Proof
      BY <1>b, <2>1 DEF VisitTrue
  <2>3. \A p \in visit[w].change : disk[p] = Absent \/ (visit[w].mode # "recover" /\ disk[p].state = "UNSPENT")
      BY <2>1 DEF Scar, ScarVisit
  <2>4. \A p \in visit[w].pending : disk[p].state \in {"PENDING", "SPENT"}
    <3>1. visit[w].pending # {} => visit[w].mode # "recover"
        BY DEF VisitTrue
    <3>2. ScarVisit(visit[w], T, X)
        BY DEF Scar
    <3>3. \A p \in visit[w].pending : LockedBy(p, visit[w].tx) \/ Gone(p)
        BY <2>1, <3>1, <3>2 DEF ScarVisit
    <3> QED
        BY <1>k, <3>3 DEF LockedBy, Gone
  <2>5. \A p \in visit[w].pending : disk[p] # Absent /\ p \notin visit[w].change
      BY <1>k, <2>3, <2>4
  <2> QED
      BY <1>u, <1>k, <2>1, <2>2, <2>3, <2>5
<1>15. \A t \in Tx : SettleShort(t) => \A p \in Proof :
          /\ disk'[p] = disk[p] \/ (p \in Unseen /\ disk[p] # Absent /\ disk'[p] = Held("UNSPENT", disk[p].tx))
          /\ Mirrored(p)'
  <2> SUFFICES ASSUME NEW t \in Tx, SettleShort(t) PROVE \A p \in Proof :
          /\ disk'[p] = disk[p] \/ (p \in Unseen /\ disk[p] # Absent /\ disk'[p] = Held("UNSPENT", disk[p].tx))
          /\ Mirrored(p)'
      OBVIOUS
  <2>1. UNCHANGED <<disk, mem, rows>> \/ RevertToSpendable(Unseen)
      BY DEF SettleShort, storeVars, Unseen
  <2> QED
      BY <1>1, <1>o, <2>1 DEF RevertToSpendable, ProofState
<1>e. \A p \in Proof : Effect(p) /\ Mirrored(p)'
  <2> SUFFICES ASSUME NEW p \in Proof PROVE Effect(p) /\ Mirrored(p)'
      OBVIOUS
  <2>1. CASE UNCHANGED <<disk, mem, rows>> \/ JudgePending
      BY <1>1, <1>9, <2>1 DEF Effect
  <2>2. CASE Select \/ Lock
      BY <1>2, <1>3, <2>2 DEF Effect
  <2>3. CASE CommitSwap
      BY <1>4, <1>i, <2>3 DEF Effect, Writing
  <2>4. CASE SwapFails \/ SettleUnpaid \/ JudgeUnpaid
      BY <1>5, <1>10, <2>4 DEF Effect, GivingBack
  <2>5. CASE SettlePaid \/ SettlePending \/ JudgePaid
      BY <1>6, <1>7, <1>8, <1>i, <2>5 DEF Effect, Writing
  <2>6. CASE WriteOff \/ Register
      BY <1>11, <1>12, <2>6 DEF Effect, Writing
  <2>7. ASSUME NEW w \in Worker, ReleaseFailed(w) \/ SettleVisit(w) PROVE Effect(p) /\ Mirrored(p)'
      BY <1>13, <1>14, <2>7 DEF Effect, Writing, LockedBy
  <2>8. ASSUME NEW t \in Tx, SettleShort(t) PROVE Effect(p) /\ Mirrored(p)'
      BY <1>15, <2>8 DEF Effect
  <2> QED
      BY <2>1, <2>2, <2>3, <2>4, <2>5, <2>6, <2>7, <2>8, StoreMoves DEF StoreSteps
<1>s. \A p \in Proof : Sure(p)
  <2> SUFFICES ASSUME NEW p \in Proof PROVE Sure(p)
      OBVIOUS
  <2>1. Select \/ Lock => (p \in job'.inputs => disk'[p] = Held("PENDING", job.tx))
      BY <1>2, <1>3
  <2>2. Writing(p) => disk'[p].state = "SPENT"
    <3>1. (CommitSwap \/ SettlePaid \/ JudgePaid) /\ p \in job.inputs => disk'[p].state = "SPENT"
        BY <1>4, <1>6, <1>8, <1>i, <1>k
    <3>2. WriteOff /\ p \in sync.spent => disk'[p].state = "SPENT"
        BY <1>11, <1>k
    <3>3. \A w \in Worker : SettleVisit(w) /\ p \in visit[w].pending => disk'[p].state = "SPENT"
        BY <1>14, <1>k
    <3> QED
        BY <3>1, <3>2, <3>3 DEF Writing
  <2>3. GivingBack => (p \in job.inputs => disk'[p] = job.row.locked[p])
      BY <1>5, <1>10 DEF GivingBack
  <2>4. Register /\ sync.from = "UNSPENT" /\ p \in sync.pend \ registry => disk'[p].state = "PENDING"
      BY <1>12, <1>k
  <2>5. CommitSwap /\ p = <<job.tx, "swap">> => disk'[p] = Held("PENDING", job.tx)
      BY <1>4
  <2> QED
      BY <2>1, <2>2, <2>3, <2>4, <2>5 DEF Sure
<1> QED
    BY <1>e, <1>s

------------------------------------------------------------------------------
(* Steps that lose nothing more.                                           *)

\* A step that loses nothing, or loses the call that the transfer T was at.
Gentle(T, X) ==
    /\ Lives /\ ~CheckFails
    /\ \A w \in Worker : ~AskFails(w) /\ ~UnblindFails(w) /\ (Unblind(w) => ~Overtaken(visit[w]))
    /\ job.tx = T /\ job.pc = "swap" => ~MintSwaps /\ ~CommitSwap
    /\ SwapFails => job.tx = T \/ (job.answer = "none" /\ ~Free(job.inputs))
    /\ LoseAnswer => job.tx = T /\ (X \subseteq mintSpent => Standing(T))
    /\ RecheckFails => job.tx = T \/ job.answer = "lost"

\* A task that is selecting has just started its transfer, or has been selecting.
LEMMA SelectCameFrom ==
    ASSUME IInv, TaskTrue, Lives, job'.pc = "select"
    PROVE  UNCHANGED job \/ (job.pc = "idle" /\ StartTransfer(job'.tx) /\ job'.tx \in Transfer /\ status[job'.tx] = "none")
<1> USE DEF IInv, Shapes
<1>1. ASSUME NEW t \in Transfer, StartTransfer(t) \/ CheckOnchain(t)
      PROVE  UNCHANGED job \/ (job.pc = "idle" /\ StartTransfer(job'.tx) /\ job'.tx \in Transfer /\ status[job'.tx] = "none")
  <2>1. CASE StartTransfer(t)
      BY <1>1, <2>1, IdleIs DEF StartTransfer, Ready, IdleJob
  <2>2. CASE CheckOnchain(t)
      BY <1>1, <2>2, IdleIs DEF CheckOnchain, IdleJob
  <2> QED
      BY <1>1, <2>1, <2>2
<1>2. CASE OnchainChecked \/ SettlePaid \/ SettlePending \/ SettleUnpaid \/ Fail
    BY <1>2, IdleIs DEF OnchainChecked, SettlePaid, SettlePending, SettleUnpaid, Fail
<1>3. CASE Select
    BY <1>3, SelectIs
<1>4. CASE MintSwaps \/ CommitSwap \/ SwapFails \/ Lock \/ Prepared \/ Execute \/ Submit
    BY <1>4 DEF MintSwaps, CommitSwap, SwapFails, Lock, Prepared, Execute, Submit
<1>5. CASE TakeAnswer \/ TakeError \/ LoseAnswer \/ AnswerMelt(job.tx) \/ \E q \in net : RefuseMelt(q) /\ q.tx = job.tx
    BY <1>5 DEF TakeAnswer, TakeError, LoseAnswer, AnswerMelt, RefuseMelt, Reply
<1>6. CASE Recheck \/ RecheckFails \/ JudgePaid \/ JudgePending \/ JudgeUnpaid \/ Rescued \/ NestedDone
    BY <1>6 DEF Recheck, RecheckFails, JudgePaid, JudgePending, JudgeUnpaid, Rescued, NestedDone
<1> QED
    BY <1>1, <1>2, <1>3, <1>4, <1>5, <1>6, JobAt

\* A transfer that is not pursued is not pursued again.
LEMMA PursuedIs ==
    ASSUME Always, Lives, NEW t \in Transfer
    PROVE  /\ Pursued(t)' => Pursued(t) \/ StartTransfer(t)
           /\ Pursued(t)' /\ Begun(t) => Pursued(t)
<1> USE DEF Always, AInv, IInv, Shapes
<1>1. StartTransfer(t) => ~Begun(t)
    BY DEF StartTransfer, Begun
<1>2. Requested(t)' => Pursued(t)
    BY MintFacts DEF Pursued, Submit, Holding
<1>3. job'.tx = t /\ job'.pc \in Holding => Pursued(t)
    BY JobHolds, SelectIs DEF Pursued, Holding
<1>4. job'.tx = t /\ job'.pc = "select" => Pursued(t) \/ StartTransfer(t)
    BY SelectCameFrom DEF Pursued
<1> QED
    BY <1>1, <1>2, <1>3, <1>4 DEF Pursued

\* What the mint takes is what the task waits for, or the transfer of the mishap.
LEMMA TakenIs ==
    ASSUME NEW T, NEW X, Always, Scar(T, X), NEW q \in net, TakeMelt(q)
    PROVE  /\ q.tx \in Transfer /\ Requested(q.tx) /\ ~Taken(q.tx) /\ ~Standing(q.tx)
           /\ q.inputs \cap mintSpent = {} /\ q.inputs # {} /\ q.inputs \in SUBSET Proof
           /\ \A t \in Transfer : Standing(t) => q.inputs \cap quote[t].inputs = {}
           /\ \/ job.pc = "wait" /\ job.answer = "none" /\ q.tx = job.tx /\ q.inputs = job.inputs
              \/ q.tx = T /\ q.inputs = X
           /\ q.tx = T => q.inputs = X
           /\ UNCHANGED <<change, mintSpent, job, sync, visit, status, disk, mem, rows, recovery, registry, phase, faults>>
<1>1. MintTrue /\ RequestsTrue /\ IInv
    BY DEF Always, AInv
<1>2. /\ q.tx \in Transfer /\ ~Taken(q.tx) /\ ~Standing(q.tx) /\ Free(q.inputs)
      /\ q.inputs # {} /\ q.inputs \in SUBSET Proof
      /\ UNCHANGED <<change, mintSpent, job, sync, visit, status, disk, mem, rows, recovery, registry, phase, faults>>
    BY <1>1, TakeIs
<1>3. q.inputs \cap mintSpent = {} /\ \A t \in Transfer : Standing(t) => q.inputs \cap quote[t].inputs = {}
    BY <1>1, <1>2, FreeIs
<1> QED
    BY <1>2, <1>3 DEF Scar, ScarTask, Requested, Holding

\* How the mint's side moves.
LEMMA MintStands ==
    ASSUME NEW T, NEW X, Always, Scar(T, X), Lives, NEW t \in Transfer
    PROVE  /\ mintSpent \subseteq mintSpent'
           /\ Taken(t) => quote'[t].inputs = quote[t].inputs
           /\ quote'[t].inputs # {} => Taken(t) \/ \E q \in net : q.tx = t /\ TakeMelt(q) /\ quote'[t].inputs = q.inputs /\ quote'[t].state = "PENDING"
           /\ quote'[t].state # "UNPAID" => Standing(t) \/ Requested(t)
           /\ quote'[t].state # "UNPAID" /\ ~Pursued(t) => Standing(t) /\ quote'[t].inputs = quote[t].inputs
           /\ Standing(t) => Taken(t)
           /\ Standing(t) /\ quote'[t].state = "UNPAID" => quote[t].inputs \cap mintSpent = {} /\ UNCHANGED mintSpent
                                                          /\ \A u \in Transfer : u # t => quote'[u] = quote[u]
<1> USE DEF Always, AInv
<1>1. mintSpent \subseteq mintSpent'
    BY SpentGrows
<1>2. Taken(t) => quote'[t].inputs = quote[t].inputs
    BY MintFacts
<1>3. Standing(t) => Taken(t)
    BY DEF MintTrue
<1>4. quote'[t].inputs # {} => Taken(t) \/ \E q \in net : q.tx = t /\ TakeMelt(q) /\ quote'[t].inputs = q.inputs /\ quote'[t].state = "PENDING"
  <2>1. \A q \in net : TakeMelt(q) => quote'[q.tx].state = "PENDING"
      BY TakeIs
  <2> QED
      BY <2>1, MintFacts DEF Taken
<1>5. quote'[t].state # "UNPAID" => Standing(t) \/ Requested(t)
  <2>1. CASE Taken(t)
      BY <2>1, MintFacts DEF Standing
  <2>2. CASE ~Taken(t) /\ ~Standing(t) /\ quote'[t] # quote[t]
      BY <2>2, MintFacts DEF Requested
  <2> QED
      BY <1>3, <2>1, <2>2 DEF Standing
<1>6. Standing(t) /\ quote'[t].state = "UNPAID" => quote[t].inputs \cap mintSpent = {} /\ UNCHANGED mintSpent
                                                          /\ \A u \in Transfer : u # t => quote'[u] = quote[u]
  <2> SUFFICES ASSUME Standing(t), quote'[t].state = "UNPAID"
               PROVE quote[t].inputs \cap mintSpent = {} /\ UNCHANGED mintSpent /\ \A u \in Transfer : u # t => quote'[u] = quote[u]
      OBVIOUS
  <2>0. ~UNCHANGED quote
      BY DEF Standing
  <2>1. CASE UNCHANGED mintVars \/ Submit \/ (\E q \in net : RefuseMelt(q)) \/ MintSwaps
      BY <2>0, <2>1 DEF mintVars, Submit, RefuseMelt, MintSwaps
  <2>2. ASSUME NEW q \in net, TakeMelt(q) PROVE FALSE
      BY <2>2, TakeIs DEF Standing
  <2>3. ASSUME NEW u \in Transfer, Broadcast(u) \/ PaymentSucceeds(u) \/ PaymentFails(u)
        PROVE quote[t].inputs \cap mintSpent = {} /\ UNCHANGED mintSpent /\ \A v \in Transfer : v # t => quote'[v] = quote[v]
    <3>1. u = t
        BY <2>3, NetworkIs DEF Standing
    <3> QED
        BY <2>3, <3>1, <2>0, NetworkIs
  <2> QED
      BY <2>1, <2>2, <2>3, MintDoesSo DEF MintDoes
<1> QED
    BY <1>1, <1>2, <1>3, <1>4, <1>5, <1>6 DEF Pursued

\* What newly comes to be at the mint.
LEMMA Arrives ==
    ASSUME NEW T, NEW X, Always, Scar(T, X), Lives, NEW p \in Proof, AtMintNow(p)'
    PROVE  \/ AtMintNow(p)
           \/ MintSwaps /\ p \in job.inputs
           \/ \E q \in net : TakeMelt(q) /\ p \in q.inputs /\ q.tx \in Transfer /\ quote'[q.tx].inputs = q.inputs /\ quote'[q.tx].state = "PENDING"
<1> USE DEF Always, AInv, AtMintNow
<1>1. CASE UNCHANGED mintVars \/ Submit \/ (\E q \in net : RefuseMelt(q))
    BY <1>1 DEF mintVars, Submit, RefuseMelt, Standing
<1>2. CASE MintSwaps
    BY <1>2 DEF MintSwaps, Standing
<1>3. ASSUME NEW q \in net, TakeMelt(q) PROVE AtMintNow(p) \/ (p \in q.inputs /\ q.tx \in Transfer /\ quote'[q.tx].inputs = q.inputs /\ quote'[q.tx].state = "PENDING")
    BY <1>3, TakeIs DEF Standing
<1>4. ASSUME NEW t \in Transfer, Broadcast(t) \/ PaymentSucceeds(t) \/ PaymentFails(t) PROVE AtMintNow(p)
    BY <1>4, NetworkIs DEF Standing
<1> QED
    BY <1>1, <1>2, <1>3, <1>4, MintDoesSo DEF MintDoes

\* How a proof of each state can turn.
LEMMA Turns ==
    ASSUME NEW T, NEW X, Always, Scar(T, X), Lives, NEW p \in Proof
    PROVE  /\ disk[p].state = "PENDING" =>
                \/ disk'[p] = disk[p]
                \/ Writing(p) /\ disk'[p] = Held("SPENT", disk[p].tx)
                \/ GivingBack /\ p \in job.inputs /\ LockedBy(p, job.tx) /\ job.pc \in WithRow
                \/ \E w \in Worker : ReleaseFailed(w) /\ LockedBy(p, visit[w].tx) /\ disk'[p] = Held("UNSPENT", visit[w].tx)
                \/ \E t \in Tx : SettleShort(t) /\ p \in Unseen /\ disk'[p] = Held("UNSPENT", disk[p].tx)
           /\ disk[p].state = "SPENT" =>
                \/ disk'[p] = disk[p]
                \/ \E t \in Tx : SettleShort(t) /\ p \in Unseen /\ disk'[p] = Held("UNSPENT", disk[p].tx)
           /\ disk[p].state = "UNSPENT" =>
                \/ disk'[p].state = "UNSPENT"
                \/ Writing(p) /\ disk'[p] = Held("SPENT", disk[p].tx)
                \/ (Select \/ Lock) /\ p \in job'.inputs /\ disk'[p] = Held("PENDING", job.tx)
                \/ Register /\ sync.from = "UNSPENT" /\ p \in sync.pend /\ disk'[p] = Held("PENDING", disk[p].tx)
           /\ disk[p].state = "none" =>
                \/ disk'[p] = Absent
                \/ disk'[p].state = "UNSPENT"
                \/ CommitSwap /\ p = <<job.tx, "swap">> /\ disk'[p] = Held("PENDING", job.tx)
<1>0. \A s, t : Held(s, t).state = s /\ Held(s, t).tx = t
    BY RecIs
<1>1. Effect(p)
    BY Effects
<1>2. Lock => job'.inputs = job.inputs /\ (p \in job.inputs => disk[p].state = "UNSPENT" \/ LockedBy(p, job.tx))
    BY DEF Lock, Always, IInv, Shapes, Scar, ScarLock
<1>3. disk[p].state = "none" => disk[p] = Absent
  <2>1. disk[p] \in Rec \cup {Absent}
      BY DEF Always, AInv, StoreTrue
  <2> QED
      BY <2>1, RecIs DEF ProofState
<1>4. Absent.state = "none"
    BY RecIs
<1>5. p \in job.inputs /\ job.pc \in WithRow => LockedBy(p, job.tx)
    BY DEF Scar, ScarLock
<1>6. GivingBack => job.pc \in WithRow
    BY DEF GivingBack, WithRow, Holding, SwapFails, SettleUnpaid, JudgeUnpaid
<1>7. disk[p].state = "PENDING" =>
                \/ disk'[p] = disk[p]
                \/ Writing(p) /\ disk'[p] = Held("SPENT", disk[p].tx)
                \/ GivingBack /\ p \in job.inputs /\ LockedBy(p, job.tx) /\ job.pc \in WithRow
                \/ \E w \in Worker : ReleaseFailed(w) /\ LockedBy(p, visit[w].tx) /\ disk'[p] = Held("UNSPENT", visit[w].tx)
                \/ \E t \in Tx : SettleShort(t) /\ p \in Unseen /\ disk'[p] = Held("UNSPENT", disk[p].tx)
    BY <1>0, <1>1, <1>2, <1>4, <1>5, <1>6 DEF Effect, LockedBy
<1>8. disk[p].state = "SPENT" =>
                \/ disk'[p] = disk[p]
                \/ \E t \in Tx : SettleShort(t) /\ p \in Unseen /\ disk'[p] = Held("UNSPENT", disk[p].tx)
  <2> SUFFICES ASSUME disk[p].state = "SPENT", disk'[p] # disk[p] PROVE \E t \in Tx : SettleShort(t) /\ p \in Unseen /\ disk'[p] = Held("UNSPENT", disk[p].tx)
      OBVIOUS
  <2>1. Writing(p) => disk'[p] # Held("SPENT", disk[p].tx)
    <3>1. disk[p] \in Rec \cup {Absent}
        BY DEF Always, AInv, StoreTrue
    <3>2. disk[p] = Held("SPENT", disk[p].tx)
        BY <3>1, RecIs
    <3> QED
        BY <3>2
  <2>2. ~(p \in job.inputs /\ job.pc \in WithRow)
      BY <1>0, <1>5 DEF LockedBy
  <2>3. \A t : ~LockedBy(p, t)
      BY <1>0 DEF LockedBy
  <2>4. ~(Lock /\ p \in job.inputs)
      BY <1>2, <2>3
  <2> QED
      BY <1>0, <1>1, <1>4, <1>6, <2>1, <2>2, <2>3, <2>4 DEF Effect
<1>9. disk[p].state = "UNSPENT" =>
                \/ disk'[p].state = "UNSPENT"
                \/ Writing(p) /\ disk'[p] = Held("SPENT", disk[p].tx)
                \/ (Select \/ Lock) /\ p \in job'.inputs /\ disk'[p] = Held("PENDING", job.tx)
                \/ Register /\ sync.from = "UNSPENT" /\ p \in sync.pend /\ disk'[p] = Held("PENDING", disk[p].tx)
  <2> SUFFICES ASSUME disk[p].state = "UNSPENT" PROVE
                \/ disk'[p].state = "UNSPENT"
                \/ Writing(p) /\ disk'[p] = Held("SPENT", disk[p].tx)
                \/ (Select \/ Lock) /\ p \in job'.inputs /\ disk'[p] = Held("PENDING", job.tx)
                \/ Register /\ sync.from = "UNSPENT" /\ p \in sync.pend /\ disk'[p] = Held("PENDING", disk[p].tx)
      OBVIOUS
  <2>1. GivingBack => p \notin job.inputs
      BY <1>0, <1>5, <1>6 DEF LockedBy
  <2> QED
      BY <1>0, <1>1, <1>2, <1>4, <2>1 DEF Effect
<1>10. disk[p].state = "none" =>
                \/ disk'[p] = Absent
                \/ disk'[p].state = "UNSPENT"
                \/ CommitSwap /\ p = <<job.tx, "swap">> /\ disk'[p] = Held("PENDING", job.tx)
  <2> SUFFICES ASSUME disk[p].state = "none" PROVE
                \/ disk'[p] = Absent
                \/ disk'[p].state = "UNSPENT"
                \/ CommitSwap /\ p = <<job.tx, "swap">> /\ disk'[p] = Held("PENDING", job.tx)
      OBVIOUS
  <2>1. p \notin job.inputs
      BY <1>3 DEF Always, AInv, OutputsTrue
  <2>2. ~(Lock /\ p \in job'.inputs)
      BY <1>2, <2>1
  <2>3. Register /\ p \in sync.pend => FALSE
    <3>1. sync.pend \subseteq sync.batch
        BY DEF Always, AInv, SyncTrue
    <3> QED
        BY <1>3, <3>1 DEF Always, AInv, OutputsTrue
  <2> QED
      BY <1>0, <1>1, <1>2, <1>3, <1>4, <2>1, <2>2, <2>3 DEF Effect
<1> QED
    BY <1>7, <1>8, <1>9, <1>10

\* Ecash that was given back short of a payment was not at the mint.
LEMMA ShortIs ==
    ASSUME NEW T, NEW X, Scar(T, X), NEW u, SettleShort(u)
    PROVE  Dirty(T, X)
<1>1. sync.pc = "settle" /\ sync.short # {}
    BY DEF SettleShort
<1> QED
    BY <1>1 DEF Scar, ScarSync, Clean

\* SPENT ecash that the mint holds, or that the lost task held, is not brought back.
LEMMA GoneStays ==
    ASSUME NEW T, NEW X, Always, Scar(T, X), Lives, NEW p \in Proof, Gone(p),
           p \in mintSpent \/ p \in X \/ \E t \in Transfer : Standing(t) /\ p \in quote[t].inputs
    PROVE  disk'[p] = disk[p]
<1>1. \A u : SettleShort(u) => p \notin Unseen
    BY ShortIs DEF Dirty
<1> QED
    BY <1>1, Turns DEF Gone

\* What a visit releases is of a payment that failed.
LEMMA ReleasedIs ==
    ASSUME NEW T, NEW X, Always, Scar(T, X), NEW w \in Worker, ReleaseFailed(w)
    PROVE  visit[w].tx \in Transfer /\ Settled(visit[w].tx) /\ ~Standing(visit[w].tx) /\ visit[w].mode # "recover"
<1>1. visit[w].pc = "release"
    BY DEF ReleaseFailed
<1>2. visit[w].mode # "recover" /\ visit[w].seen = "UNPAID" /\ visit[w].tx \in Transfer
    BY <1>1 DEF Always, AInv, VisitTrue, IInv, VisitKnows
<1> QED
    BY <1>1, <1>2 DEF Scar, ScarVisit, Working

\* A transfer that is settled stays so, and only a writer of SPENT touches the ecash of its melt.
LEMMA SoundStays ==
    ASSUME NEW T, NEW X, Always, Scar(T, X), Lives, NEW t \in Transfer, Settled(t), Begun(t) \/ sync.pc # "idle"
    PROVE  /\ Settled(t)'
           /\ \A p \in quote[t].inputs : Standing(t) =>
                 \/ disk'[p] = disk[p]
                 \/ Writing(p) /\ disk'[p] = Held("SPENT", disk[p].tx)
<1>0. \A s, u : Held(s, u).state = s /\ Held(s, u).tx = u
    BY RecIs
<1>1. ~Pursued(t)'
  <2>1. StartTransfer(t) => ~Begun(t) /\ sync.pc = "idle"
      BY IdleIs DEF StartTransfer, Ready, Begun
  <2> QED
      BY <2>1, PursuedIs DEF Settled
<1>2. quote'[t].state # "UNPAID" => Standing(t) /\ quote'[t].inputs = quote[t].inputs
    BY MintStands DEF Settled
<1>3. quote[t].inputs \in SUBSET Proof
    BY DEF Always, AInv, MintTrue
<1>4. ASSUME Standing(t), NEW p \in quote[t].inputs
      PROVE  disk'[p] = disk[p] \/ (Writing(p) /\ disk'[p] = Held("SPENT", disk[p].tx))
  <2>1. disk[p].tx = t /\ disk[p].state \in {"PENDING", "SPENT"}
      BY <1>4 DEF Settled, Sound
  <2>2. \A u : SettleShort(u) => p \notin Unseen
      BY <1>4, ShortIs DEF Dirty
  <2>3. ~(LockedBy(p, job.tx) /\ job.pc \in WithRow)
      BY <1>0, <2>1 DEF LockedBy, Settled, Pursued, WithRow
  <2>4. \A w \in Worker : ReleaseFailed(w) => ~LockedBy(p, visit[w].tx)
      BY <1>0, <1>4, <2>1, ReleasedIs DEF LockedBy
  <2> QED
      BY <1>3, <2>1, <2>2, <2>3, <2>4, Turns
<1>5. ASSUME quote'[t].state # "UNPAID", NEW p \in quote[t].inputs PROVE disk'[p].tx = t /\ disk'[p].state \in {"PENDING", "SPENT"}
    BY <1>0, <1>2, <1>4, <1>5 DEF Settled, Sound
<1> QED
    BY <1>1, <1>2, <1>4, <1>5 DEF Settled, Sound, Standing

\* Once nothing can be asked or is standing for T, nothing will be.
LEMMA ThreatStays ==
    ASSUME NEW T, NEW X, Always, Scar(T, X), Lives, Threat(T)'
    PROVE  Threat(T)
<1>1. T \in Transfer /\ Begun(T)
    BY DEF Threat, Scar, ScarTyped
<1>2. Pursued(T)' => Pursued(T)
    BY <1>1, PursuedIs
<1>3. quote'[T].state # "UNPAID" => Standing(T) \/ Pursued(T)
    BY <1>1, MintStands DEF Pursued
<1> QED
    BY <1>1, <1>2, <1>3 DEF Threat, Standing

\* The ecash of the lost call that the mint already has stays excused.
LEMMA CursedStays ==
    ASSUME NEW T, NEW X, Always, Scar(T, X), Gentle(T, X), Cursed(T, X), NEW p \in X, AtMintNow(p)'
    PROVE  Cursed(T, X)'
<1> USE DEF Always, AInv
<1>0. T \in Transfer /\ Lives /\ p \in Proof /\ mintSpent \subseteq mintSpent' /\ (Taken(T) => quote[T].inputs = X)
    BY MintStands DEF Cursed, Gentle, Scar, ScarTyped
<1>1. CASE Standing(T)
  <2>1. ASSUME quote'[T].state = "UNPAID" PROVE FALSE
    <3>1. p \in quote[T].inputs /\ p \notin mintSpent' /\ \A u \in Transfer : u # T => quote'[u] = quote[u]
        BY <1>0, <1>1, <2>1, MintStands
    <3>2. PICK u \in Transfer : quote'[u].state # "UNPAID" /\ p \in quote'[u].inputs
        BY <3>1 DEF AtMintNow, Standing
    <3>3. u # T /\ Standing(u) /\ p \in quote[u].inputs
        BY <2>1, <3>1, <3>2 DEF Standing
    <3> QED
        BY <1>0, <1>1, <3>1, <3>3 DEF MintTrue
  <2> QED
      BY <1>0, <2>1 DEF Cursed, Standing
<1>2. CASE ~Standing(T)
  <2>1. X \subseteq mintSpent /\ ~Taken(T) /\ ~Late(T)
      BY <1>2 DEF Cursed
  <2>2. ~Taken(T)'
    <3>1. \A q \in net : ~(TakeMelt(q) /\ q.tx = T)
        BY <1>0, <2>1, TakenIs
    <3> QED
        BY <1>0, <2>1, <3>1, MintStands DEF Taken
  <2>3. ASSUME Late(T)' PROVE FALSE
    <3>1. (\E q \in net' : q.tx = T) /\ ~(job'.pc = "wait" /\ job'.tx = T)
        BY <2>3 DEF Late, Requested
    <3>2. Requested(T) \/ (Submit /\ T = job.tx)
        BY <1>0, <2>3, MintFacts DEF Late
    <3>3. ~Submit \/ T # job.tx
        BY <3>1 DEF Submit, IInv, Shapes
    <3>4. job.pc = "wait" /\ job.tx = T
        BY <2>1, <3>2, <3>3 DEF Late
    <3>5. ~UNCHANGED job
        BY <3>1, <3>4
    <3>6. ~LoseAnswer
        BY <1>2, <2>1 DEF Gentle
    <3>7. ~TakeAnswer
        BY <2>1, <3>4 DEF TakeAnswer, RequestsTrue, Answers
    <3>8. ~TakeError
        BY <3>2, <3>3, <3>4 DEF TakeError, RequestsTrue, Refusals
    <3>9. ~AnswerMelt(job.tx)
        BY <2>1, <3>4 DEF AnswerMelt, Taken
    <3>10. \A q \in net : ~RefuseMelt(q)
        BY <3>1, <3>4 DEF RefuseMelt, Reply, IInv, Shapes
    <3> QED
        BY <1>0, <3>4, <3>5, <3>6, <3>7, <3>8, <3>9, <3>10, JobAt
  <2> QED
      BY <1>0, <2>1, <2>2, <2>3 DEF Cursed
<1> QED
    BY <1>1, <1>2

\* A step of a wallet that is alive is no restart.
LEMMA PhaseStays == ASSUME Lives PROVE UNCHANGED phase
<1>1. CASE Running
    BY <1>1 DEF Running, JobRuns, SyncRuns, VisitRuns, Lock, Prepared, Execute, SettlePaid, SettlePending,
       SettleUnpaid, Fail, Rescued, OnchainChecked, Dispatched, Register, Unregister, GoneRefreshed, Synced,
       SettleShort, SkipSettled, Dispatch, RefreshGone, ReleaseFailed, MarkReverted, SettleVisit
<1>2. CASE Resuming
    BY <1>2 DEF Resuming, JobResumes, SyncResumes, VisitResumes, Select, CommitSwap, Submit, TakeAnswer,
       TakeError, Recheck, JudgePaid, JudgePending, JudgeUnpaid, NestedDone, Check, WriteOff, MarkPending,
       AskQuote, SeesPaid, SeesUnpaid, SeesForRecovery, Unblind
<1>3. CASE Failures
    BY <1>3 DEF Failures, SwapFails, LoseAnswer, RecheckFails, CheckFails, AskFails, UnblindFails
<1>4. CASE Starts
    BY <1>4 DEF Starts, StartTransfer, CheckOnchain, RecoverByHand, MonitorRefreshes, ExpireTransfer, ReloadTransfer, ReadAgain, SyncAll
<1>5. CASE MintSteps \/ NetworkSteps
    BY <1>5 DEF MintSteps, NetworkSteps, MintSwaps, TakeMelt, RefuseMelt, AnswerMelt, Broadcast, PaymentSucceeds,
       PaymentFails
<1> QED
    BY <1>1, <1>2, <1>3, <1>4, <1>5 DEF Lives

\* While the task runs, nothing else does; so does a visit.
LEMMA TaskIsAlone ==
    ASSUME OneRuns, Lives, JobHot
    PROVE  JobRuns
<1>0. Queue \in Worker
    BY TransferAssumptions DEF Queue, Worker
<1>1. ~AtAwait
    BY DEF AtAwait, JobHot
<1>2. ~SyncRuns
  <2>1. SyncRuns => SyncHot \/ VisitHot(Queue)
      BY DEF SyncRuns, SyncHot, VisitHot, Dispatched, Register, Unregister, GoneRefreshed, Synced, SettleShort,
         SkipSettled, Dispatch, RefreshGone
  <2> QED
      BY <1>0, <2>1 DEF OneRuns
<1>3. ~VisitRuns
    BY DEF VisitRuns, OneRuns, VisitHot, ReleaseFailed, MarkReverted, SettleVisit
<1> QED
    BY <1>1, <1>2, <1>3 DEF Lives, Running

\* A visit in the middle of a synchronous stretch is the one that runs.
LEMMA VisitIsAlone ==
    ASSUME OneRuns, Lives, NEW w \in Worker, visit[w].pc \in {"release", "revert", "settle"}
    PROVE  ReleaseFailed(w) \/ MarkReverted(w) \/ SettleVisit(w)
<1>0. Queue \in Worker /\ VisitHot(w)
    BY TransferAssumptions DEF Queue, Worker, VisitHot
<1>1. ~AtAwait
    BY DEF AtAwait
<1>2. ~SyncRuns
  <2>1. SyncRuns => SyncHot \/ (VisitHot(Queue) /\ visit[Queue].pc \in {"returned", "threw"})
      BY DEF SyncRuns, SyncHot, VisitHot, Dispatched, Register, Unregister, GoneRefreshed, Synced, SettleShort,
         SkipSettled, Dispatch, RefreshGone
  <2> QED
      BY <1>0, <2>1 DEF OneRuns
<1>3. ~JobRuns
  <2>1. JobRuns => JobHot \/ (VisitHot(Queue) /\ visit[Queue].pc \in {"returned", "threw"})
      BY DEF JobRuns, JobHot, VisitHot, Lock, Prepared, Execute, SettlePaid, SettlePending, SettleUnpaid, Fail, Rescued,
         OnchainChecked
  <2> QED
      BY <1>0, <2>1 DEF OneRuns
<1>4. PICK v \in Worker : ReleaseFailed(v) \/ MarkReverted(v) \/ SettleVisit(v)
    BY <1>1, <1>2, <1>3 DEF Lives, Running, VisitRuns
<1>5. VisitHot(v)
    BY <1>4 DEF VisitHot, ReleaseFailed, MarkReverted, SettleVisit
<1> QED
    BY <1>0, <1>4, <1>5 DEF OneRuns

\* The queue has one task: while a sync runs, the transfer task waits.
LEMMA SyncIsAlone ==
    ASSUME IInv, TaskTrue, SyncTrue, Lives, sync.pc # "idle"
    PROVE  /\ UNCHANGED job /\ job.pc \in {"idle", "nested", "nestedtwice"}
           /\ ~Select /\ ~Lock /\ ~CommitSwap /\ ~SwapFails /\ ~SettlePaid /\ ~SettlePending /\ ~SettleUnpaid
           /\ ~JudgePaid /\ ~JudgePending /\ ~JudgeUnpaid /\ ~MintSwaps /\ ~Submit
<1>1. job.pc \in {"idle", "nested", "nestedtwice"}
    BY DEF SyncTrue
<1>2. ~(\E t \in Transfer : StartTransfer(t) \/ CheckOnchain(t)) /\ ~NestedDone
    BY IdleIs DEF StartTransfer, CheckOnchain, Ready, NestedDone
<1>3. UNCHANGED job
    BY <1>1, <1>2, JobAt
<1> QED
    BY <1>1, <1>3 DEF Select, Lock, CommitSwap, SwapFails, SettlePaid, SettlePending, SettleUnpaid, JudgePaid, JudgePending,
       JudgeUnpaid, MintSwaps, Submit

\* While a sync runs, only the mishap's request is under way.
LEMMA SyncPursues ==
    ASSUME NEW T, NEW X, Always, Scar(T, X), sync.pc # "idle"
    PROVE  /\ \A t : Pursued(t) <=> Requested(t)
           /\ \A q \in net : q.tx = T /\ q.inputs = X
           /\ \A t : Requested(t) => t = T
           /\ Late(T) <=> Requested(T)
<1>1. job.pc \in {"idle", "nested", "nestedtwice"}
    BY DEF Always, AInv, SyncTrue
<1> QED
    BY <1>1 DEF Pursued, Requested, Holding, Scar, ScarTask, Late

\* Who writes which status.
LEMMA StatusIs ==
    ASSUME IInv, Lives, NEW t \in Transfer
    PROVE  \/ status'[t] = status[t]
           \/ status'[t] = "PENDING" /\ ((SettlePending /\ t = job.tx) \/ (MarkPending /\ t \in sync.ids))
           \/ status'[t] = "EXPIRING" /\ status[t] = "PENDING"
           \/ status'[t] = "REVERTED" /\ \E w \in Worker : MarkReverted(w) /\ t = visit[w].tx
           \/ status'[t] = "COMPLETED" /\ ((SettlePaid /\ t = job.tx) \/ \E w \in Worker : SettleVisit(w) /\ visit[w].mode # "recover" /\ t = visit[w].tx)
           \/ status'[t] \notin {"PENDING", "EXPIRING", "REVERTED", "COMPLETED"}
<1> USE DEF IInv, Shapes, SetStatus
<1>0. DOMAIN status = Tx /\ t \in Tx
    BY TransferAssumptions
<1>1. CASE JobRuns
  <2>1. CASE Lock \/ SettleUnpaid \/ OnchainChecked
      BY <2>1 DEF Lock, SettleUnpaid, OnchainChecked
  <2>2. ASSUME NEW s, SetStatus(job.tx, s) PROVE status'[t] = status[t] \/ (t = job.tx /\ status'[t] = s)
      BY <1>0, <2>2
  <2>3. CASE Prepared \/ Execute \/ Fail \/ Rescued
      BY <2>2, <2>3 DEF Prepared, Execute, Fail, Rescued
  <2>4. CASE SettlePaid
      BY <2>2, <2>4 DEF SettlePaid
  <2>5. CASE SettlePending
    <3>1. SetStatus(job.tx, "PENDING")
        BY <2>5 DEF SettlePending
    <3> QED
        BY <2>2, <2>5, <3>1
  <2> QED
      BY <1>1, <2>1, <2>3, <2>4, <2>5 DEF JobRuns
<1>2. CASE SyncRuns
    BY <1>0, <1>2 DEF SyncRuns, Dispatched, Register, Unregister, GoneRefreshed, Synced, SettleShort, SkipSettled, Dispatch,
       RefreshGone
<1>3. ASSUME NEW w \in Worker, ReleaseFailed(w) \/ MarkReverted(w) \/ SettleVisit(w)
      PROVE  \/ status'[t] = status[t]
             \/ status'[t] = "REVERTED" /\ MarkReverted(w) /\ t = visit[w].tx
             \/ status'[t] = "COMPLETED" /\ SettleVisit(w) /\ visit[w].mode # "recover" /\ t = visit[w].tx
             \/ status'[t] = "RECOVERED"
    BY <1>0, <1>3 DEF ReleaseFailed, MarkReverted, SettleVisit
<1>4. CASE JobResumes \/ SyncResumes
    BY <1>0, <1>4 DEF JobResumes, SyncResumes, Select, CommitSwap, Submit, TakeAnswer,
       TakeError, Recheck, JudgePaid, JudgePending, JudgeUnpaid, NestedDone, Check, WriteOff, MarkPending
<1>5. ASSUME NEW w \in Worker, AskQuote(w) \/ SeesPaid(w) \/ SeesUnpaid(w) \/ SeesForRecovery(w) \/ Unblind(w)
      PROVE  status'[t] = status[t] \/ status'[t] \in {"ERROR", "EXPIRED"}
    BY <1>0, <1>5 DEF AskQuote, SeesPaid, SeesUnpaid, SeesForRecovery, ReadAgain, Unblind
<1>6. CASE Failures
    BY <1>0, <1>6 DEF Failures, SwapFails, LoseAnswer, RecheckFails, CheckFails, AskFails, UnblindFails
<1>7. CASE Starts
    BY <1>0, <1>7 DEF Starts, StartTransfer, CheckOnchain, RecoverByHand, MonitorRefreshes, ExpireTransfer, ReloadTransfer, ReadAgain, SyncAll
<1>8. CASE MintSteps \/ NetworkSteps
    BY <1>8 DEF MintSteps, NetworkSteps, MintSwaps, TakeMelt, RefuseMelt, AnswerMelt, Broadcast, PaymentSucceeds,
       PaymentFails
<1> QED
    BY <1>1, <1>2, <1>3, <1>4, <1>5, <1>6, <1>7, <1>8 DEF Lives, Running, Resuming, VisitRuns, VisitResumes

------------------------------------------------------------------------------
(* The scar under such a step, one part at a time.                         *)

\* A gentle step keeps what T and X are.
LEMMA ScarTypedKept ==
    ASSUME NEW T, NEW X, Always, Scar(T, X), Lives
    PROVE  ScarTyped(T, X)'
<1>1. /\ X \subseteq Proof /\ (T \in Transfer \/ (T = Genesis /\ X = {}))
      /\ T \in Transfer => X \cap Blanks(T) = {} /\ (Taken(T) => quote[T].inputs = X) /\ Begun(T)
    BY DEF Scar, ScarTyped
<1>2. T \in Transfer => status'[T] # "none"
    BY <1>1, StatusStays, TransferAssumptions DEF Always, Begun
<1>3. T \in Transfer /\ quote'[T].inputs # {} => quote'[T].inputs = X
    BY <1>1, MintStands, TakenIs
<1>4. phase' # "loading" => \A p \in Proof : Mirrored(p)'
    BY Effects, PhaseStays
<1> QED
    BY <1>1, <1>2, <1>3, <1>4 DEF ScarTyped, Blanks, Taken, Begun, Mirrored

\* It keeps the reservation that a restart will find,
LEMMA ScarDownKept ==
    ASSUME NEW T, NEW X, Always, Scar(T, X), Lives
    PROVE  ScarDown(T, X)'
<1> SUFFICES ASSUME phase' # "up" PROVE ScarDown(T, X)'
    BY DEF ScarDown
<1>1. phase # "up" /\ UNCHANGED <<disk, rows, status>>
    BY PhaseStays, DownSteps DEF Always, AInv
<1> QED
    BY <1>1 DEF Scar, ScarDown, LockedBy, Held, Alone

\* Waiting starts with a request.
LEMMA WaitCameFrom ==
    ASSUME IInv, TaskTrue, MintTrue, Lives, job'.pc \in {"wait", "settle", "recheck", "judge"}
    PROVE  \/ Submit /\ job'.pc = "wait" /\ job'.answer = "none" /\ job'.tx = job.tx /\ job'.inputs = job.inputs
           \/ /\ job.pc \in {"wait", "recheck", "judge", "settle"} /\ job'.tx = job.tx /\ job'.inputs = job.inputs
              /\ job'.pc \in {"wait", "settle"} => job.pc \in {"wait", "settle"}
              /\ job'.answer = "lost" => job.answer = "lost" \/ LoseAnswer
<1> USE DEF IInv, Shapes
<1>1. ASSUME NEW t \in Transfer, StartTransfer(t) \/ CheckOnchain(t), ~UNCHANGED job PROVE FALSE
    BY ZenonT(30), <1>1, IdleIs DEF StartTransfer, CheckOnchain, IdleJob
<1>2. CASE OnchainChecked \/ SettlePaid \/ SettlePending \/ SettleUnpaid \/ Fail
    BY <1>2, IdleIs DEF OnchainChecked, SettlePaid, SettlePending, SettleUnpaid, Fail
<1>3. CASE Select
    BY <1>3, SelectIs
<1>4. CASE MintSwaps \/ CommitSwap \/ SwapFails \/ Lock \/ Prepared \/ Execute \/ Submit
    BY <1>4 DEF MintSwaps, CommitSwap, SwapFails, Lock, Prepared, Execute, Submit
<1>5. CASE job.pc = "wait" /\ (TakeAnswer \/ TakeError \/ LoseAnswer)
    BY <1>5 DEF TakeAnswer, TakeError, LoseAnswer
<1>6. CASE job.pc = "wait" /\ job.answer = "none" /\ (AnswerMelt(job.tx) \/ \E q \in net : RefuseMelt(q) /\ q.tx = job.tx)
  <2>1. CASE AnswerMelt(job.tx)
    <3>1. job'.tx = job.tx /\ job'.inputs = job.inputs /\ job'.pc = job.pc
        BY <2>1 DEF AnswerMelt
    <3>2. job'.answer \in {"PENDING", quote[job.tx].state} /\ job.tx \in Transfer /\ quote[job.tx].state # "lost"
        BY <1>6, <2>1 DEF AnswerMelt, JobKnows, MintTrue, Answers
    <3> QED
        BY <1>6, <3>1, <3>2
  <2>2. CASE \E q \in net : RefuseMelt(q) /\ q.tx = job.tx
      BY <1>6, <2>2 DEF RefuseMelt, Reply
  <2> QED
      BY <1>6, <2>1, <2>2
<1>7. CASE job.pc \in {"recheck", "judge"} /\ (Recheck \/ RecheckFails \/ JudgePaid \/ JudgePending \/ JudgeUnpaid)
    BY <1>7 DEF Recheck, RecheckFails, JudgePaid, JudgePending, JudgeUnpaid
<1>8. CASE Rescued \/ NestedDone
    BY <1>8 DEF Rescued, NestedDone
<1> QED
    BY <1>1, <1>2, <1>3, <1>4, <1>5, <1>6, <1>7, <1>8, JobAt

\* and the task's claim on its ecash.
LEMMA ScarTaskKept ==
    ASSUME NEW T, NEW X, Always, Scar(T, X), Gentle(T, X)
    PROVE  ScarTask(T, X)'
<1> USE DEF Always, AInv
<1>0. Lives
    BY DEF Gentle
<1>t. /\ job.pc \in {"wait", "settle"} /\ Taken(job.tx) => quote[job.tx].inputs = job.inputs
      /\ job.pc \in {"recheck", "judge"} /\ job.answer = "lost" => job.tx = T
      /\ job.tx = T /\ job.pc \in Holding \cup {"select"} => job.pc # "select" /\ job.inputs = X
      /\ \A q \in net : \/ job.pc = "wait" /\ job.answer = "none" /\ q.tx = job.tx /\ q.inputs = job.inputs
                        \/ q.tx = T /\ q.inputs = X
    BY DEF Scar, ScarTask
<1>g. (LoseAnswer => job.tx = T) /\ (job.tx = T /\ job.pc = "swap" => ~CommitSwap)
    BY DEF Gentle
<1>k. job.pc # "idle" => job.tx \in Transfer
    BY DEF IInv, JobKnows
<1>1. job'.pc \in {"wait", "settle"} /\ quote'[job'.tx].inputs # {} => quote'[job'.tx].inputs = job'.inputs
  <2> SUFFICES ASSUME job'.pc \in {"wait", "settle"}, quote'[job'.tx].inputs # {} PROVE quote'[job'.tx].inputs = job'.inputs
      OBVIOUS
  <2>1. CASE Submit /\ job'.tx = job.tx /\ job'.inputs = job.inputs
    <3>1. job.pc = "submit" /\ UNCHANGED quote
        BY <2>1 DEF Submit
    <3> QED
        BY <2>1, <3>1 DEF RequestsTrue, Asking, Taken
  <2>2. CASE job.pc \in {"wait", "settle"} /\ job'.tx = job.tx /\ job'.inputs = job.inputs
    <3>1. CASE Taken(job.tx)
        BY <1>0, <1>t, <1>k, <2>2, <3>1, MintStands
    <3>2. CASE ~Taken(job.tx)
      <4>1. PICK q \in net : q.tx = job.tx /\ TakeMelt(q) /\ quote'[job.tx].inputs = q.inputs
          BY <1>0, <1>k, <2>2, <3>2, MintStands
      <4>2. q.inputs = job.inputs
        <5>1. job.tx = T => job.inputs = X
            BY <1>t, <2>2 DEF Holding
        <5> QED
            BY <4>1, <5>1, TakenIs
      <4> QED
          BY <2>2, <4>1, <4>2
    <3> QED
        BY <3>1, <3>2
  <2> QED
      BY <1>0, <2>1, <2>2, WaitCameFrom
<1>2. job'.pc \in {"recheck", "judge"} /\ job'.answer = "lost" => job'.tx = T
  <2> SUFFICES ASSUME job'.pc \in {"recheck", "judge"}, job'.answer = "lost" PROVE job'.tx = T
      OBVIOUS
  <2>1. job.pc \in {"wait", "recheck", "judge", "settle"} /\ job'.tx = job.tx /\ (job.answer = "lost" \/ LoseAnswer)
      BY <1>0, WaitCameFrom
  <2>2. job.answer = "lost" => job.pc \in {"recheck", "judge"}
      BY <2>1 DEF TaskTrue, Answers, Refusals
  <2> QED
      BY <1>t, <1>g, <2>1, <2>2
<1>3. job'.tx = T /\ job'.pc \in Holding \cup {"select"} => job'.pc # "select" /\ job'.inputs = X
  <2> SUFFICES ASSUME job'.tx = T, job'.pc \in Holding \cup {"select"} PROVE job'.pc # "select" /\ job'.inputs = X
      OBVIOUS
  <2>1. job'.pc # "select"
    <3>1. T \in Transfer => Begun(T)
        BY DEF Scar, ScarTyped
    <3>2. ~(T \in Transfer /\ status[T] = "none")
        BY <3>1 DEF Begun
    <3>3. ~(job.tx = T /\ job.pc = "select")
        BY <1>t
    <3> QED
        BY <1>0, <3>2, <3>3, SelectCameFrom
  <2>2. job'.pc \in Holding
      BY <2>1
  <2>3. ~Select
      BY <1>t, SelectIs
  <2>4. ~CommitSwap \/ job.tx # T
      BY <1>g DEF CommitSwap
  <2> QED
      BY <1>0, <1>t, <2>1, <2>2, <2>3, <2>4, JobHolds
<1>4. \A q \in net' : \/ job'.pc = "wait" /\ job'.answer = "none" /\ q.tx = job'.tx /\ q.inputs = job'.inputs
                      \/ q.tx = T /\ q.inputs = X
  <2> SUFFICES ASSUME NEW q \in net'
               PROVE  \/ job'.pc = "wait" /\ job'.answer = "none" /\ q.tx = job'.tx /\ q.inputs = job'.inputs
                      \/ q.tx = T /\ q.inputs = X
      OBVIOUS
  <2>0. CASE q.tx = T /\ q.inputs = X
      BY <2>0
  <2>z. CASE ~(q.tx = T /\ q.inputs = X)
    <3>1. CASE Submit
      <4>1. /\ job.pc = "submit" /\ job'.pc = "wait" /\ job'.answer = "none" /\ job'.tx = job.tx /\ job'.inputs = job.inputs
            /\ q \in net \/ (q.tx = job.tx /\ q.inputs = job.inputs)
          BY <3>1 DEF Submit, IInv, Shapes
      <4> QED
          BY <1>t, <2>z, <4>1
    <3>2. CASE ~Submit
      <4>1. q \in net
        <5>1. CASE UNCHANGED net
            BY <5>1
        <5>2. CASE \E r \in net : net' = net \ {r}
            BY <5>2
        <5>3. MintDoes => UNCHANGED net \/ \E r \in net : net' = net \ {r}
            BY <3>2 DEF MintDoes, mintVars, TakeMelt, Broadcast, PaymentSucceeds, PaymentFails
        <5> QED
            BY <1>0, <5>1, <5>2, <5>3, MintDoesSo
      <4>2. job.pc = "wait" /\ job.answer = "none" /\ q.tx = job.tx /\ q.inputs = job.inputs
          BY <1>t, <2>z, <4>1
      <4>3. UNCHANGED job
        <5>1. ~TakeAnswer /\ ~TakeError
            BY <4>2 DEF TakeAnswer, TakeError
        <5>2. ~LoseAnswer
          <6>1. job.tx # T
              BY <1>t, <2>z, <4>2 DEF Holding
          <6> QED
              BY <1>g, <6>1
        <5>3. ~AnswerMelt(job.tx)
            BY <4>1, <4>2 DEF AnswerMelt, RequestsTrue, Taken
        <5>4. \A r \in net : ~(RefuseMelt(r) /\ r.tx = job.tx)
            BY <4>1, <4>2 DEF RefuseMelt, RequestsTrue
        <5> QED
            BY <1>0, <4>2, <5>1, <5>2, <5>3, <5>4, JobAt
      <4> QED
          BY <4>2, <4>3
    <3> QED
        BY <3>1, <3>2
  <2> QED
      BY <2>0, <2>z
<1> QED
    BY <1>1, <1>2, <1>3, <1>4 DEF ScarTask, Taken, Holding

\* The task gives back the ecash of a payment that stands only after it has lost the answer.
LEMMA GivesBack ==
    ASSUME NEW T, NEW X, Always, Scar(T, X), GivingBack
    PROVE  /\ job.pc \in Holding /\ job.tx \in Transfer
           /\ Standing(job.tx) => job.tx = T /\ job.inputs = X
<1> USE DEF Always, AInv
<1>1. job.pc \in {"swap", "settle", "judge"} /\ job.tx \in Transfer
    BY DEF GivingBack, SwapFails, SettleUnpaid, JudgeUnpaid, IInv, JobKnows
<1>2. Standing(job.tx) => Taken(job.tx)
    BY <1>1 DEF MintTrue
<1>3. SwapFails => ~Taken(job.tx)
    BY DEF SwapFails, RequestsTrue, Asking
<1>4. SettleUnpaid => ~Standing(job.tx)
    BY DEF SettleUnpaid, RequestsTrue
<1>5. JudgeUnpaid => ~Taken(job.tx) \/ (job.tx = T /\ job.inputs = X)
    BY DEF JudgeUnpaid, RequestsTrue, TaskTrue, Scar, ScarTask, Holding
<1> QED
    BY <1>1, <1>2, <1>3, <1>4, <1>5 DEF GivingBack, Holding

\* A gentle step keeps what a status says of the ecash.
LEMMA ScarStatusKept ==
    ASSUME NEW T, NEW X, Always, Scar(T, X), Gentle(T, X)
    PROVE  ScarStatus'
<1> USE DEF Always, AInv
<1>0. Lives
    BY DEF Gentle
<1>h. \A s, u : Held(s, u).state = s /\ Held(s, u).tx = u
    BY RecIs
<1> SUFFICES ASSUME NEW t \in Transfer
             PROVE  /\ status'[t] \in {"PENDING", "EXPIRING"} => Settled(t)'
                    /\ status'[t] = "REVERTED" => ~Pursued(t)' /\ quote'[t].state = "UNPAID"
                    /\ status'[t] = "COMPLETED" => \A p \in quote'[t].inputs : disk'[p].state = "SPENT"
    BY DEF ScarStatus, Gone, Standing
<1>s. /\ status[t] \in {"PENDING", "EXPIRING"} => Settled(t)
      /\ status[t] = "REVERTED" => ~Pursued(t) /\ ~Standing(t)
      /\ status[t] = "COMPLETED" => \A p \in quote[t].inputs : Gone(p)
    BY DEF Scar, ScarStatus
<1>q. quote[t].inputs \in SUBSET Proof
    BY DEF MintTrue
<1>1. status'[t] \in {"PENDING", "EXPIRING"} => Settled(t)'
  <2>1. CASE status[t] \in {"PENDING", "EXPIRING"}
      BY <1>0, <1>s, <2>1, SoundStays DEF Begun
  <2>2. CASE SettlePending /\ t = job.tx
    <3>1. job.pc = "settle" /\ job.answer = "PENDING" /\ job' = IdleJob /\ UNCHANGED mintVars
        BY <2>2 DEF SettlePending
    <3>2. Taken(t)
        BY <2>2, <3>1 DEF RequestsTrue, Answers
    <3>3. ~Requested(t)
        BY <3>2 DEF RequestsTrue, Requested
    <3>4. ~Pursued(t)'
        BY <3>1, <3>3, IdleIs DEF Pursued, Requested, Holding, mintVars
    <3>5. quote[t].inputs = job.inputs
        BY <2>2, <3>1, <3>2 DEF Scar, ScarTask
    <3>6. \A p \in job.inputs : LockedBy(p, t) /\ p \in Proof
        BY <2>2, <3>1 DEF Scar, ScarLock, WithRow, Holding, TaskTrue
    <3>7. ASSUME NEW p \in job.inputs PROVE disk'[p].tx = t /\ disk'[p].state \in {"PENDING", "SPENT"}
      <4>1. LockedBy(p, t) /\ p \in Proof
          BY <3>6
      <4>2. ~GivingBack /\ \A w \in Worker : ~ReleaseFailed(w)
          BY <2>2, <3>1 DEF GivingBack, SwapFails, SettleUnpaid, JudgeUnpaid, OneRuns, JobHot, VisitHot, ReleaseFailed
      <4>3. \A u : ~SettleShort(u)
          BY <3>1 DEF SettleShort, SyncTrue
      <4> QED
          BY <1>0, <1>h, <4>1, <4>2, <4>3, Turns DEF LockedBy
    <3> QED
        BY <3>1, <3>4, <3>5, <3>7 DEF Settled, Sound, mintVars
  <2>3. CASE MarkPending /\ t \in sync.ids
    <3>1. sync.pc = "mark"
        BY <2>3 DEF MarkPending
    <3>2. Settled(t)
        BY <2>3, <3>1 DEF Scar, ScarOwners, Calm
    <3> QED
        BY <1>0, <3>1, <3>2, SoundStays
  <2> QED
      BY <1>0, <2>1, <2>2, <2>3, StatusIs
<1>2. status'[t] = "REVERTED" => ~Pursued(t)' /\ quote'[t].state = "UNPAID"
  <2>1. CASE ~Pursued(t) /\ ~Standing(t) /\ Begun(t)
      BY <1>0, <2>1, PursuedIs, MintStands
  <2>2. CASE status[t] = "REVERTED"
      BY <1>s, <2>1, <2>2 DEF Begun
  <2>3. ASSUME NEW w \in Worker, MarkReverted(w), t = visit[w].tx PROVE ~Pursued(t) /\ ~Standing(t) /\ Begun(t)
    <3>1. visit[w].pc = "revert"
        BY <2>3 DEF MarkReverted
    <3>2. visit[w].mode # "recover" /\ visit[w].seen = "UNPAID"
        BY <3>1 DEF VisitTrue
    <3> QED
        BY <2>3, <3>1, <3>2 DEF Scar, ScarVisit, Working, Settled, BegunTrue
  <2> QED
      BY <1>0, <2>1, <2>2, <2>3, StatusIs
<1>3. status'[t] = "COMPLETED" => \A p \in quote'[t].inputs : disk'[p].state = "SPENT"
  <2>1. CASE status[t] = "COMPLETED"
    <3>1. quote[t].state = "PAID" /\ quote'[t].inputs = quote[t].inputs
        BY <1>0, <2>1, MintFacts DEF IInv, CompletedOnlyIfPaid, MintTrue, Standing
    <3>2. \A p \in quote[t].inputs : disk'[p] = disk[p]
        BY <1>0, <1>s, <1>q, <2>1, <3>1, GoneStays DEF Standing
    <3> QED
        BY <1>s, <2>1, <3>1, <3>2 DEF Gone
  <2>2. CASE SettlePaid /\ t = job.tx
    <3>1. job.pc = "settle" /\ job.answer = "PAID" /\ UNCHANGED mintVars
        BY <2>2 DEF SettlePaid
    <3>2. Taken(t)
        BY <2>2, <3>1 DEF RequestsTrue, Answers
    <3>3. quote[t].inputs = job.inputs
        BY <2>2, <3>1, <3>2 DEF Scar, ScarTask
    <3>4. \A p \in job.inputs : Writing(p)
        BY <2>2 DEF Writing
    <3>5. \A p \in job.inputs : disk'[p].state = "SPENT"
        BY <1>0, <1>q, <3>3, <3>4, Effects DEF Sure
    <3> QED
        BY <3>1, <3>3, <3>5 DEF mintVars
  <2>3. ASSUME NEW w \in Worker, SettleVisit(w), visit[w].mode # "recover", t = visit[w].tx
        PROVE  \A p \in quote'[t].inputs : disk'[p].state = "SPENT"
    <3>1. visit[w].pc = "settle" /\ UNCHANGED mintVars
        BY <2>3 DEF SettleVisit
    <3>2. Standing(t)
        BY <2>3, <3>1 DEF IInv, VisitKnows, Paid, Standing
    <3>3. \A p \in quote[t].inputs : p \in visit[w].pending \/ Gone(p)
        BY <2>3, <3>1 DEF Scar, ScarVisit
    <3>4. \A p \in visit[w].pending : Writing(p)
        BY <2>3 DEF Writing
    <3>5. \A p \in quote[t].inputs : disk'[p].state = "SPENT"
      <4>1. ASSUME NEW p \in quote[t].inputs, Gone(p) PROVE disk'[p].state = "SPENT"
        <5>1. disk'[p] = disk[p]
            BY <1>0, <1>q, <3>2, <4>1, GoneStays
        <5> QED
            BY <4>1, <5>1 DEF Gone
      <4>2. ASSUME NEW p \in quote[t].inputs, Writing(p) PROVE disk'[p].state = "SPENT"
          BY <1>0, <1>q, <4>2, Effects DEF Sure
      <4> QED
          BY <3>3, <3>4, <4>1, <4>2
    <3> QED
        BY <3>1, <3>5 DEF mintVars
  <2> QED
      BY <1>0, <2>1, <2>2, <2>3, StatusIs
<1> QED
    BY <1>1, <1>2, <1>3

\* Locked inputs of a payment that stands stay as they are, are written off, or are given back
\* after the loss.
LEMMA StandsHeld ==
    ASSUME NEW T, NEW X, Always, Scar(T, X), Lives, NEW t \in Transfer, Standing(t),
           NEW p \in quote[t].inputs, LockedBy(p, t)
    PROVE  \/ disk'[p] = disk[p]
           \/ Writing(p) /\ disk'[p] = Held("SPENT", t)
           \/ GivingBack /\ p \in job.inputs /\ job.tx = t /\ t = T /\ job.inputs = X
<1>h. \A s, u : Held(s, u).state = s /\ Held(s, u).tx = u
    BY RecIs
<1>1. p \in Proof /\ disk[p].state = "PENDING" /\ disk[p].tx = t
    BY <1>h DEF LockedBy, Always, AInv, MintTrue
<1>2. \A u : SettleShort(u) => p \notin Unseen
    BY ShortIs DEF Dirty
<1>3. \A w \in Worker : ReleaseFailed(w) => ~LockedBy(p, visit[w].tx)
    BY <1>h, ReleasedIs DEF LockedBy
<1>4. GivingBack /\ LockedBy(p, job.tx) => job.tx = t /\ t = T /\ job.inputs = X
    BY <1>h, GivesBack DEF LockedBy
<1> QED
    BY <1>1, <1>2, <1>3, <1>4, Turns

\* They are written off together.
LEMMA WrittenTogether ==
    ASSUME NEW T, NEW X, Always, Scar(T, X), Lives, NEW t \in Transfer, Standing(t),
           NEW p \in quote[t].inputs, NEW r \in quote[t].inputs, LockedBy(p, t), LockedBy(r, t), Writing(r)
    PROVE  Writing(p)
<1> USE DEF Always, AInv
<1>h. \A s, u : Held(s, u).state = s /\ Held(s, u).tx = u
    BY RecIs
<1>t. Taken(t)
    BY DEF MintTrue
<1>1. ASSUME CommitSwap \/ SettlePaid \/ JudgePaid, r \in job.inputs PROVE Writing(p)
  <2>1. job.pc \in {"swap", "settle", "judge"}
      BY <1>1 DEF CommitSwap, SettlePaid, JudgePaid
  <2>2. LockedBy(r, job.tx)
      BY <1>1, <2>1 DEF Scar, ScarLock, WithRow, Holding
  <2>3. job.tx = t
      BY <1>h, <2>2 DEF LockedBy
  <2>4. CASE CommitSwap
      BY <1>t, <2>3, <2>4 DEF CommitSwap, RequestsTrue, Asking
  <2>5. CASE SettlePaid
    <3>1. job.inputs = quote[t].inputs
        BY <1>t, <2>3, <2>5 DEF SettlePaid, Scar, ScarTask
    <3> QED
        BY <2>5, <3>1 DEF Writing
  <2>6. CASE JudgePaid
    <3>1. job.pc = "judge" /\ job.answer = "lost"
        BY <1>t, <2>3, <2>6 DEF JudgePaid, RequestsTrue, TaskTrue
    <3>2. t = T /\ job.inputs = X
        BY <2>3, <3>1 DEF Scar, ScarTask, Holding
    <3>3. quote[t].inputs = X
        BY <1>t, <3>2 DEF Scar, ScarTyped
    <3> QED
        BY <2>6, <3>2, <3>3 DEF Writing
  <2> QED
      BY <1>1, <2>4, <2>5, <2>6
<1>2. ASSUME WriteOff, r \in sync.spent PROVE Writing(p)
  <2>1. sync.pc = "move"
      BY <1>2 DEF WriteOff
  <2>2. quote[t].inputs \subseteq sync.spent
      BY <1>2, <2>1 DEF Scar, ScarSync
  <2> QED
      BY <1>2, <2>2 DEF Writing
<1>3. ASSUME NEW w \in Worker, SettleVisit(w), r \in visit[w].pending PROVE Writing(p)
  <2>1. visit[w].pc = "settle" /\ visit[w].mode # "recover"
      BY <1>3 DEF SettleVisit, VisitTrue
  <2>2. LockedBy(r, visit[w].tx) \/ Gone(r)
      BY <1>3, <2>1 DEF Scar, ScarVisit
  <2>3. visit[w].tx = t
      BY <1>h, <2>2 DEF LockedBy, Gone
  <2>4. p \in visit[w].pending \/ Gone(p)
      BY <2>1, <2>3 DEF Scar, ScarVisit
  <2>5. ~Gone(p)
      BY <1>h DEF LockedBy, Gone
  <2> QED
      BY <1>3, <2>4, <2>5 DEF Writing
<1> QED
    BY <1>1, <1>2, <1>3 DEF Writing

\* What becomes locked.
LEMMA LockedFrom ==
    ASSUME NEW T, NEW X, Always, Scar(T, X), Lives, NEW p \in Proof, NEW t, disk'[p] = Held("PENDING", t)
    PROVE  \/ LockedBy(p, t) /\ disk'[p] = disk[p]
           \/ job.tx = t /\ (Select \/ Lock \/ CommitSwap) /\ p \in job'.inputs
           \/ /\ Register /\ sync.from = "UNSPENT" /\ p \in sync.pend /\ disk[p].state = "UNSPENT" /\ disk[p].tx = t
              /\ p \in X /\ ~Pursued(T)
<1>h. \A s, u : Held(s, u).state = s /\ Held(s, u).tx = u
    BY RecIs
<1>1. disk[p].state \in {"PENDING", "SPENT", "UNSPENT", "none"}
    BY RecIs DEF Always, AInv, StoreTrue, ProofState
<1>2. CASE disk[p].state = "PENDING"
  <2>1. GivingBack /\ p \in job.inputs /\ job.pc \in WithRow => disk'[p].state = "UNSPENT"
    <3>1. GivingBack /\ p \in job.inputs => disk'[p] = job.row.locked[p]
        BY Effects DEF Sure
    <3>2. job.pc \in WithRow /\ p \in job.inputs => job.row.locked[p] \in [state : {"UNSPENT"}, tx : Tx]
        BY DEF Always, AInv, StoreTrue
    <3> QED
        BY <3>1, <3>2
  <2> QED
      BY <1>h, <1>2, <2>1, Turns DEF LockedBy
<1>3. CASE disk[p].state = "SPENT"
    BY <1>h, <1>3, Turns
<1>4. CASE disk[p].state = "UNSPENT"
  <2>1. Register /\ sync.from = "UNSPENT" /\ p \in sync.pend => p \in X /\ ~Pursued(T)
    <3>1. Register => sync.pc = "settle"
        BY DEF Register
    <3> QED
        BY <3>1 DEF Scar, ScarSync, Seen
  <2>2. \/ disk'[p].state = "UNSPENT"
        \/ Writing(p) /\ disk'[p] = Held("SPENT", disk[p].tx)
        \/ (Select \/ Lock) /\ p \in job'.inputs /\ disk'[p] = Held("PENDING", job.tx)
        \/ Register /\ sync.from = "UNSPENT" /\ p \in sync.pend /\ disk'[p] = Held("PENDING", disk[p].tx)
      BY <1>4, Turns
  <2> HIDE DEF Register, Select, Lock
  <2> QED
      BY <1>h, <1>4, <2>1, <2>2
<1>5. CASE disk[p].state = "none"
  <2>1. CommitSwap => job'.inputs = {<<job.tx, "swap">>}
      BY DEF CommitSwap, Always, IInv, Shapes
  <2>2. \/ disk'[p] = Absent \/ disk'[p].state = "UNSPENT"
        \/ CommitSwap /\ p = <<job.tx, "swap">> /\ disk'[p] = Held("PENDING", job.tx)
      BY <1>5, Turns
  <2> QED
      BY <1>h, <2>1, <2>2, RecIs
<1> QED
    BY <1>1, <1>2, <1>3, <1>4, <1>5

\* The inputs of a payment that stands, but for the mishap's, stay its own.
LEMMA OwnStays ==
    ASSUME NEW T, NEW X, Always, Scar(T, X), Lives, NEW t \in Transfer, t # T, Standing(t), NEW p \in quote[t].inputs
    PROVE  disk'[p].tx = t /\ disk'[p].state \in {"PENDING", "SPENT"}
<1>h. \A s, u : Held(s, u).state = s /\ Held(s, u).tx = u
    BY RecIs
<1>1. p \in Proof /\ disk[p].tx = t /\ disk[p].state \in {"PENDING", "SPENT"}
    BY DEF Scar, ScarQuote, Sound, Always, AInv, MintTrue
<1>2. CASE disk[p].state = "SPENT"
    BY <1>1, <1>2, GoneStays DEF Gone
<1>3. CASE disk[p].state = "PENDING"
  <2>1. LockedBy(p, t)
      BY <1>1, <1>3, RecIs DEF LockedBy, Always, AInv, StoreTrue
  <2> QED
      BY <1>h, <1>1, <2>1, StandsHeld
<1> QED
    BY <1>1, <1>2, <1>3

\* A gentle step keeps who has the ecash of each melt.
LEMMA ScarQuoteKept ==
    ASSUME NEW T, NEW X, Always, Scar(T, X), Lives, NEW t \in Transfer
    PROVE  ScarQuote(t, T)'
<1> USE DEF Always, AInv
<1>h. \A s, u : Held(s, u).state = s /\ Held(s, u).tx = u
    BY RecIs
<1>q. quote[t].inputs \in SUBSET Proof
    BY DEF MintTrue
<1>d. Standing(t) => Taken(t) /\ quote'[t].inputs = quote[t].inputs
    BY MintFacts DEF MintTrue
<1>a. ASSUME ~Standing(t), quote'[t].state # "UNPAID"
      PROVE  /\ UNCHANGED disk
             /\ \/ quote'[t].inputs = X /\ t = T /\ Requested(T)
                \/ \A p \in quote'[t].inputs : LockedBy(p, t)
  <2>1. quote'[t].inputs # {}
      BY <1>a, AllStep DEF MintTrue, Standing, Taken, Next, Lives
  <2>2. ~Taken(t)
      BY <1>a, MintFacts DEF Standing
  <2>3. PICK q \in net : q.tx = t /\ TakeMelt(q) /\ quote'[t].inputs = q.inputs
      BY <2>1, <2>2, MintStands
  <2>4. /\ UNCHANGED disk /\ Requested(t)
        /\ \/ job.pc = "wait" /\ job.answer = "none" /\ q.tx = job.tx /\ q.inputs = job.inputs
           \/ q.tx = T /\ q.inputs = X
      BY <2>3, TakenIs
  <2>5. job.pc = "wait" => \A p \in job.inputs : LockedBy(p, job.tx)
      BY DEF Scar, ScarLock, WithRow, Holding
  <2> QED
      BY <2>3, <2>4, <2>5
<1>1. ASSUME t # T, quote'[t].state # "UNPAID", NEW p \in quote'[t].inputs
      PROVE  disk'[p].tx = t /\ disk'[p].state \in {"PENDING", "SPENT"}
  <2>1. CASE Standing(t)
      BY <1>1, <1>d, <2>1, OwnStays
  <2>2. CASE ~Standing(t)
      BY <1>h, <1>1, <1>a, <2>2 DEF LockedBy
  <2> QED
      BY <2>1, <2>2
<1>2. ASSUME quote'[t].state # "UNPAID", NEW p \in quote'[t].inputs, NEW r \in quote'[t].inputs, disk'[p] = Held("PENDING", t)
      PROVE  disk'[r] = Held("PENDING", t)
  <2>1. CASE ~Standing(t)
    <3>1. UNCHANGED disk /\ LockedBy(p, t)
        BY <1>2, <1>a, <2>1 DEF LockedBy
    <3>2. CASE \A s \in quote'[t].inputs : LockedBy(s, t)
        BY <3>1, <3>2 DEF LockedBy
    <3>3. CASE quote'[t].inputs = X /\ t = T /\ Requested(T)
      <4>1. disk[p].tx = T /\ disk[p].state # "UNSPENT" /\ Threat(T)
          BY <1>h, <3>1, <3>3 DEF LockedBy, Threat, Pursued
      <4>2. disk[r] = disk[p]
          BY <1>2, <3>3, <4>1 DEF Scar, ScarWhole
      <4> QED
          BY <3>1, <4>2 DEF LockedBy
    <3> QED
        BY <1>2, <1>a, <2>1, <3>2, <3>3
  <2>2. CASE Standing(t)
    <3>0. p \in quote[t].inputs /\ r \in quote[t].inputs /\ p \in Proof /\ Taken(t)
        BY <1>2, <1>d, <1>q, <2>2
    <3>1. ASSUME LockedBy(p, t), disk'[p] = disk[p] PROVE disk'[r] = Held("PENDING", t)
      <4>1. LockedBy(r, t)
          BY <2>2, <3>0, <3>1 DEF Scar, ScarQuote
      <4>2. ~Writing(r)
        <5>1. ~Writing(p)
            BY <1>h, <3>0, <3>1, Effects DEF Sure, LockedBy
        <5> QED
            BY <2>2, <3>0, <3>1, <4>1, <5>1, WrittenTogether
      <4>3. ~(GivingBack /\ job.tx = t /\ t = T /\ job.inputs = X)
        <5> SUFFICES ASSUME GivingBack, job.tx = t, t = T, job.inputs = X PROVE FALSE
            OBVIOUS
        <5>1. p \in job.inputs
            BY <3>0 DEF Scar, ScarTyped
        <5>2. disk'[p] = job.row.locked[p] /\ job.pc \in WithRow
            BY <3>0, <5>1, Effects DEF Sure, GivingBack, SwapFails, SettleUnpaid, JudgeUnpaid, WithRow, Holding
        <5>3. disk'[p].state = "UNSPENT"
            BY <5>1, <5>2 DEF StoreTrue
        <5> QED
            BY <1>h, <1>2, <5>3
      <4> QED
          BY <2>2, <3>0, <4>1, <4>2, <4>3, StandsHeld DEF LockedBy
    <3>2. ASSUME job.tx = t, Select \/ Lock \/ CommitSwap PROVE FALSE
        BY <3>0, <3>2 DEF Select, Lock, CommitSwap, RequestsTrue, Asking
    <3>3. ASSUME disk[p].state = "UNSPENT", disk[p].tx = t, p \in X PROVE r = p
      <4>1. t = T
          BY <2>2, <3>0, <3>3 DEF Scar, ScarQuote, Sound
      <4>2. quote[t].inputs = X /\ Threat(T)
          BY <2>2, <3>0, <4>1 DEF Scar, ScarTyped, Threat
      <4>3. Alone(T, X)
          BY <3>3, <4>1, <4>2 DEF Scar, ScarWhole
      <4> QED
          BY <3>0, <4>2, <4>3 DEF Alone
    <3> QED
        BY <1>2, <3>0, <3>1, <3>2, <3>3, LockedFrom
  <2> QED
      BY <2>1, <2>2
<1> QED
    BY <1>1, <1>2 DEF ScarQuote, Sound, Standing, LockedBy, Held

\* The ecash of the mishap is written off together.
LEMMA WholeWritten ==
    ASSUME NEW T, NEW X, Always, Scar(T, X), Gentle(T, X), Threat(T),
           NEW a \in X, NEW b \in X, \A c \in X : LockedBy(c, T), Writing(a)
    PROVE  Writing(b)
<1> USE DEF Always, AInv
<1>h. \A s, u : Held(s, u).state = s /\ Held(s, u).tx = u
    BY RecIs
<1>1. ASSUME CommitSwap \/ SettlePaid \/ JudgePaid, a \in job.inputs PROVE Writing(b)
  <2>1. job.pc \in {"swap", "settle", "judge"} /\ (CommitSwap => job.pc = "swap")
      BY <1>1 DEF CommitSwap, SettlePaid, JudgePaid
  <2>2. LockedBy(a, job.tx)
      BY <1>1, <2>1 DEF Scar, ScarLock, WithRow, Holding
  <2>3. job.tx = T
      BY <1>h, <2>2 DEF LockedBy
  <2>4. job.inputs = X
      BY <2>1, <2>3 DEF Scar, ScarTask, Holding
  <2>5. ~CommitSwap
      BY <2>1, <2>3 DEF Gentle
  <2> QED
      BY <1>1, <2>4, <2>5 DEF Writing
<1>2. ASSUME WriteOff, a \in sync.spent PROVE Writing(b)
  <2>1. sync.pc = "move"
      BY <1>2 DEF WriteOff
  <2>2. X \subseteq sync.spent
      BY <1>2, <2>1 DEF Scar, ScarSync
  <2> QED
      BY <1>2, <2>2 DEF Writing
<1>3. ASSUME NEW w \in Worker, SettleVisit(w), a \in visit[w].pending PROVE Writing(b)
  <2>1. visit[w].pc = "settle" /\ visit[w].mode # "recover"
      BY <1>3 DEF SettleVisit, VisitTrue
  <2>2. LockedBy(a, visit[w].tx) \/ Gone(a)
      BY <1>3, <2>1 DEF Scar, ScarVisit
  <2>3. visit[w].tx = T
      BY <1>h, <2>2 DEF LockedBy, Gone
  <2>4. ~Pursued(T)
      BY <2>1, <2>3 DEF Scar, ScarVisit, Settled, Working
  <2>5. T \in Transfer /\ quote[T].inputs = X
      BY <2>4 DEF Threat, MintTrue, Scar, ScarTyped
  <2>6. b \in visit[w].pending \/ Gone(b)
      BY <2>1, <2>3, <2>5 DEF Scar, ScarVisit
  <2>7. ~Gone(b)
      BY <1>h DEF LockedBy, Gone
  <2> QED
      BY <1>3, <2>6, <2>7 DEF Writing
<1> QED
    BY <1>1, <1>2, <1>3 DEF Writing

\* What may come of it while it is locked.
LEMMA WholeTurns ==
    ASSUME NEW T, NEW X, Always, Scar(T, X), Gentle(T, X), Threat(T), ~Alone(T, X),
           NEW a \in X, \A c \in X : LockedBy(c, T)
    PROVE  \/ disk'[a] = disk[a]
           \/ Writing(a) /\ disk'[a] = Held("SPENT", T)
           \/ GivingBack /\ job.inputs = X /\ \A c \in X : disk'[c].tx # T
<1> USE DEF Always, AInv
<1>h. \A s, u : Held(s, u).state = s /\ Held(s, u).tx = u
    BY RecIs
<1>1. a \in Proof /\ X \subseteq Proof /\ disk[a].state = "PENDING" /\ disk[a].tx = T /\ Lives
    BY <1>h DEF LockedBy, Scar, ScarTyped, Gentle
<1>2. \A u : SettleShort(u) => a \notin Unseen
    BY ShortIs DEF Dirty
<1>3. ASSUME NEW w \in Worker, ReleaseFailed(w), LockedBy(a, visit[w].tx) PROVE FALSE
    BY <1>h, <1>1, <1>3, ReleasedIs DEF LockedBy, Threat, Settled
<1>4. ASSUME GivingBack, LockedBy(a, job.tx), job.pc \in WithRow
      PROVE  job.inputs = X /\ \A c \in X : disk'[c].tx # T
  <2>1. job.tx = T
      BY <1>h, <1>4 DEF LockedBy
  <2>2. job.inputs = X
      BY <1>4, <2>1 DEF Scar, ScarTask, WithRow
  <2>3. \A c \in X : disk'[c] = job.row.locked[c]
      BY <1>1, <1>4, <2>2, Effects DEF Sure
  <2>4. \A c \in X : job.row.locked[c].tx # T
      BY <1>4, <2>1, <2>2 DEF Scar, ScarLock
  <2> QED
      BY <2>2, <2>3, <2>4
<1> QED
    BY <1>1, <1>2, <1>3, <1>4, Turns

\* A gentle step keeps the ecash of the lost call whole.
LEMMA ScarWholeKept ==
    ASSUME NEW T, NEW X, Always, Scar(T, X), Gentle(T, X)
    PROVE  ScarWhole(T, X)'
<1> USE DEF Always, AInv
<1>h. \A s, u : Held(s, u).state = s /\ Held(s, u).tx = u
    BY RecIs
<1> SUFFICES ASSUME Threat(T)', ~Alone(T, X), NEW p \in X, NEW r \in X, disk'[p].tx = T
             PROVE  disk'[p].state # "UNSPENT" /\ disk'[r] = disk'[p]
    BY DEF ScarWhole, Alone
<1>0. X \subseteq Proof /\ Lives /\ T \in Transfer /\ Threat(T)
    BY ThreatStays DEF Scar, ScarTyped, Gentle, Threat
<1>1. CASE disk[p].tx = T
  <2>1. \A b \in X : disk[b] = disk[p] /\ disk[p].state # "UNSPENT"
      BY <1>0, <1>1 DEF Scar, ScarWhole
  <2>2. disk[p].state \in {"PENDING", "SPENT"} /\ disk[p] = Held(disk[p].state, T)
      BY <1>0, <1>1, <2>1, RecIs, NoTxAssumption, TransferAssumptions DEF StoreTrue, ProofState
  <2>3. CASE disk[p].state = "SPENT"
    <3>1. Gone(p) /\ Gone(r) /\ p \in Proof /\ r \in Proof
        BY <1>0, <2>1, <2>3 DEF Gone
    <3>2. disk'[p] = disk[p] /\ disk'[r] = disk[r]
        BY <1>0, <3>1, GoneStays
    <3> QED
        BY <2>1, <2>3, <3>2
  <2>4. CASE disk[p].state = "PENDING"
    <3>1. \A c \in X : LockedBy(c, T)
        BY <2>1, <2>2, <2>4 DEF LockedBy
    <3>2. ~(GivingBack /\ job.inputs = X /\ \A c \in X : disk'[c].tx # T)
        OBVIOUS
    <3>3. disk'[p] = disk[p] \/ (Writing(p) /\ disk'[p] = Held("SPENT", T))
        BY <1>0, <3>1, <3>2, WholeTurns
    <3>4. disk'[r] = disk[r] \/ (Writing(r) /\ disk'[r] = Held("SPENT", T))
        BY <1>0, <3>1, <3>2, WholeTurns
    <3>5. Writing(p) <=> Writing(r)
        BY <1>0, <3>1, WholeWritten
    <3>6. (Writing(p) => disk'[p].state = "SPENT") /\ (Writing(r) => disk'[r].state = "SPENT")
        BY <1>0, Effects DEF Sure
    <3> QED
        BY <1>h, <2>1, <2>4, <3>3, <3>4, <3>5, <3>6
  <2> QED
      BY <2>2, <2>3, <2>4
<1>2. CASE disk[p].tx # T
  <2>0. Effect(p) /\ Sure(p) /\ Sure(r) /\ p \in Proof
      BY <1>0, Effects
  <2>1. ASSUME Select, disk'[p] = Held("PENDING", job.tx) PROVE FALSE
    <3>1. job.pc = "select" /\ job.tx = T
        BY <1>h, <2>1 DEF Select
    <3> QED
        BY <3>1 DEF Scar, ScarTask
  <2>2. ASSUME Lock, disk'[p] = Held("PENDING", job.tx)
        PROVE  disk'[p].state # "UNSPENT" /\ disk'[r] = disk'[p]
    <3>1. job.pc = "lock" /\ job.tx = T /\ job'.inputs = job.inputs
        BY <1>h, <2>2 DEF Lock, IInv, Shapes
    <3>2. job.inputs = X
        BY <3>1 DEF Scar, ScarTask, Holding
    <3>3. disk'[r] = Held("PENDING", T)
        BY <2>0, <2>2, <3>1, <3>2 DEF Sure
    <3> QED
        BY <1>h, <2>2, <3>1, <3>3
  <2>3. ASSUME GivingBack, p \in job.inputs, disk'[p] = job.row.locked[p] PROVE FALSE
    <3>1. job.pc \in WithRow
        BY <2>3 DEF GivingBack, SwapFails, SettleUnpaid, JudgeUnpaid, WithRow, Holding
    <3> QED
        BY <1>0, <2>3, <3>1 DEF Scar, ScarLock
  <2>4. ASSUME CommitSwap, disk'[p] \in {Held("PENDING", job.tx), Held("UNSPENT", job.tx)} PROVE FALSE
    <3>1. job.pc = "swap" /\ job.tx = T
        BY <1>h, <2>4 DEF CommitSwap
    <3> QED
        BY <2>4, <3>1 DEF Gentle
  <2>5. ASSUME SettlePaid \/ SettlePending, p \in job.change, disk'[p] = Held("UNSPENT", job.tx) PROVE FALSE
    <3>1. job.pc # "idle" /\ job.tx = T
        BY <1>h, <2>5 DEF SettlePaid, SettlePending
    <3> QED
        BY <1>0, <2>5, <3>1 DEF ChangeTrue, Scar, ScarTyped
  <2>6. ASSUME NEW w \in Worker, SettleVisit(w), p \in visit[w].change, disk'[p] = Held("UNSPENT", visit[w].tx) PROVE FALSE
    <3>1. visit[w].pc # "none" /\ visit[w].tx = T
        BY <1>h, <2>6 DEF SettleVisit
    <3> QED
        BY <1>0, <2>6, <3>1 DEF ChangeTrue, Scar, ScarTyped
  <2>7. ASSUME NEW w \in Worker, LockedBy(p, visit[w].tx), disk'[p] = Held("UNSPENT", visit[w].tx) PROVE FALSE
      BY <1>h, <1>2, <2>7 DEF LockedBy
  <2>8. \A s : disk'[p] # Held(s, disk[p].tx)
      BY <1>h, <1>2
  <2> QED
      BY <1>2, <2>0, <2>1, <2>2, <2>3, <2>4, <2>5, <2>6, <2>7, <2>8 DEF Effect
<1> QED
    BY <1>1, <1>2

\* While the task holds a row its inputs stay locked.
LEMMA HeldStays ==
    ASSUME NEW T, NEW X, Always, Scar(T, X), Lives, job.pc \in WithRow, job'.pc \in WithRow, NEW p \in job.inputs
    PROVE  disk'[p] = disk[p]
<1> USE DEF Always, AInv
<1>h. \A s, u : Held(s, u).state = s /\ Held(s, u).tx = u
    BY RecIs
<1>1. p \in Proof /\ LockedBy(p, job.tx) /\ disk[p].state = "PENDING"
    BY <1>h DEF TaskTrue, Scar, ScarLock, LockedBy
<1>2. sync.pc = "idle" /\ Pursued(job.tx)
    BY DEF SyncTrue, Pursued, WithRow, Holding
<1>3. \A w \in Worker : SettleVisit(w) => p \notin visit[w].pending
  <2> SUFFICES ASSUME NEW w \in Worker, SettleVisit(w), p \in visit[w].pending PROVE FALSE
      OBVIOUS
  <2>1. visit[w].pc = "settle" /\ visit[w].mode # "recover"
      BY DEF SettleVisit, VisitTrue
  <2>2. visit[w].tx = job.tx
      BY <1>h, <1>1, <2>1 DEF Scar, ScarVisit, LockedBy, Gone
  <2> QED
      BY <1>2, <2>1, <2>2 DEF Scar, ScarVisit, Settled, Working
<1>4. \A w \in Worker : ReleaseFailed(w) => ~LockedBy(p, visit[w].tx)
    BY <1>h, <1>1, <1>2, ReleasedIs DEF LockedBy, Settled
<1>5. ~CommitSwap /\ ~SettlePaid /\ ~JudgePaid /\ ~GivingBack
  <2>1. job'.pc \notin {"lock", "idle", "rescue", "fail", "nested", "nestedtwice"}
      BY DEF WithRow, Holding
  <2>2. (CommitSwap => job'.pc = "lock") /\ (SwapFails => job'.pc = "lock")
      BY DEF CommitSwap, SwapFails, IInv, Shapes
  <2>3. SettlePaid => job'.pc = "idle"
      BY IdleIs DEF SettlePaid
  <2>4. (JudgePaid => job'.pc = "rescue") /\ (SettleUnpaid => job'.pc = "fail")
      BY DEF JudgePaid, SettleUnpaid, IInv, Shapes
  <2>5. JudgeUnpaid => job'.pc \in {"fail", "nested", "nestedtwice"}
      BY DEF JudgeUnpaid, IInv, Shapes
  <2> QED
      BY <2>1, <2>2, <2>3, <2>4, <2>5 DEF GivingBack
<1>6. ~WriteOff /\ \A t \in Tx : ~SettleShort(t)
    BY <1>2 DEF WriteOff, SettleShort
<1> QED
    BY <1>1, <1>3, <1>4, <1>5, <1>6, Turns DEF Writing

\* Change that may still come for the task is not used by anyone.
LEMMA BlanksWait ==
    ASSUME NEW T, NEW X, Always, Scar(T, X), Lives, job'.pc \in Holding, NEW p \in Blanks(job'.tx)
    PROVE  disk'[p].state \in {"none", "UNSPENT"}
<1> USE DEF Always, AInv
<1>h. \A s, u : Held(s, u).state = s /\ Held(s, u).tx = u
    BY RecIs
<1>0. /\ job'.tx = job.tx /\ job.tx \in Transfer
      /\ \/ job.pc \in {"select", "swap"} /\ (Select \/ CommitSwap)
         \/ job.pc \in Holding /\ job'.inputs = job.inputs
    BY JobHolds DEF Select, CommitSwap, IInv, Shapes, JobKnows, Holding
<1>1. p \in Proof /\ p # <<job.tx, "swap">>
  <2>1. p \in Blanks(job.tx) /\ job.tx \in Transfer
      BY <1>0 DEF Blanks
  <2>2. p \in Proof
      BY <2>1, BlanksAreProofs
  <2> QED
      BY <2>1, <2>2 DEF Blanks
<1>2. disk[p].state \in {"none", "UNSPENT"}
  <2>1. CASE job.pc \in {"select", "swap"}
    <3>1. ~Taken(job.tx)
        BY <2>1 DEF RequestsTrue, Asking
    <3> QED
        BY <1>0, <3>1, RecIs DEF ChangeTrue
  <2> QED
      BY <1>0, <2>1 DEF Scar, ScarLock
<1>3. CASE disk[p].state = "none"
    BY <1>1, <1>3, Turns, RecIs
<1>4. CASE disk[p].state = "UNSPENT"
  <2>1. job.pc \in Holding /\ job'.inputs = job.inputs /\ ~Select
    <3>1. job.pc # "select"
      <4>1. job.pc = "select" => disk[p] = Absent
          BY <1>0 DEF RequestsTrue, Asking, ChangeTrue
      <4> QED
          BY <1>4, <4>1, RecIs
    <3>2. CASE CommitSwap
      <4>1. disk[p] = Absent
          BY <1>0, <3>2 DEF CommitSwap, RequestsTrue, Asking, ChangeTrue
      <4> QED
          BY <1>4, <4>1, RecIs
    <3> QED
        BY <1>0, <3>1, <3>2 DEF Select
  <2>2. sync.pc = "idle"
      BY <2>1 DEF SyncTrue, Holding
  <2>3. p \notin job.inputs
      BY <1>0, <2>1 DEF OutputsTrue
  <2>4. \A w \in Worker : SettleVisit(w) => p \notin visit[w].pending
    <3> SUFFICES ASSUME NEW w \in Worker, SettleVisit(w), p \in visit[w].pending PROVE FALSE
        OBVIOUS
    <3>1. visit[w].pc = "settle" /\ visit[w].mode # "recover"
        BY DEF SettleVisit, VisitTrue
    <3> QED
        BY <1>h, <1>4, <3>1 DEF Scar, ScarVisit, LockedBy, Gone
  <2>5. ~WriteOff /\ ~Register
      BY <2>2 DEF WriteOff, Register
  <2> QED
      BY <1>1, <1>4, <2>1, <2>3, <2>4, <2>5, Turns DEF Writing
<1> QED
    BY <1>2, <1>3, <1>4

\* A gentle step keeps what the running task has locked.
LEMMA ScarLockKept ==
    ASSUME NEW T, NEW X, Always, Scar(T, X), Gentle(T, X)
    PROVE  ScarLock(T, X)'
<1> USE DEF Always, AInv
<1>h. \A s, u : Held(s, u).state = s /\ Held(s, u).tx = u
    BY RecIs
<1>0. X \subseteq Proof /\ Lives /\ job.inputs \subseteq Proof
    BY DEF Scar, ScarTyped, Gentle, TaskTrue
<1>s. ASSUME Select PROVE job'.tx = job.tx /\ job'.inputs \subseteq Spendable /\ \A p \in job'.inputs : job'.row.locked[p] = Held("UNSPENT", mem[p].tx)
  <2>1. PICK S \in SUBSET Spendable, op \in {"transfer-swap", "transfer-melt"} :
            /\ Reserve(job.tx, op, S, "UNSPENT")
            /\ job'.inputs = S /\ job'.tx = job.tx /\ job'.row = RowFor(job.tx, op, S, "UNSPENT")
      BY <1>s, SelectIs
  <2>2. Kinded /\ S \subseteq Live
      BY <2>1, StoreParts DEF Reserve
  <2> QED
      BY <2>1, <2>2, RowForIs
<1>l. ASSUME Lock PROVE job.pc = "lock" /\ job'.tx = job.tx /\ job'.inputs = job.inputs /\ \A p \in job'.inputs : mem[p] # Absent /\ job'.row.locked[p] = Held("UNSPENT", mem[p].tx)
  <2>1. /\ Reserve(job.tx, "transfer-melt", job.inputs, "UNSPENT")
        /\ job.pc = "lock" /\ job'.inputs = job.inputs /\ job'.tx = job.tx /\ job'.row = RowFor(job.tx, "transfer-melt", job.inputs, "UNSPENT")
      BY <1>l DEF Lock, IInv, Shapes
  <2>2. Kinded /\ job.inputs \subseteq Live
      BY <2>1, StoreParts DEF Reserve
  <2> QED
      BY <2>1, <2>2, RowForIs DEF Live
<1>m. job.pc \in {"select", "lock"} => \A p \in Proof : mem[p] # Absent => mem[p] = disk[p]
    BY DEF Scar, ScarTyped, TaskTrue, IdleJob
<1>1. ASSUME job'.pc \in WithRow, NEW p \in job'.inputs PROVE disk'[p] = Held("PENDING", job'.tx)
  <2>1. CASE Select \/ Lock
    <3>1. job'.tx = job.tx /\ p \in Proof
        BY <1>0, <1>1, <2>1, <1>s, <1>l DEF Spendable, Having
    <3> QED
        BY <1>0, <1>1, <2>1, <3>1, Effects DEF Sure
  <2>2. CASE ~Select /\ ~Lock
    <3>1. job.pc \in WithRow /\ job'.inputs = job.inputs /\ job'.tx = job.tx
        BY <1>0, <1>1, <2>2, RowHeld
    <3> QED
        BY <1>0, <1>1, <3>1, HeldStays DEF Scar, ScarLock, LockedBy
  <2> QED
      BY <2>1, <2>2
<1>2. ASSUME job'.pc \in WithRow, NEW p \in job'.inputs \cap X, Threat(T)', job'.row.locked[p].tx = T PROVE Alone(T, X)
  <2>0. Threat(T) /\ p \in Proof
      BY <1>0, <1>2, ThreatStays
  <2>1. CASE Select
    <3>1. mem[p].state = "UNSPENT" /\ mem[p].tx = T /\ job.pc = "select"
      <4>1. p \in job'.inputs
          BY <1>2
      <4>2. p \in Spendable /\ job'.row.locked[p] = Held("UNSPENT", mem[p].tx)
          BY <1>s, <2>1, <4>1
      <4>3. mem[p].tx = T
          BY <1>h, <1>2, <4>2
      <4> QED
          BY <2>1, <4>2, <4>3 DEF Spendable, Having, Select
    <3>2. disk[p].state = "UNSPENT" /\ disk[p].tx = T
        BY <1>m, <2>0, <3>1, RecIs
    <3> QED
        BY <1>2, <2>0, <3>2 DEF Scar, ScarWhole
  <2>2. CASE Lock
    <3>1. mem[p] # Absent /\ mem[p].tx = T /\ job.pc = "lock" /\ p \in job.inputs
        BY <1>h, <1>2, <1>l, <2>2
    <3>2. disk[p].tx = T
        BY <1>m, <2>0, <3>1
    <3>3. disk[p].state = "UNSPENT" \/ (LockedBy(p, job.tx) /\ Alone(job.tx, job.inputs))
        BY <3>1 DEF Scar, ScarLock
    <3>4. CASE disk[p].state = "UNSPENT"
        BY <1>2, <2>0, <3>2, <3>4 DEF Scar, ScarWhole
    <3>5. CASE LockedBy(p, job.tx) /\ Alone(job.tx, job.inputs)
      <4>1. job.tx = T
          BY <1>h, <3>2, <3>5 DEF LockedBy
      <4>2. job.inputs = X
          BY <3>1, <4>1 DEF Scar, ScarTask, Holding
      <4> QED
          BY <3>5, <4>1, <4>2
    <3> QED
        BY <3>3, <3>4, <3>5
  <2>3. CASE ~Select /\ ~Lock
    <3>1. job.pc \in WithRow /\ job'.inputs = job.inputs /\ job'.row = job.row
        BY <1>0, <1>2, <2>3, RowHeld
    <3> QED
        BY <1>2, <2>0, <3>1 DEF Scar, ScarLock
  <2> QED
      BY <2>1, <2>2, <2>3
<1>3. ASSUME job'.pc = "lock", NEW p \in job'.inputs
      PROVE  disk'[p].state = "UNSPENT" \/ (disk'[p] = Held("PENDING", job'.tx) /\ Alone(job'.tx, job'.inputs))
  <2>1. CASE CommitSwap
    <3>1. job'.tx = job.tx /\ job'.inputs = {<<job.tx, "swap">>} /\ job.tx \in Transfer
        BY <2>1 DEF CommitSwap, IInv, Shapes, JobKnows
    <3>2. p = <<job.tx, "swap">> /\ p \in Proof
        BY <1>3, <3>1, TransferAssumptions DEF Role
    <3> QED
        BY <1>0, <2>1, <3>1, <3>2, Effects DEF Sure, Alone
  <2>2. CASE job.pc = "lock" /\ UNCHANGED job
    <3>1. JobRuns
        BY <1>0, <2>2, TaskIsAlone DEF JobHot
    <3>2. Lock
        BY <2>2, <3>1 DEF JobRuns, Prepared, Execute, SettlePaid, SettlePending, SettleUnpaid, Fail, Rescued, OnchainChecked
    <3> QED
        BY <1>3, <3>2 DEF Lock, IInv, Shapes
  <2>3. CASE SwapFails /\ job'.inputs = job.inputs
    <3>1. job.pc = "swap" /\ GivingBack /\ p \in job.inputs /\ p \in Proof
        BY <1>0, <1>3, <2>3 DEF SwapFails, GivingBack
    <3>2. disk'[p] = job.row.locked[p]
        BY <1>0, <3>1, Effects DEF Sure
    <3> QED
        BY <3>1, <3>2 DEF StoreTrue, WithRow, Holding
  <2> QED
      BY <1>0, <1>3, <2>1, <2>2, <2>3, LockCameFrom
<1>4. job'.pc \in Holding => \A p \in Blanks(job'.tx) : disk'[p].state \in {"none", "UNSPENT"}
    BY <1>0, BlanksWait
<1> QED
    BY <1>1, <1>2, <1>3, <1>4 DEF ScarLock, LockedBy, Blanks, Held, WithRow, Holding

\* What the task holds it goes on holding, or it is settled.
LEMMA OwnEnds ==
    ASSUME NEW T, NEW X, Always, Scar(T, X), Gentle(T, X), NEW p \in Proof, Own(p), ~Own(p)',
           disk'[p] = disk[p]
    PROVE  \/ p \in X
           \/ SettlePending
           \/ JudgeUnpaid /\ job.answer \in {"spent", "taken"}
<1> USE DEF Always, AInv
<1>0. Lives /\ job.pc \in Holding /\ p \in job.inputs /\ ~(job'.pc \in Holding /\ p \in job'.inputs)
    BY DEF Gentle, Own, Holding
<1>1. ~UNCHANGED job
    BY <1>0
<1>t. job.tx = T => p \in X
    BY <1>0 DEF Scar, ScarTask
<1>e. Sure(p)
    BY <1>0, Effects
<1>w. job.pc \in WithRow => disk[p].state = "PENDING"
    BY <1>0, RecIs DEF Scar, ScarLock, LockedBy
<1>2. ASSUME CommitSwap \/ SettlePaid \/ JudgePaid PROVE FALSE
  <2>1. job.pc \in WithRow
      BY <1>2 DEF CommitSwap, SettlePaid, JudgePaid, WithRow, Holding
  <2> QED
      BY <1>0, <1>2, <1>e, <1>w, <2>1 DEF Sure, Writing
<1>3. ASSUME SettleUnpaid \/ (JudgeUnpaid /\ job.answer \notin {"spent", "taken"}) PROVE FALSE
  <2>1. job.pc \in WithRow
      BY <1>3 DEF SettleUnpaid, JudgeUnpaid, WithRow, Holding
  <2>2. disk'[p] = job.row.locked[p]
      BY <1>0, <1>3, <1>e DEF Sure, GivingBack
  <2> QED
      BY <1>0, <1>w, <2>1, <2>2 DEF StoreTrue
<1>4. ASSUME SwapFails \/ MintSwaps \/ Lock \/ Prepared \/ Execute \/ Submit \/ TakeAnswer \/ TakeError \/ LoseAnswer \/ Recheck \/ AnswerMelt(job.tx)
      PROVE  FALSE
  <2>1. job'.inputs = job.inputs
      BY <1>4 DEF SwapFails, MintSwaps, Lock, Prepared, Execute, Submit, TakeAnswer, TakeError, LoseAnswer, Recheck, AnswerMelt, IInv, Shapes
  <2>2. job'.pc \in Holding
      BY <1>4 DEF SwapFails, MintSwaps, Lock, Prepared, Execute, Submit, TakeAnswer, TakeError, LoseAnswer, Recheck, AnswerMelt, IInv, Shapes, Holding
  <2> QED
      BY <1>0, <2>1, <2>2
<1>5. ASSUME NEW q \in net, RefuseMelt(q) PROVE FALSE
  <2>1. job'.inputs = job.inputs /\ job'.pc = job.pc
      BY <1>5 DEF RefuseMelt, Reply, IInv, Shapes
  <2> QED
      BY <1>0, <2>1
<1>6. ASSUME RecheckFails PROVE p \in X
    BY <1>0, <1>6, <1>t DEF Gentle, RecheckFails, Scar, ScarTask
<1>7. ASSUME JudgePending PROVE p \in X
  <2>1. job.pc = "judge" /\ job.answer = "lost"
      BY <1>7 DEF JudgePending, RequestsTrue, TaskTrue
  <2> QED
      BY <1>t, <2>1 DEF Scar, ScarTask
<1> HIDE DEF Always, AInv
<1>8. TaskTrue
    BY DEF Always, AInv
<1>9. job.pc \notin {"idle", "checking", "select", "rescue", "nested", "nestedtwice", "fail"}
    BY <1>0 DEF Holding
<1> QED
    BY <1>0, <1>1, <1>2, <1>3, <1>4, <1>5, <1>6, <1>7, <1>8, <1>9, JobAt

\* After a gentle step every proof that is live here and gone at the mint is accounted for.
LEMMA ScarProofKept ==
    ASSUME NEW T, NEW X, Always, Scar(T, X), Gentle(T, X), NEW p \in Proof
    PROVE  ScarProof(p, T, X)'
<1> USE DEF Always, AInv
<1>h. \A s, u : Held(s, u).state = s /\ Held(s, u).tx = u
    BY RecIs
<1>0. X \subseteq Proof /\ Lives /\ X = X' /\ (p \in X => T \in Transfer)
    BY DEF Scar, ScarTyped, Gentle
<1>e. Effect(p) /\ Sure(p)
    BY <1>0, Effects
<1> DEFINE Mine == /\ disk'[p].tx \in Transfer /\ disk'[p] = Held("PENDING", disk'[p].tx)
                   /\ p \in quote'[disk'[p].tx].inputs /\ quote'[disk'[p].tx].state # "UNPAID"
           Goal1 == Mine \/ Swapping(p)' \/ (p \in X /\ Cursed(T, X)')
<1>1. ASSUME disk'[p].state \in {"UNSPENT", "PENDING"}, AtMintNow(p)' PROVE Goal1
  <2>1. ASSUME MintSwaps, p \in job.inputs PROVE Goal1
      BY <2>1 DEF MintSwaps, Swapping, IInv, Shapes
  <2>2. ASSUME NEW q \in net, TakeMelt(q), p \in q.inputs, q.tx \in Transfer, quote'[q.tx].inputs = q.inputs, quote'[q.tx].state = "PENDING"
        PROVE  Goal1
    <3>1. /\ UNCHANGED disk
          /\ \/ job.pc = "wait" /\ job.answer = "none" /\ q.tx = job.tx /\ q.inputs = job.inputs
             \/ q.tx = T /\ q.inputs = X
        BY <2>2, TakenIs
    <3>2. CASE q.tx = T /\ q.inputs = X
        BY <2>2, <3>2 DEF Cursed, Standing
    <3>3. CASE job.pc = "wait" /\ q.tx = job.tx /\ q.inputs = job.inputs
      <4>1. disk[p] = Held("PENDING", q.tx)
          BY <2>2, <3>3 DEF Scar, ScarLock, LockedBy, WithRow, Holding
      <4>2. disk'[p] = Held("PENDING", q.tx) /\ disk'[p].tx = q.tx
          BY <1>h, <3>1, <4>1
      <4> QED
          BY <2>2, <4>2
    <3> QED
        BY <3>1, <3>2, <3>3
  <2>3. ASSUME AtMintNow(p) PROVE Goal1
    <3>1. disk[p] # Absent
        BY <2>3 DEF AtMintNow, OutputsTrue
    <3>2. disk[p].state # "SPENT"
        BY <1>0, <1>1, <2>3, GoneStays DEF Gone, AtMintNow
    <3>3. disk[p].state \in {"UNSPENT", "PENDING"}
        BY <3>1, <3>2 DEF StoreTrue, Rec, ProofState
    <3>4. CASE p \in X /\ Cursed(T, X)
        BY <1>1, <3>4, CursedStays
    <3>5. CASE Swapping(p)
      <4>1. job.pc = "swap" /\ job.answer = "swapped" /\ p \in job.inputs
          BY <3>5 DEF Swapping
      <4>2. CASE UNCHANGED job
          BY <4>1, <4>2 DEF Swapping
      <4>3. ~MintSwaps
          BY <4>1 DEF MintSwaps
      <4>4. ~CommitSwap
          BY <1>1, <1>e, <4>1 DEF Sure, Writing
      <4>5. CASE SwapFails
        <5>1. job.tx = T
            BY <4>1, <4>5 DEF Gentle
        <5>2. job.inputs = X /\ X \subseteq mintSpent /\ ~Taken(T) /\ ~Requested(T)
            BY <4>1, <5>1 DEF Scar, ScarTask, Holding, EnoughTrue, RequestsTrue, Asking
        <5>3. UNCHANGED <<quote, mintSpent, net>>
            BY <4>5 DEF SwapFails, mintVars
        <5>4. Cursed(T, X)'
            BY <1>0, <4>1, <5>2, <5>3 DEF Cursed, Late, Requested, Taken
        <5> QED
            BY <4>1, <5>2, <5>4
      <4> QED
          BY <1>0, <4>1, <4>2, <4>3, <4>4, <4>5, JobAt
    <3>6. ASSUME NEW t \in Transfer, disk[p].tx = t, LockedBy(p, t), p \in quote[t].inputs, Standing(t) PROVE Goal1
      <4>1. CASE disk'[p] = disk[p]
        <5>1. CASE quote'[t].state # "UNPAID"
          <6>1. quote'[t].inputs = quote[t].inputs
              BY <1>0, <3>6, MintStands
          <6>2. disk'[p].tx = t /\ disk'[p] = Held("PENDING", t)
              BY <1>h, <3>6, <4>1 DEF LockedBy
          <6> QED
              BY <3>6, <5>1, <6>1, <6>2
        <5>2. CASE quote'[t].state = "UNPAID"
          <6>1. quote[t].inputs \cap mintSpent = {} /\ UNCHANGED mintSpent /\ \A u \in Transfer : u # t => quote'[u] = quote[u]
              BY <1>0, <3>6, <5>2, MintStands
          <6>2. PICK u \in Transfer : quote'[u].state # "UNPAID" /\ p \in quote'[u].inputs
              BY <1>1, <3>6, <6>1 DEF AtMintNow, Standing
          <6>3. u # t /\ Standing(u) /\ p \in quote[u].inputs
              BY <5>2, <6>1, <6>2 DEF Standing
          <6> QED
              BY <3>6, <6>3 DEF MintTrue
        <5> QED
            BY <5>1, <5>2
      <4>2. CASE Writing(p) /\ disk'[p] = Held("SPENT", t)
          BY <1>h, <1>1, <4>2
      <4>3. CASE GivingBack /\ p \in job.inputs /\ t = T /\ job.inputs = X
        <5>1. UNCHANGED quote
            BY <4>3 DEF GivingBack, SwapFails, SettleUnpaid, JudgeUnpaid, mintVars
        <5> QED
            BY <3>6, <4>3, <5>1 DEF Cursed, Standing
      <4> QED
          BY <1>0, <3>6, <4>1, <4>2, <4>3, StandsHeld
    <3> HIDE DEF Goal1
    <3> QED
        BY <2>3, <3>3, <3>4, <3>5, <3>6 DEF Scar, ScarProof
  <2> HIDE DEF Goal1
  <2> QED
      BY <1>0, <1>1, <2>1, <2>2, <2>3, Arrives
<1>2. ASSUME NEW t \in Tx, disk'[p] = Held("PENDING", t), ~Own(p)', p \notin X
      PROVE  t \in Transfer /\ (p \in quote'[t].inputs \/ (quote'[t].inputs = {} /\ ~Pursued(t)'))
  <2>2. ~(job.tx = t /\ (Select \/ Lock \/ CommitSwap) /\ p \in job'.inputs)
    <3> SUFFICES ASSUME Select \/ Lock \/ CommitSwap PROVE job'.pc \in Holding
        BY <1>2 DEF Own, Holding
    <3>1. Select => job'.pc \in Holding
        BY SelectIs DEF Holding
    <3>2. Lock \/ CommitSwap => job'.pc \in Holding
        BY DEF Lock, CommitSwap, Holding, IInv, Shapes
    <3> QED
        BY <3>1, <3>2
  <2>3. LockedBy(p, t) /\ disk'[p] = disk[p]
      BY <1>0, <1>2, <2>2, LockedFrom
  <2>4. disk[p].tx = t /\ disk[p].state = "PENDING" /\ Begun(t)
      BY <1>h, <2>3, RecIs DEF LockedBy, BegunTrue
  <2>5. CASE t \in Transfer /\ p \in quote[t].inputs
      BY <1>0, <2>5, MintStands DEF Taken
  <2>6. CASE t \in Transfer /\ ~Taken(t) /\ ~Pursued(t)
    <3>1. ~Pursued(t)'
        BY <1>0, <2>4, <2>6, PursuedIs
    <3>2. quote'[t].inputs = {}
        BY <1>0, <2>6, MintStands DEF Pursued, Requested
    <3> QED
        BY <2>6, <3>1, <3>2
  <2>7. CASE Own(p)
    <3>0. job.pc \in Holding /\ p \in job.inputs /\ job.tx \in Transfer
        BY <2>7 DEF Own, IInv, JobKnows, Holding
    <3>1. SettlePending \/ (JudgeUnpaid /\ job.answer \in {"spent", "taken"})
        BY <1>2, <2>3, <2>7, OwnEnds
    <3>2. job.pc \in WithRow
        BY <3>1 DEF SettlePending, JudgeUnpaid, WithRow, Holding
    <3>3. t = job.tx
        BY <1>h, <2>4, <3>0, <3>2 DEF Scar, ScarLock, LockedBy
    <3>4. CASE SettlePending
        BY <3>0, <3>3, <3>4 DEF SettlePending, RequestsTrue, Answers, Scar, ScarTask, mintVars
    <3>5. CASE JudgeUnpaid /\ job.answer \in {"spent", "taken"}
      <4>1. ~Taken(t) /\ ~Requested(t)
          BY <3>3, <3>5 DEF JudgeUnpaid, RequestsTrue, Refusals
      <4>2. job'.pc \in {"nested", "nestedtwice"} /\ UNCHANGED <<quote, net>>
          BY <3>5 DEF JudgeUnpaid, IInv, Shapes, mintVars
      <4>3. ~Pursued(t)'
          BY <4>1, <4>2 DEF Pursued, Requested, Holding
      <4> QED
          BY <3>0, <3>3, <4>1, <4>2, <4>3 DEF Taken
    <3> QED
        BY <3>1, <3>4, <3>5
  <2> QED
      BY <1>2, <2>4, <2>5, <2>6, <2>7 DEF Scar, ScarProof
<1>3. ASSUME disk'[p].state = "PENDING"
      PROVE  \/ Own(p)'
             \/ p \in X
             \/ \E t \in Transfer : t = disk'[p].tx /\ (p \in quote'[t].inputs \/ (quote'[t].inputs = {} /\ ~Pursued(t)'))
  <2>1. disk'[p] \in Rec \cup {Absent}
      BY <1>0, AllStep DEF Next, Lives, StoreTrue, Rec
  <2>2. disk'[p].tx \in Tx /\ disk'[p] = Held("PENDING", disk'[p].tx)
      BY <1>3, <2>1, RecIs
  <2> QED
      BY <1>2, <2>2
<1>4. Goal1 => (Mine \/ Swapping(p)' \/ (p \in X /\ Cursed(T, X)'))
    OBVIOUS
<1> HIDE DEF Always, AInv, Goal1
<1> QED
    BY <1>0, <1>1, <1>3, <1>4 DEF ScarProof, LockedBy, Standing, Taken, Held, Pursued, Requested, Own, Holding

\* Where a visit that settles or releases came from.
LEMMA VisitFrom ==
    ASSUME IInv, Lives, NEW w \in Worker, visit'[w].pc \in Working, visit'[w].mode # "recover"
    PROVE  \/ /\ visit[w].pc \in Working /\ visit[w].mode # "recover" /\ visit'[w].tx = visit[w].tx
              /\ visit'[w].seen = visit[w].seen \/ (visit'[w].seen = quote[visit[w].tx].state /\ UNCHANGED quote)
              /\ visit'[w].pc \in {"unblind", "settle"} =>
                    \/ visit[w].pc \in {"unblind", "settle"} /\ visit'[w].pending = visit[w].pending
                    \/ SeesPaid(w) /\ visit'[w].pending = PendingOf(visit[w].tx)
           \/ /\ visit'[w].tx \in Tx /\ status[visit'[w].tx] \in {"PENDING", "EXPIRING"}
              /\ visit'[w].pc = "ask" /\ visit'[w].seen = "none"
<1> DEFINE Goes ==
              /\ visit[w].pc \in Working /\ visit[w].mode # "recover" /\ visit'[w].tx = visit[w].tx
              /\ visit'[w].seen = visit[w].seen \/ (visit'[w].seen = quote[visit[w].tx].state /\ UNCHANGED quote)
              /\ visit'[w].pc \in {"unblind", "settle"} =>
                    \/ visit[w].pc \in {"unblind", "settle"} /\ visit'[w].pending = visit[w].pending
                    \/ SeesPaid(w) /\ visit'[w].pending = PendingOf(visit[w].tx)
           Comes == /\ visit'[w].tx \in Tx /\ status[visit'[w].tx] \in {"PENDING", "EXPIRING"}
                    /\ visit'[w].pc = "ask" /\ visit'[w].seen = "none"
<1>0. w \in DOMAIN visit /\ DOMAIN visit[w] = {"pc", "tx", "mode", "seen", "pending", "change"}
    BY DEF IInv, Shapes
<1>n. NoVisit.pc = "none" /\ NoVisit.seen = "none"
    BY IdleIs
<1>q. Queue \in Worker /\ Screen \in Worker
    BY TransferAssumptions DEF Queue, Screen, Worker
<1>2. ASSUME ReleaseFailed(w) PROVE Goes
    BY <1>0, <1>2 DEF ReleaseFailed, GoOn, Working
<1>3. ASSUME MarkReverted(w) \/ SettleVisit(w) \/ AskFails(w) PROVE FALSE
  <2>1. \E o \in {"returned", "threw"} : visit' = [visit EXCEPT ![w] = Ended(w, o)]
      BY <1>3 DEF MarkReverted, SettleVisit, AskFails, EndVisit
  <2> QED
      BY <1>0, <1>n, <2>1 DEF Ended, Working
<1>4. ASSUME AskQuote(w) PROVE Goes
  <2>1. /\ visit[w].pc = "ask" /\ UNCHANGED quote
        /\ visit'[w] = [visit[w] EXCEPT !.pc = "act", !.seen = quote[visit[w].tx].state, !.change = change[visit[w].tx]]
      BY <1>0, <1>4 DEF AskQuote, mintVars
  <2> QED
      BY <1>0, <2>1 DEF Working
<1>5. ASSUME SeesPaid(w) PROVE Goes
  <2>1. /\ visit[w].pc = "act" /\ visit[w].mode # "recover"
        /\ visit'[w] = [visit[w] EXCEPT !.pc = "unblind", !.pending = PendingOf(visit[w].tx),
                                       !.change = visit[w].change \cap recovery[visit[w].tx]]
      BY <1>0, <1>5 DEF SeesPaid
  <2>2. visit'[w].tx = visit[w].tx /\ visit'[w].seen = visit[w].seen /\ visit'[w].pending = PendingOf(visit[w].tx)
      BY <1>0, <2>1
  <2> HIDE DEF SeesPaid
  <2> QED
      BY <1>5, <2>1, <2>2 DEF Working
<1>6. ASSUME SeesUnpaid(w) PROVE Goes
  <2>1. visit' = [visit EXCEPT ![w] = Ended(w, "threw")] => FALSE
      BY <1>0, <1>n DEF Ended, Working
  <2>2. visit' = [visit EXCEPT ![w] = Ended(w, "returned")] => FALSE
      BY <1>0, <1>n DEF Ended, Working
  <2>3. visit[w].pc = "act" /\ visit[w].mode # "recover" /\ visit' = [visit EXCEPT ![w].pc = "release"]
      BY <1>6, <2>1, <2>2 DEF SeesUnpaid, EndVisit, GoOn
  <2> QED
      BY <1>0, <2>3 DEF Working
<1>7. ASSUME SeesForRecovery(w) PROVE FALSE
  <2>1. visit' = [visit EXCEPT ![w] = Ended(w, "threw")] => FALSE
      BY <1>0, <1>n DEF Ended, Working
  <2>2. visit' = [visit EXCEPT ![w] = Ended(w, "returned")] => FALSE
      BY <1>0, <1>n DEF Ended, Working
  <2>3. visit[w].mode = "recover" /\ visit' = [visit EXCEPT ![w].pc = "unblind", ![w].change = visit[w].change \cap recovery[visit[w].tx]]
      BY <1>7, <2>1, <2>2 DEF SeesForRecovery, EndVisit
  <2> QED
      BY <1>0, <2>3
<1>8. ASSUME Unblind(w) \/ UnblindFails(w) PROVE Goes
  <2>1. visit' = [visit EXCEPT ![w] = Ended(w, "returned")] => FALSE
      BY <1>0, <1>n DEF Ended, Working
  <2>2. visit[w].pc = "unblind" /\ \E C : visit' = [visit EXCEPT ![w].pc = "settle", ![w].change = C]
    <3>1. CASE Unblind(w)
        BY <3>1, <2>1 DEF Unblind, EndVisit
    <3>2. CASE UnblindFails(w)
        BY <3>2, <2>1 DEF UnblindFails, EndVisit
    <3> QED
        BY <1>8, <3>1, <3>2
  <2> QED
      BY <1>0, <2>2 DEF Working
<1>9. ASSUME w = Queue, Rescued \/ OnchainChecked \/ Dispatched \/ GoneRefreshed PROVE FALSE
  <2>1. visit' = [visit EXCEPT ![Queue] = NoVisit]
      BY <1>9 DEF Rescued, OnchainChecked, Dispatched, GoneRefreshed
  <2> QED
      BY <1>0, <1>n, <1>9, <2>1 DEF Working
<1>10. ASSUME w = Queue, JudgePaid PROVE FALSE
    BY <1>0, <1>10 DEF JudgePaid, NoVisit
<1>11. ASSUME NEW t \in Tx, NEW m \in {"refresh", "finalize"}, Enter(w, t, m) PROVE Comes
  <2>1. visit'[w] = [NoVisit EXCEPT !.pc = EntryPc(t, m), !.tx = t, !.mode = m]
      BY <1>0, <1>11 DEF Enter
  <2>2. visit'[w].pc = EntryPc(t, m) /\ visit'[w].tx = t /\ visit'[w].seen = "none"
      BY <2>1 DEF NoVisit
  <2> QED
      BY <2>2 DEF EntryPc, InFlight, Working
<1>12. ASSUME w = Queue, \/ \E t \in Tx : Dispatch(t) \/ RefreshGone(t)
                         \/ \E t \in Transfer : CheckOnchain(t)
       PROVE  Comes
  <2>1. \E t \in Tx, m \in {"refresh", "finalize"} : Enter(w, t, m)
      BY <1>12, TransferAssumptions DEF Dispatch, RefreshGone, CheckOnchain
  <2> HIDE DEF Comes
  <2> QED
      BY <1>11, <2>1
<1>13. ASSUME NEW t \in Transfer, RecoverByHand(t), w = Screen PROVE FALSE
    BY <1>0, <1>13 DEF RecoverByHand, Enter, NoVisit
<1>14. ASSUME w \in Transfer, MonitorRefreshes(w) PROVE Comes
  <2>1. Enter(w, w, "refresh") /\ w \in Tx
      BY <1>14, TransferAssumptions DEF MonitorRefreshes
  <2> HIDE DEF Comes
  <2> QED
      BY <1>11, <2>1
<1> HIDE DEF Comes, Goes
<1>15. visit'[w] = visit[w] \/ VisitSteps(w)
    BY VisitMoves
<1>16. VisitSteps(w) => Goes \/ Comes
    BY <1>2, <1>3, <1>4, <1>5, <1>6, <1>7, <1>8, <1>9, <1>10, <1>12, <1>13, <1>14 DEF VisitSteps
<1>17. visit'[w] = visit[w] => Goes
    BY <1>0 DEF Goes
<1>18. Goes \/ Comes
    BY <1>15, <1>16, <1>17
<1> QED
    BY <1>18 DEF Goes, Comes

\* Change a visit is about to store is not used by anyone.
LEMMA ChangeWaits ==
    ASSUME NEW T, NEW X, Always, Scar(T, X), Gentle(T, X), NEW w \in Worker, visit'[w].pc = "settle",
           NEW p \in visit'[w].change
    PROVE  disk'[p] = Absent \/ (visit'[w].mode # "recover" /\ disk'[p].state = "UNSPENT")
<1> USE DEF Always, AInv
<1>0. Lives /\ w \in DOMAIN visit /\ DOMAIN visit[w] = {"pc", "tx", "mode", "seen", "pending", "change"}
    BY DEF Gentle, IInv, Shapes
<1>1. CASE visit'[w] = visit[w]
  <2>1. visit[w].pc = "settle"
      BY <1>1
  <2>2. ReleaseFailed(w) \/ MarkReverted(w) \/ SettleVisit(w)
      BY <1>0, <2>1, VisitIsAlone
  <2>3. SettleVisit(w)
      BY <2>1, <2>2 DEF ReleaseFailed, MarkReverted
  <2>4. visit'[w].pc \in {"returned", "none"}
      BY <1>0, <2>3, IdleIs DEF SettleVisit, EndVisit, Ended
  <2> QED
      BY <2>1, <2>4, <1>1
<1>2. CASE Unblind(w)
  <2>1. visit[w].pc = "unblind" /\ UNCHANGED <<disk, mem>>
      BY <1>2 DEF Unblind, storeVars
  <2>2. ~(visit' = [visit EXCEPT ![w] = Ended(w, "returned")])
    <3> SUFFICES ASSUME visit' = [visit EXCEPT ![w] = Ended(w, "returned")] PROVE FALSE
        OBVIOUS
    <3>1. visit'[w].pc \in {"returned", "none"}
        BY <1>0, IdleIs DEF Ended
    <3> QED
        BY <3>1
  <2>3. visit' = [visit EXCEPT ![w].pc = "settle",
                     ![w].change = IF visit[w].mode = "recover" THEN {r \in visit[w].change : mem[r] = Absent} ELSE @]
      BY <1>2, <2>2 DEF Unblind, EndVisit
  <2>4. visit'[w].mode = visit[w].mode
        /\ visit'[w].change = IF visit[w].mode = "recover" THEN {r \in visit[w].change : mem[r] = Absent} ELSE visit[w].change
      BY <1>0, <2>3
  <2>5. p \in visit[w].change
      BY <2>4
  <2>6. disk[p] = Absent \/ mem[p] # Absent
      BY <2>1, <2>5 DEF ChangeTrue
  <2>7. CASE visit[w].mode = "recover"
      BY <2>1, <2>4, <2>6, <2>7
  <2>8. CASE visit[w].mode # "recover"
    <3>1. p \in Proof
      <4>1. visit[w].tx \in Transfer /\ p \in Blanks(visit[w].tx)
          BY <2>1, <2>5 DEF IInv, VisitKnows, ChangeTrue
      <4> QED
          BY <4>1, BlanksAreProofs
    <3>2. mem[p].state \notin {"PENDING", "SPENT"}
        BY <1>2, <2>5, <2>8 DEF Gentle, Overtaken
    <3>3. mem[p] = Absent \/ mem[p].state = "UNSPENT"
        BY <3>1, <3>2, RecIs DEF StoreTrue, ProofState
    <3>4. phase # "loading"
        BY <2>1, IdleIs DEF TaskTrue
    <3>5. mem[p].state = "UNSPENT" => disk[p].state = "UNSPENT"
        BY <3>1, <3>4, RecIs DEF Scar, ScarTyped
    <3> QED
        BY <2>1, <2>4, <2>6, <2>8, <3>3, <3>5
  <2> QED
      BY <2>7, <2>8
<1>3. visit'[w].change = {} => FALSE
    OBVIOUS
<1> QED
    BY <1>0, <1>1, <1>2, <1>3, VisitChange

\* Settled inputs a visit has captured.
LEMMA CapturedStays ==
    ASSUME NEW T, NEW X, Always, Scar(T, X), Lives, NEW t \in Transfer, Settled(t), Standing(t),
           NEW p \in quote[t].inputs \cup X, LockedBy(p, t) \/ Gone(p)
    PROVE  disk'[p] = Held("PENDING", t) \/ disk'[p].state = "SPENT"
<1> USE DEF Always, AInv
<1>h. \A s, u : Held(s, u).state = s /\ Held(s, u).tx = u
    BY RecIs
<1>0. p \in Proof
    BY DEF MintTrue, Scar, ScarTyped
<1>1. CASE Gone(p)
  <2>1. disk'[p] = disk[p]
      BY <1>0, <1>1, GoneStays
  <2> QED
      BY <1>1, <2>1 DEF Gone
<1>2. CASE LockedBy(p, t)
  <2>1. \A w \in Worker : ReleaseFailed(w) => ~LockedBy(p, visit[w].tx)
      BY <1>h, <1>2, ReleasedIs DEF LockedBy
  <2>2. job.pc \in WithRow => ~LockedBy(p, job.tx)
      BY <1>h, <1>2 DEF LockedBy, Settled, Pursued, WithRow
  <2>3. \A u : SettleShort(u) => p \notin Unseen
      BY ShortIs DEF Dirty
  <2>4. disk[p].state = "PENDING"
      BY <1>h, <1>2 DEF LockedBy
  <2> QED
      BY <1>h, <1>0, <1>2, <2>1, <2>2, <2>3, <2>4, Turns DEF LockedBy
<1> QED
    BY <1>1, <1>2

\* A gentle step keeps what a visit may settle or release.
LEMMA ScarVisitKept ==
    ASSUME NEW T, NEW X, Always, Scar(T, X), Gentle(T, X), NEW w \in Worker
    PROVE  ScarVisit(visit[w], T, X)'
<1> USE DEF Always, AInv
<1>h. \A s, u : Held(s, u).state = s /\ Held(s, u).tx = u
    BY RecIs
<1>0. Lives
    BY DEF Gentle
<1>1. visit'[w].pc = "settle" => \A p \in visit'[w].change : disk'[p] = Absent \/ (visit'[w].mode # "recover" /\ disk'[p].state = "UNSPENT")
    BY ChangeWaits
<1>k. visit[w].pc \in Working => visit[w].tx \in Transfer /\ Begun(visit[w].tx)
    BY DEF IInv, VisitKnows, BegunTrue, Working
<1>2. ASSUME NEW t, visit'[w].tx = t, visit'[w].pc \in Working, visit'[w].mode # "recover"
      PROVE  Settled(t)' /\ (visit'[w].seen = "UNPAID" => quote'[t].state = "UNPAID")
  <2>1. CASE /\ visit[w].pc \in Working /\ visit[w].mode # "recover" /\ visit'[w].tx = visit[w].tx
             /\ visit'[w].seen = visit[w].seen \/ (visit'[w].seen = quote[visit[w].tx].state /\ UNCHANGED quote)
    <3>1. t \in Transfer /\ Begun(t) /\ Settled(t) /\ (visit[w].seen = "UNPAID" => ~Standing(t))
        BY <1>2, <1>k, <2>1 DEF Scar, ScarVisit
    <3>2. Settled(t)'
        BY <1>0, <3>1, SoundStays
    <3>3. ~Standing(t) => quote'[t].state = "UNPAID"
        BY <1>0, <3>1, MintStands DEF Settled
    <3> QED
        BY <1>2, <2>1, <3>1, <3>2, <3>3
  <2>2. CASE visit'[w].tx \in Tx /\ status[visit'[w].tx] \in {"PENDING", "EXPIRING"} /\ visit'[w].seen = "none"
    <3>1. t \in Transfer
      <4>1. visit'[w].pc # "none"
          BY <1>2 DEF Working
      <4> QED
          BY <1>0, <1>2, <4>1, AllStep DEF Next, Lives, IInv, VisitKnows
    <3>2. Settled(t) /\ Begun(t)
        BY <1>2, <2>2, <3>1 DEF Scar, ScarStatus, Begun
    <3>3. Settled(t)'
        BY <1>0, <3>1, <3>2, SoundStays
    <3> QED
        BY <2>2, <3>3
  <2> QED
      BY <1>0, <1>2, <2>1, <2>2, VisitFrom
<1>3. ASSUME NEW t, visit'[w].tx = t, visit'[w].mode # "recover", visit'[w].pc \in {"unblind", "settle"}
      PROVE  /\ \A p \in quote'[t].inputs : p \in visit'[w].pending \/ disk'[p].state = "SPENT"
             /\ \A p \in visit'[w].pending : /\ disk'[p] = Held("PENDING", t) \/ disk'[p].state = "SPENT"
                                             /\ p \in quote'[t].inputs \cup X
  <2>1. /\ visit[w].pc \in Working /\ visit[w].mode # "recover" /\ visit[w].tx = t
        /\ \/ visit[w].pc \in {"unblind", "settle"} /\ visit'[w].pending = visit[w].pending
           \/ SeesPaid(w) /\ visit'[w].pending = PendingOf(t)
      BY <1>0, <1>3, VisitFrom DEF Working
  <2>2. t \in Transfer /\ Settled(t) /\ Begun(t)
      BY <1>k, <2>1 DEF Scar, ScarVisit
  <2>3. visit[w].seen = "PAID"
      BY <2>1 DEF IInv, VisitKnows, SeesPaid
  <2>4. Standing(t) /\ quote'[t].inputs = quote[t].inputs /\ Taken(t) /\ quote[t].inputs \subseteq Proof
      BY <1>0, <2>1, <2>2, <2>3, MintStands DEF IInv, VisitKnows, Paid, Standing, MintTrue
  <2>5. CASE visit[w].pc \in {"unblind", "settle"} /\ visit'[w].pending = visit[w].pending
    <3>1. /\ \A p \in quote[t].inputs : p \in visit[w].pending \/ Gone(p)
          /\ \A p \in visit[w].pending : (LockedBy(p, t) \/ Gone(p)) /\ p \in quote[t].inputs \cup X
        BY <2>1, <2>5 DEF Scar, ScarVisit
    <3>2. ASSUME NEW p \in quote[t].inputs, p \notin visit[w].pending PROVE disk'[p].state = "SPENT"
      <4>1. Gone(p) /\ p \in Proof
          BY <2>4, <3>1, <3>2
      <4>2. disk'[p] = disk[p]
          BY <1>0, <2>2, <2>4, <4>1, GoneStays
      <4> QED
          BY <4>1, <4>2 DEF Gone
    <3>3. ASSUME NEW p \in visit[w].pending PROVE disk'[p] = Held("PENDING", t) \/ disk'[p].state = "SPENT"
        BY <1>0, <2>2, <2>4, <3>1, CapturedStays
    <3> QED
        BY <2>4, <2>5, <3>1, <3>2, <3>3
  <2>6. CASE SeesPaid(w) /\ visit'[w].pending = PendingOf(t)
    <3>1. UNCHANGED <<disk, mem, job>>
        BY <2>6 DEF SeesPaid, storeVars, queueVars
    <3>2. phase # "loading"
        BY <2>1, IdleIs DEF TaskTrue, Working
    <3>3. ASSUME NEW p \in quote[t].inputs PROVE p \in PendingOf(t) \/ disk[p].state = "SPENT"
      <4>1. p \in Proof /\ disk[p].tx = t /\ disk[p].state \in {"PENDING", "SPENT"}
          BY <2>2, <2>4 DEF Settled, Sound
      <4>2. disk[p].state = "PENDING" => mem[p] = disk[p]
          BY <3>2, <4>1 DEF Scar, ScarTyped
      <4> QED
          BY <4>1, <4>2 DEF PendingOf, Having
    <3>4. job.pc # "lock"
      <4> SUFFICES ASSUME job.pc = "lock" PROVE FALSE
          OBVIOUS
      <4>1. JobRuns
          BY <1>0, TaskIsAlone DEF JobHot
      <4>2. Lock
          BY <4>1 DEF JobRuns, Prepared, Execute, SettlePaid, SettlePending, SettleUnpaid, Fail, Rescued, OnchainChecked
      <4> QED
          BY <2>6, <3>1, <4>2 DEF Lock, IInv, Shapes
    <3>5. ASSUME NEW p \in PendingOf(t) PROVE LockedBy(p, t) /\ p \in quote[t].inputs \cup X
      <4>1. p \in Proof /\ mem[p].state = "PENDING" /\ mem[p].tx = t
          BY <3>5 DEF PendingOf, Having
      <4>2. disk[p] = mem[p]
          BY <3>2, <4>1, RecIs DEF Scar, ScarTyped
      <4>3. LockedBy(p, t) /\ disk[p].tx = t /\ disk[p].state = "PENDING"
          BY <4>1, <4>2, RecIs DEF LockedBy, StoreTrue
      <4>4. ~Own(p)
        <5> SUFFICES ASSUME Own(p) PROVE FALSE
            OBVIOUS
        <5>1. job.pc \in WithRow /\ p \in job.inputs
            BY <3>4 DEF Own, WithRow
        <5>2. job.tx = t
            BY <1>h, <4>3, <5>1 DEF Scar, ScarLock, LockedBy
        <5> QED
            BY <2>2, <5>1, <5>2 DEF Settled, Pursued, WithRow
      <4> QED
          BY <2>4, <4>1, <4>3, <4>4 DEF Scar, ScarProof
    <3> QED
        BY <2>4, <2>6, <3>1, <3>3, <3>5 DEF LockedBy
  <2> QED
      BY <2>1, <2>5, <2>6
<1>4. ASSUME visit'[w].mode # "recover", visit'[w].pc \in Working
      PROVE  /\ ~Pursued(visit[w].tx)'
             /\ Sound(visit[w].tx)'
             /\ visit'[w].seen = "UNPAID" => ~Standing(visit[w].tx)'
  <2> DEFINE t == visit'[w].tx
  <2>1. PICK u : u = visit'[w].tx
      OBVIOUS
  <2>2. Settled(u)' /\ (visit'[w].seen = "UNPAID" => quote'[u].state = "UNPAID")
      BY <1>2, <1>4, <2>1
  <2> QED
      BY <2>1, <2>2 DEF Settled, Pursued, Requested, Sound, Standing
<1>5. visit'[w].mode # "recover" /\ visit'[w].pc \in {"unblind", "settle"} =>
             /\ \A p \in quote'[visit'[w].tx].inputs : p \in visit'[w].pending \/ disk'[p].state = "SPENT"
             /\ \A p \in visit'[w].pending : /\ disk'[p] = Held("PENDING", visit'[w].tx) \/ disk'[p].state = "SPENT"
                                             /\ p \in quote'[visit'[w].tx].inputs \cup X
    BY <1>3
<1> HIDE DEF Always, AInv
<1> QED
    BY <1>1, <1>4, <1>5 DEF ScarVisit, Settled, LockedBy, Gone, Held, Absent

\* Whoever owns what the sync has seen at the mint is settled.
LEMMA SeenCalm ==
    ASSUME NEW T, NEW X, Always, Scar(T, X), Lives, sync.pc \in {"move", "settle"}, NEW p \in Seen, p \in Proof,
           NEW t \in Transfer, disk[p].tx = t,
           sync.from = "UNSPENT" => disk'[p].tx = t /\ disk'[p].state \in {"PENDING", "SPENT"}
    PROVE  Settled(t)'
<1> USE DEF Always, AInv
<1>0. sync.pc # "idle"
    OBVIOUS
<1>1. CASE Settled(t)
    BY <1>0, <1>1, SoundStays
<1>2. CASE ~Settled(t)
  <2>1. sync.from = "UNSPENT"
      BY <1>2 DEF Scar, ScarSync, SyncTrue, Calm
  <2>2. disk[p].state = "UNSPENT" /\ p \in X /\ ~Pursued(T)
      BY <2>1 DEF Scar, ScarSync
  <2>3. t = T
    <3> SUFFICES ASSUME t # T PROVE FALSE
        OBVIOUS
    <3>1. Sound(t)
        BY DEF Scar, ScarQuote
    <3>2. ~Pursued(t)
        BY <1>0, SyncPursues
    <3> QED
        BY <1>2, <3>1, <3>2 DEF Settled
  <2>4. ~Pursued(T)' /\ T \in Transfer
      BY <2>2, <2>3, PursuedIs DEF Scar, ScarTyped
  <2>5. quote'[T].state # "UNPAID" => quote'[T].inputs = X /\ Alone(T, X)
    <3> SUFFICES ASSUME quote'[T].state # "UNPAID" PROVE quote'[T].inputs = X /\ Alone(T, X)
        OBVIOUS
    <3>1. Standing(T) /\ Taken(T) /\ quote'[T].inputs = quote[T].inputs
        BY <2>2, <2>4, MintStands
    <3>2. quote[T].inputs = X
        BY <2>4, <3>1 DEF Scar, ScarTyped
    <3>3. Alone(T, X)
        BY <2>2, <2>3, <3>1 DEF Scar, ScarWhole, Threat
    <3> QED
        BY <3>1, <3>2, <3>3
  <2>6. Alone(T, X) => X = {p}
      BY <2>2 DEF Alone
  <2>7. Sound(T)'
      BY <2>1, <2>3, <2>5, <2>6 DEF Sound, Standing
  <2> QED
      BY <2>3, <2>4, <2>7 DEF Settled, Pursued, Requested, Sound, Standing
<1> QED
    BY <1>1, <1>2

\* A gentle step keeps the transfers calm that the sync will settle.
LEMMA ScarOwnersKept ==
    ASSUME NEW T, NEW X, Always, Scar(T, X), Lives
    PROVE  ScarOwners'
<1> USE DEF Always, AInv
<1>h. \A s, u : Held(s, u).state = s /\ Held(s, u).tx = u
    BY RecIs
<1>c. ASSUME sync.pc # "idle", NEW t, Calm(t) PROVE Calm(t)'
  <2>1. CASE t \notin Transfer
      BY <2>1 DEF Calm
  <2>2. CASE t \in Transfer
    <3>1. Settled(t)'
        BY <1>c, <2>2, SoundStays DEF Calm
    <3> QED
        BY <3>1 DEF Calm, Settled, Pursued, Requested, Sound, Standing
  <2> QED
      BY <2>1, <2>2
<1>m. sync.pc # "idle" => \A p \in Proof : mem[p] # Absent => mem[p] = disk[p]
    BY IdleIs DEF Scar, ScarTyped, TaskTrue
<1>i. \A t \in OwnersOf(sync.spent) \cup OwnersOf(sync.pend) : t # NoTx
    BY DEF OwnersOf
<1> DEFINE Goal == /\ sync'.pc \in {"settle", "settling"} => \A t \in sync'.todo : Calm(t)'
                   /\ sync'.pc \in {"check", "move", "settle", "settling", "mark"} => \A t \in sync'.ids : Calm(t)'
                   /\ sync'.pc = "settling" => sync'.at \in Transfer /\ \A t : t = sync'.at => Calm(t)'
<1>1. ASSUME UNCHANGED sync PROVE Goal
    BY <1>1, <1>c DEF Scar, ScarOwners
<1>2. ASSUME JudgeUnpaid \/ NestedDone \/ (\E s \in {"PENDING", "UNSPENT"} : SyncAll(s)), ~UNCHANGED sync PROVE Goal
  <2>1. sync'.pc = "check" /\ sync'.ids = {}
      BY <1>2 DEF JudgeUnpaid, NestedDone, SyncAll, StartSync, IdleSync
  <2> QED
      BY <2>1
<1>3. ASSUME Check \/ CheckFails PROVE Goal
  <2>1. sync.pc = "check" /\ ((sync'.pc = "move" /\ sync'.ids = sync.ids) \/ sync'.pc = "idle")
      BY <1>3, IdleIs DEF Check, CheckFails, SyncTrue
  <2> QED
      BY <1>c, <2>1 DEF Scar, ScarOwners
<1>4. ASSUME WriteOff PROVE Goal
  <2>1. /\ sync.pc = "move" /\ sync'.pc = "settle" /\ sync'.ids = sync.ids /\ sync'.todo = OwnersOf(sync.spent)
        /\ sync.spent \subseteq Live
      BY <1>4 DEF WriteOff, SyncTrue, MoveToSpent
  <2>2. ASSUME NEW t \in OwnersOf(sync.spent), t \in Transfer PROVE Settled(t)'
    <3>1. PICK p \in sync.spent : t = mem[p].tx
        BY <2>2 DEF OwnersOf
    <3>2. p \in Proof /\ mem[p] # Absent /\ p \in Seen
        BY <2>1, <3>1 DEF Live, Seen
    <3>3. disk[p] = mem[p]
        BY <1>m, <2>1, <3>2
    <3>4. disk'[p].state = "SPENT" /\ disk'[p].tx = disk[p].tx
      <4>1. Writing(p) /\ Effect(p) /\ Sure(p)
          BY <1>4, <3>1, <3>2, Effects DEF Writing
      <4>2. disk'[p].state = "SPENT"
          BY <4>1 DEF Sure
      <4>3. disk[p].state \in {"UNSPENT", "PENDING", "SPENT"}
          BY <3>2, <3>3, RecIs DEF StoreTrue, ProofState
      <4>4. ~GivingBack
          BY <2>1, SyncIsAlone DEF GivingBack
      <4> QED
          BY <1>h, <3>2, <4>2, <4>3, <4>4, Turns
    <3> QED
        BY <2>1, <2>2, <3>1, <3>2, <3>3, <3>4, SeenCalm
  <2> QED
      BY <1>c, <2>1, <2>2 DEF Calm, Settled, Pursued, Requested, Sound, Standing, Scar, ScarOwners
<1>5. ASSUME Register PROVE Goal
  <2>1. /\ sync.pc = "settle"
        /\ sync'.pc = "gone" \/ (sync'.pc = "mark" /\ sync'.ids = sync.ids \cup OwnersOf(sync.pend \ registry))
      BY <1>5 DEF Register, SyncTrue
  <2>2. ASSUME NEW t \in OwnersOf(sync.pend \ registry), t \in Transfer PROVE Settled(t)'
    <3>1. PICK p \in sync.pend \ registry : t = mem[p].tx /\ t # NoTx
        BY <2>2 DEF OwnersOf
    <3>2. p \in Proof /\ mem[p] # Absent /\ p \in Seen
        BY <3>1, RecIs DEF Seen, SyncTrue
    <3>3. disk[p] = mem[p]
        BY <1>m, <2>1, <3>2
    <3>4. sync.from = "UNSPENT" => disk'[p].state = "PENDING" /\ disk'[p].tx = disk[p].tx
      <4> SUFFICES ASSUME sync.from = "UNSPENT" PROVE disk'[p].state = "PENDING" /\ disk'[p].tx = disk[p].tx
          OBVIOUS
      <4>1. disk'[p].state = "PENDING"
          BY <1>5, <3>1, <3>2, Effects DEF Sure
      <4>2. disk[p].state = "UNSPENT"
          BY <2>1, <3>2 DEF Scar, ScarSync
      <4>3. ~Select /\ ~Lock
          BY <2>1, SyncIsAlone
      <4>4. disk'[p] = Held("PENDING", disk[p].tx)
          BY <1>h, <3>2, <4>1, <4>2, <4>3, Turns
      <4> QED
          BY <1>h, <4>4
    <3> QED
        BY <2>1, <2>2, <3>1, <3>2, <3>3, <3>4, SeenCalm
  <2> QED
      BY <1>c, <2>1, <2>2 DEF Calm, Settled, Pursued, Requested, Sound, Standing, Scar, ScarOwners
<1>6. ASSUME NEW u \in Tx, SettleShort(u) \/ SkipSettled(u) \/ Dispatch(u) PROVE Goal
  <2>1. /\ sync.pc = "settle" /\ u \in sync.todo /\ sync'.todo \subseteq sync.todo /\ sync'.ids \subseteq sync.ids \cup {u}
        /\ \/ sync'.pc = "settle"
           \/ sync'.pc = "settling" /\ sync'.at = u /\ u \in Transfer
      BY ZenonT(30), <1>6 DEF SettleShort, SkipSettled, Dispatch, SyncTrue
  <2> QED
      BY <1>c, <2>1 DEF Scar, ScarOwners
<1>7. ASSUME Dispatched PROVE Goal
  <2>1. sync.pc = "settling" /\ sync'.pc = "settle" /\ sync'.todo = sync.todo /\ sync'.ids \subseteq sync.ids \cup {sync.at}
      BY <1>7 DEF Dispatched, SyncTrue
  <2> QED
      BY <1>c, <2>1 DEF Scar, ScarOwners
<1>8. ASSUME \/ MarkPending \/ Unregister \/ Synced \/ GoneRefreshed \/ (\E t \in Tx : RefreshGone(t)) PROVE Goal
  <2>1. sync'.pc \in {"gone", "refresh", "idle", "refreshing"}
      BY <1>8, IdleIs DEF MarkPending, Unregister, Synced, GoneRefreshed, RefreshGone, SyncTrue
  <2> QED
      BY <2>1
<1> HIDE DEF Goal
<1>9. Goal
    BY <1>1, <1>2, <1>3, <1>4, <1>5, <1>6, <1>7, <1>8, SyncAt
<1> QED
    BY <1>9 DEF Goal, ScarOwners, Calm, Settled, Pursued, Requested, Sound, Standing

\* What the mint lets go it holds no longer.
LEMMA LetGo ==
    ASSUME NEW T, NEW X, Always, Scar(T, X), Lives, NEW t \in Transfer, Standing(t), NEW p \in quote[t].inputs,
           quote'[t].state = "UNPAID"
    PROVE  ~AtMintNow(p)'
<1>1. quote[t].inputs \cap mintSpent = {} /\ UNCHANGED mintSpent /\ \A u \in Transfer : u # t => quote'[u] = quote[u]
    BY MintStands
<1> SUFFICES ASSUME AtMintNow(p)' PROVE FALSE
    OBVIOUS
<1>2. PICK u \in Transfer : quote'[u].state # "UNPAID" /\ p \in quote'[u].inputs
    BY <1>1 DEF AtMintNow, Standing
<1>3. u # t /\ Standing(u) /\ p \in quote[u].inputs
    BY <1>1, <1>2 DEF Standing
<1> QED
    BY <1>3 DEF Always, AInv, MintTrue

\* A proof in nobody's hands stays spendable.
LEMMA SpareStays ==
    ASSUME NEW T, NEW X, Always, Scar(T, X), Lives, NEW p \in Proof, disk[p].state = "UNSPENT",
           sync.pc # "idle", ~Register, WriteOff => p \notin sync.spent
    PROVE  disk'[p].state = "UNSPENT"
<1> USE DEF Always, AInv
<1>h. \A s, u : Held(s, u).state = s /\ Held(s, u).tx = u
    BY RecIs
<1>1. ~Select /\ ~Lock /\ ~CommitSwap /\ ~SettlePaid /\ ~JudgePaid
    BY SyncIsAlone
<1>2. ~Register
    OBVIOUS
<1>3. \A w \in Worker : SettleVisit(w) => p \notin visit[w].pending
  <2> SUFFICES ASSUME NEW w \in Worker, SettleVisit(w), p \in visit[w].pending PROVE FALSE
      OBVIOUS
  <2>1. visit[w].pc = "settle" /\ visit[w].mode # "recover"
      BY DEF SettleVisit, VisitTrue
  <2> QED
      BY <1>h, <2>1 DEF Scar, ScarVisit, LockedBy, Gone
<1> QED
    BY <1>1, <1>2, <1>3, Turns DEF Writing

\* The batch a sync starts with.
BatchFits(S, s, T, X) ==
    /\ \A p \in S : AtMintNow(p) =>
         \/ p \in X /\ Cursed(T, X)
         \/ /\ disk[p].tx \in Transfer /\ Standing(disk[p].tx)
            /\ p \in quote[disk[p].tx].inputs /\ quote[disk[p].tx].inputs \subseteq S
    /\ \A p \in S \cap X : s = "PENDING" =>
         /\ disk[p].state = "PENDING"
         /\ LockedBy(p, T) /\ Threat(T) => X \subseteq S
    /\ \A p \in S, t \in Transfer :
         Standing(t) /\ p \in quote[t].inputs /\ LockedBy(p, t) => quote[t].inputs \subseteq S
    /\ s = "UNSPENT" => \A p \in S : disk[p].state = "UNSPENT"

\* Whatever the sync asks about, it asks about whole melts.
LEMMA BatchStarts ==
    ASSUME NEW T, NEW X, Always, Scar(T, X), job.pc # "swap", phase # "loading", NEW S, NEW s \in {"PENDING", "UNSPENT"},
           \/ S = Having(mem, s)
           \/ S = job.inputs /\ s = "PENDING" /\ job.pc = "judge" /\ job.answer = "taken"
    PROVE  BatchFits(S, s, T, X)
<1> USE DEF Always, AInv
<1>h. \A a, u : Held(a, u).state = a /\ Held(a, u).tx = u
    BY RecIs
<1>0. /\ X \subseteq Proof /\ (X # {} => T \in Transfer) /\ \A p : ~Swapping(p)
      /\ \A t \in Transfer : quote[t].inputs \subseteq Proof
    BY DEF Scar, ScarTyped, Swapping, MintTrue
<1>m. \A p \in Proof : mem[p] = disk[p] \/ (disk[p].state = "SPENT" /\ mem[p].state = "none")
    BY RecIs DEF Scar, ScarTyped
<1>1. CASE S = Having(mem, s)
  <2>1. S \subseteq Proof /\ \A p \in Proof : p \in S <=> disk[p].state = s
      BY <1>m, <1>1 DEF Having
  <2>2. ASSUME NEW p \in S, NEW t \in Transfer, Standing(t), p \in quote[t].inputs, LockedBy(p, t)
        PROVE  quote[t].inputs \subseteq S
    <3>1. s = "PENDING"
        BY <1>h, <2>1, <2>2 DEF LockedBy
    <3>2. \A r \in quote[t].inputs : LockedBy(r, t)
        BY <2>2 DEF Scar, ScarQuote
    <3> QED
        BY <1>h, <1>0, <2>1, <3>1, <3>2 DEF LockedBy
  <2>3. ASSUME NEW p \in S, AtMintNow(p), ~(p \in X /\ Cursed(T, X))
        PROVE  /\ disk[p].tx \in Transfer /\ Standing(disk[p].tx)
               /\ p \in quote[disk[p].tx].inputs /\ quote[disk[p].tx].inputs \subseteq S
    <3>1. p \in Proof /\ disk[p].state \in {"UNSPENT", "PENDING"}
        BY <2>1, <2>3
    <3>2. disk[p].tx \in Transfer /\ LockedBy(p, disk[p].tx) /\ p \in quote[disk[p].tx].inputs /\ Standing(disk[p].tx)
        BY <1>0, <2>3, <3>1 DEF Scar, ScarProof
    <3> QED
        BY <2>2, <2>3, <3>2
  <2>4. ASSUME NEW p \in S \cap X, LockedBy(p, T), Threat(T) PROVE X \subseteq S
    <3>1. disk[p].tx = T /\ disk[p].state = "PENDING" /\ p \in Proof
        BY <1>h, <1>0, <2>4 DEF LockedBy
    <3>2. \A r \in X : disk[r] = disk[p]
        BY <2>4, <3>1 DEF Scar, ScarWhole
    <3> QED
        BY <1>0, <2>1, <2>4, <3>1, <3>2
  <2> QED
      BY <2>1, <2>2, <2>3, <2>4 DEF BatchFits
<1>2. CASE S = job.inputs /\ s = "PENDING" /\ job.pc = "judge" /\ job.answer = "taken"
  <2>1. \A p \in S : LockedBy(p, job.tx) /\ disk[p].state = "PENDING" /\ disk[p].tx = job.tx /\ p \in Proof
    <3>1. \A p \in job.inputs : LockedBy(p, job.tx)
        BY <1>2 DEF Scar, ScarLock, WithRow, Holding
    <3>2. job.inputs \subseteq Proof
        BY DEF TaskTrue
    <3> QED
        BY <1>h, <1>2, <3>1, <3>2 DEF LockedBy
  <2>2. ~Taken(job.tx) /\ job.tx \in Transfer
      BY <1>2 DEF RequestsTrue, Refusals, IInv, JobKnows
  <2>3. ~Standing(job.tx)
      BY <2>2 DEF MintTrue
  <2>4. job.tx = T => job.inputs = X
      BY <1>2 DEF Scar, ScarTask, Holding
  <2>5. ASSUME NEW p \in S, AtMintNow(p) PROVE p \in X /\ Cursed(T, X)
      BY <1>0, <2>1, <2>3, <2>5 DEF Scar, ScarProof
  <2>6. ASSUME NEW p \in S \cap X, LockedBy(p, T) PROVE X \subseteq S
      BY <1>h, <1>2, <2>1, <2>4, <2>6 DEF LockedBy
  <2>7. ASSUME NEW p \in S, NEW t \in Transfer, Standing(t), LockedBy(p, t) PROVE FALSE
      BY <1>h, <2>1, <2>3, <2>7 DEF LockedBy
  <2> QED
      BY <1>2, <2>1, <2>5, <2>6, <2>7 DEF BatchFits
<1> QED
    BY <1>1, <1>2

\* A sync that starts changes nothing else.
LEMMA StartsCalmly ==
    ASSUME NEW T, NEW X, Always, Scar(T, X), Lives, sync.pc = "idle", sync'.pc = "check"
    PROVE  /\ \A p \in Proof : disk'[p] = disk[p]
           /\ UNCHANGED <<quote, mintSpent, net>> /\ job.pc # "swap" /\ phase # "loading"
           /\ \/ sync'.batch = Having(mem, sync'.from)
              \/ sync'.batch = job.inputs /\ sync'.from = "PENDING" /\ job.pc = "judge" /\ job.answer = "taken"
           /\ sync'.from \in {"PENDING", "UNSPENT"}
<1> USE DEF Always, AInv
<1>1. JudgeUnpaid \/ NestedDone \/ \E s \in {"PENDING", "UNSPENT"} : SyncAll(s)
    BY SyncAt
<1>2. CASE JudgeUnpaid
  <2>1. job.pc = "judge" /\ UNCHANGED <<quote, mintSpent, net>> /\ sync' # sync
      BY <1>2 DEF JudgeUnpaid, mintVars
  <2>2. CASE job.answer \notin {"spent", "taken"}
      BY <1>2, <2>1, <2>2 DEF JudgeUnpaid
  <2>3. CASE job.answer \in {"spent", "taken"}
    <3>1. Commit(job.row, {}, {}, <<>>)
        BY <1>2, <2>3 DEF JudgeUnpaid
    <3>2. \A p \in Proof : disk'[p] = disk[p]
      <4>1. Kinded /\ DOMAIN <<>> = {}
          BY StoreParts, OutputsDo
      <4> HIDE DEF Always, AInv
      <4> QED
          BY <3>1, <4>1, CommitDoes
    <3>3. \/ StartSync(Having(mem, "PENDING"), "PENDING")
          \/ StartSync(job.inputs, "PENDING") /\ job.answer = "taken"
        BY <1>2, <2>3 DEF JudgeUnpaid
    <3>4. /\ \/ sync'.batch = Having(mem, "PENDING")
             \/ sync'.batch = job.inputs /\ job.answer = "taken"
          /\ sync'.from = "PENDING"
        BY <2>1, <3>3 DEF StartSync, IdleSync
    <3>5. phase # "loading"
        BY <2>1, IdleIs DEF TaskTrue
    <3> QED
        BY <2>1, <3>2, <3>4, <3>5
  <2> QED
      BY <2>2, <2>3
<1>3. CASE NestedDone
  <2>1. job.pc \in {"nested", "nestedtwice"} /\ UNCHANGED <<disk, mem, quote, mintSpent, net>>
      BY <1>3 DEF NestedDone, mintVars, storeVars
  <2>2. sync'.batch = Having(mem, "PENDING") /\ sync'.from = "PENDING"
      BY <1>3 DEF NestedDone, StartSync, IdleSync
  <2>3. phase # "loading"
      BY <2>1, IdleIs DEF TaskTrue
  <2> QED
      BY <2>1, <2>2, <2>3
<1>4. ASSUME NEW s \in {"PENDING", "UNSPENT"}, SyncAll(s)
      PROVE  /\ UNCHANGED <<disk, quote, mintSpent, net>> /\ job.pc # "swap" /\ phase # "loading"
             /\ sync'.batch = Having(mem, sync'.from)
             /\ sync'.from \in {"PENDING", "UNSPENT"}
    BY <1>4, IdleIs DEF SyncAll, Ready, StartSync, IdleSync, mintVars, storeVars
<1> QED
    BY <1>1, <1>2, <1>3, <1>4

\* A batch that is asked about stays what it is.
LEMMA BatchStays ==
    ASSUME NEW T, NEW X, Always, Scar(T, X), Gentle(T, X), UNCHANGED sync, sync.pc = "check"
    PROVE  /\ \A p \in sync.batch : AtMintNow(p)' =>
                \/ p \in X /\ Cursed(T, X)'
                \/ /\ disk'[p].tx \in Transfer /\ quote'[disk'[p].tx].state # "UNPAID"
                   /\ p \in quote'[disk'[p].tx].inputs /\ quote'[disk'[p].tx].inputs \subseteq sync.batch
           /\ \A p \in sync.batch \cap X : sync.from = "PENDING" /\ Threat(T)' =>
                /\ disk'[p] # Held("UNSPENT", T)
                /\ disk'[p] = Held("PENDING", T) => X \subseteq sync.batch
           /\ \A p \in sync.batch, t \in Transfer :
                quote'[t].state # "UNPAID" /\ p \in quote'[t].inputs /\ disk'[p] = Held("PENDING", t) => quote'[t].inputs \subseteq sync.batch
           /\ sync.from = "UNSPENT" => \A p \in sync.batch : disk'[p].state = "UNSPENT"
<1> USE DEF Always, AInv
<1>h. \A a, u : Held(a, u).state = a /\ Held(a, u).tx = u
    BY RecIs
<1>0. /\ Lives /\ X \subseteq Proof /\ sync.batch \subseteq Proof /\ (X # {} => T \in Transfer)
      /\ \A t \in Transfer : quote[t].inputs \subseteq Proof
    BY DEF Gentle, Scar, ScarTyped, SyncTrue, MintTrue
<1>a. /\ ~Select /\ ~Lock /\ ~CommitSwap /\ ~SettlePaid /\ ~SettlePending /\ ~GivingBack /\ ~MintSwaps
      /\ ~Register /\ ~WriteOff /\ \A u \in Tx : ~SettleShort(u)
    BY <1>0, SyncIsAlone DEF GivingBack, Register, WriteOff, SettleShort
<1>1. ASSUME NEW p \in sync.batch, AtMintNow(p)', ~(p \in X /\ Cursed(T, X)')
      PROVE  /\ disk'[p].tx \in Transfer /\ quote'[disk'[p].tx].state # "UNPAID"
             /\ p \in quote'[disk'[p].tx].inputs /\ quote'[disk'[p].tx].inputs \subseteq sync.batch
  <2>1. AtMintNow(p)
    <3>1. ASSUME NEW q \in net, TakeMelt(q), p \in q.inputs, quote'[q.tx].state = "PENDING" PROVE FALSE
      <4>1. q.tx = T /\ q.inputs = X
          BY SyncPursues
      <4> QED
          BY <1>0, <1>1, <3>1, <4>1 DEF Cursed, Standing
    <3> QED
        BY <1>0, <1>1, <1>a, <3>1, Arrives
  <2>2. ~(p \in X /\ Cursed(T, X))
      BY <1>1, CursedStays
  <2>3. PICK t \in Transfer : /\ t = disk[p].tx /\ Standing(t)
                              /\ p \in quote[t].inputs /\ quote[t].inputs \subseteq sync.batch
      BY <2>1, <2>2 DEF Scar, ScarBatch
  <2>4. t # T
    <3> SUFFICES ASSUME t = T PROVE FALSE
        OBVIOUS
    <3>1. quote[T].inputs = X
        BY <2>3 DEF Scar, ScarTyped, MintTrue
    <3> QED
        BY <2>2, <2>3, <3>1 DEF Cursed
  <2>5. disk'[p].tx = t
      BY <1>0, <2>3, <2>4, OwnStays
  <2>6. quote'[t].state # "UNPAID"
      BY <1>0, <1>1, <2>3, LetGo
  <2>7. quote'[t].inputs = quote[t].inputs
      BY <1>0, <2>3, MintStands
  <2> QED
      BY <2>3, <2>5, <2>6, <2>7
<1>2. ASSUME NEW p \in sync.batch \cap X, sync.from = "PENDING", Threat(T)'
      PROVE  disk'[p] # Held("UNSPENT", T) /\ (disk'[p] = Held("PENDING", T) => X \subseteq sync.batch)
  <2>0. Threat(T) /\ T \in Transfer /\ p \in Proof
      BY <1>0, <1>2, ThreatStays
  <2>1. disk'[p] = Held("PENDING", T) => LockedBy(p, T)
      BY <1>0, <1>a, <2>0, LockedFrom
  <2>2. ASSUME disk'[p] = Held("UNSPENT", T) PROVE FALSE
    <3>1. disk[p] # Held("UNSPENT", T)
        BY <1>2, <2>0 DEF Scar, ScarBatch
    <3>2. ASSUME NEW w \in Worker, SettleVisit(w), p \in visit[w].change, disk'[p] = Held("UNSPENT", visit[w].tx) PROVE FALSE
      <4>1. visit[w].pc # "none" /\ visit[w].tx = T
          BY <1>h, <2>2, <3>2 DEF SettleVisit
      <4> QED
          BY <1>2, <2>0, <3>2, <4>1 DEF ChangeTrue, Scar, ScarTyped
    <3>3. ASSUME NEW w \in Worker, ReleaseFailed(w), LockedBy(p, visit[w].tx), disk'[p] = Held("UNSPENT", visit[w].tx) PROVE FALSE
      <4>1. visit[w].tx = T
          BY <1>h, <2>2, <3>3
      <4> QED
          BY <2>0, <3>3, <4>1, ReleasedIs DEF Threat, Settled
    <3>4. \A a : disk'[p] # Held("SPENT", a) /\ disk'[p] # Held("PENDING", a)
        BY <1>h, <2>2
    <3>5. Effect(p)
        BY <1>0, <2>0, Effects
    <3> HIDE DEF Always, AInv
    <3> QED
        BY <1>a, <2>2, <3>1, <3>2, <3>3, <3>4, <3>5 DEF Effect
  <2> QED
      BY <1>2, <2>0, <2>1, <2>2 DEF Scar, ScarBatch
<1>4. sync.from = "UNSPENT" => \A p \in sync.batch : disk'[p].state = "UNSPENT"
    BY <1>0, <1>a, SpareStays DEF Scar, ScarBatch
<1>3. ASSUME NEW p \in sync.batch, NEW t \in Transfer, quote'[t].state # "UNPAID", p \in quote'[t].inputs, disk'[p] = Held("PENDING", t)
      PROVE  quote'[t].inputs \subseteq sync.batch
  <2>1. LockedBy(p, t)
      BY <1>0, <1>3, <1>a, LockedFrom
  <2>2. CASE Standing(t)
    <3>1. quote'[t].inputs = quote[t].inputs
        BY <1>0, <2>2, MintStands
    <3> QED
        BY <1>3, <2>1, <2>2, <3>1 DEF Scar, ScarBatch
  <2>3. CASE ~Standing(t)
    <3>1. ~Taken(t)
        BY <1>0, <1>3, <2>3, MintFacts DEF Standing
    <3>2. PICK q \in net : q.tx = t /\ TakeMelt(q) /\ quote'[t].inputs = q.inputs
        BY <1>0, <1>3, <3>1, MintStands
    <3>3. t = T /\ quote'[t].inputs = X /\ Threat(T) /\ p \in X
        BY <1>3, <3>2, SyncPursues DEF Threat, Pursued, Requested
    <3>4. sync.from = "PENDING"
        BY <1>h, <1>3, <1>4 DEF SyncTrue
    <3> QED
        BY <2>1, <3>3, <3>4 DEF Scar, ScarBatch
  <2> QED
      BY <2>2, <2>3
<1> QED
    BY <1>1, <1>2, <1>3, <1>4

\* A gentle step keeps the sync's batch whole.
LEMMA ScarBatchKept ==
    ASSUME NEW T, NEW X, Always, Scar(T, X), Gentle(T, X)
    PROVE  ScarBatch(T, X)'
<1> USE DEF Always, AInv
<1>h. \A a, u : Held(a, u).state = a /\ Held(a, u).tx = u
    BY RecIs
<1>0. Lives /\ X \subseteq Proof
    BY DEF Gentle, Scar, ScarTyped
<1> SUFFICES ASSUME sync'.pc = "check" PROVE ScarBatch(T, X)'
    BY DEF ScarBatch
<1>1. \/ UNCHANGED sync /\ sync.pc = "check"
      \/ sync.pc = "idle"
  <2>1. \/ UNCHANGED sync \/ sync.pc = "idle"
        \/ sync.pc = "check" /\ (Check \/ CheckFails)
        \/ WriteOff \/ Register \/ (\E t \in Tx : SettleShort(t) \/ SkipSettled(t) \/ Dispatch(t)) \/ Dispatched \/ MarkPending
        \/ Unregister \/ Synced \/ (\E t \in Tx : RefreshGone(t)) \/ GoneRefreshed
      BY <1>0, SyncAt
  <2>2. ~Check /\ ~CheckFails /\ ~WriteOff /\ ~Register /\ ~Dispatched /\ ~MarkPending /\ ~Unregister /\ ~Synced /\ ~GoneRefreshed
      BY IdleIs DEF Check, CheckFails, WriteOff, Register, Dispatched, MarkPending, Unregister, Synced, GoneRefreshed, SyncTrue
  <2>3. \A t \in Tx : ~SettleShort(t) /\ ~SkipSettled(t) /\ ~Dispatch(t) /\ ~RefreshGone(t)
      BY DEF SettleShort, SkipSettled, Dispatch, RefreshGone, SyncTrue
  <2> QED
      BY <2>1, <2>2, <2>3
<1>2. CASE UNCHANGED sync /\ sync.pc = "check"
  <2>1. /\ \A p \in sync.batch : AtMintNow(p)' =>
                \/ p \in X /\ Cursed(T, X)'
                \/ /\ disk'[p].tx \in Transfer /\ quote'[disk'[p].tx].state # "UNPAID"
                   /\ p \in quote'[disk'[p].tx].inputs /\ quote'[disk'[p].tx].inputs \subseteq sync.batch
        /\ \A p \in sync.batch \cap X : sync.from = "PENDING" /\ Threat(T)' =>
                /\ disk'[p] # Held("UNSPENT", T)
                /\ disk'[p] = Held("PENDING", T) => X \subseteq sync.batch
        /\ \A p \in sync.batch, t \in Transfer :
                quote'[t].state # "UNPAID" /\ p \in quote'[t].inputs /\ disk'[p] = Held("PENDING", t) => quote'[t].inputs \subseteq sync.batch
        /\ sync.from = "UNSPENT" => \A p \in sync.batch : disk'[p].state = "UNSPENT"
      BY <1>2, BatchStays
  <2> HIDE DEF Always, AInv
  <2> QED
      BY <1>2, <2>1 DEF ScarBatch, Standing, LockedBy, Held
<1>3. CASE sync.pc = "idle"
  <2>0. PICK S, s : S = sync'.batch /\ s = sync'.from
      OBVIOUS
  <2>1. /\ \A p \in Proof : disk'[p] = disk[p]
        /\ UNCHANGED <<quote, mintSpent, net>> /\ job.pc # "swap" /\ phase # "loading"
        /\ \/ S = Having(mem, s)
           \/ S = job.inputs /\ s = "PENDING" /\ job.pc = "judge" /\ job.answer = "taken"
        /\ s \in {"PENDING", "UNSPENT"}
      BY <1>0, <1>3, <2>0, StartsCalmly
  <2>2. S \subseteq Proof
      BY <2>1 DEF Having, TaskTrue
  <2>3. /\ \A p \in S : AtMintNow(p) =>
                \/ p \in X /\ Cursed(T, X)
                \/ /\ disk[p].tx \in Transfer /\ Standing(disk[p].tx)
                   /\ p \in quote[disk[p].tx].inputs /\ quote[disk[p].tx].inputs \subseteq S
        /\ \A p \in S \cap X : s = "PENDING" =>
                /\ disk[p].state = "PENDING"
                /\ LockedBy(p, T) /\ Threat(T) => X \subseteq S
        /\ \A p \in S, t \in Transfer :
                Standing(t) /\ p \in quote[t].inputs /\ LockedBy(p, t) => quote[t].inputs \subseteq S
        /\ s = "UNSPENT" => \A p \in S : disk[p].state = "UNSPENT"
    <3>1. BatchFits(S, s, T, X)
        BY <2>1, BatchStarts
    <3> QED
        BY <3>1 DEF BatchFits
  <2>4. Threat(T)' => Threat(T)
      BY <1>0, ThreatStays
  <2>5. \A p : AtMintNow(p)' <=> AtMintNow(p)
      BY <2>1 DEF AtMintNow, Standing
  <2>6. \A p \in X : AtMintNow(p) /\ Cursed(T, X) => Cursed(T, X)'
      BY <2>5, CursedStays
  <2>7. ASSUME NEW p \in S, AtMintNow(p)'
        PROVE  \/ p \in X /\ Cursed(T, X)'
               \/ /\ disk'[p].tx \in Transfer /\ quote'[disk'[p].tx].state # "UNPAID"
                  /\ p \in quote'[disk'[p].tx].inputs /\ quote'[disk'[p].tx].inputs \subseteq S
      BY <2>1, <2>2, <2>3, <2>5, <2>6, <2>7 DEF Standing
  <2>8. ASSUME NEW p \in S \cap X, s = "PENDING"
        PROVE  /\ disk'[p] # Held("UNSPENT", T)
               /\ disk'[p] = Held("PENDING", T) /\ Threat(T)' => X \subseteq S
      BY <1>h, <2>1, <2>2, <2>3, <2>4, <2>8 DEF LockedBy
  <2>9. ASSUME NEW p \in S, NEW t \in Transfer, quote'[t].state # "UNPAID", p \in quote'[t].inputs, disk'[p] = Held("PENDING", t)
        PROVE  quote'[t].inputs \subseteq S
      BY <2>1, <2>2, <2>3, <2>9 DEF LockedBy, Standing
  <2>10. s = "UNSPENT" => \A p \in S : disk'[p].state = "UNSPENT"
      BY <2>1, <2>2, <2>3
  <2> HIDE DEF Always, AInv
  <2> QED
      BY <2>0, <2>7, <2>8, <2>9, <2>10 DEF ScarBatch, Standing, LockedBy, Held
<1> QED
    BY <1>1, <1>2, <1>3

\* The answer of the mint about a batch.
LEMMA CheckTells ==
    ASSUME NEW T, NEW X, Always, Scar(T, X), Check
    PROVE  ScarSync(T, X)'
<1> USE DEF Always, AInv
<1>h. \A a, u : Held(a, u).state = a /\ Held(a, u).tx = u
    BY RecIs
<1>0. /\ X \subseteq Proof /\ sync.batch \subseteq Proof /\ (X # {} => T \in Transfer) /\ sync.pc = "check"
      /\ UNCHANGED <<disk, job, net, quote, mintSpent>>
    BY DEF Scar, ScarTyped, SyncTrue, Check, storeVars, mintVars
<1> DEFINE Sp == sync.batch \cap mintSpent
           Pe == sync.batch \cap HeldAtMint
           Un == sync.batch \ (Sp \cup Pe)
<1>1. /\ sync'.pc = "move" /\ sync'.spent = Sp /\ sync'.pend = Pe /\ sync'.batch = sync.batch /\ sync'.from = sync.from
    BY DEF Check, SyncTrue
<1>2. ASSUME NEW p \in Sp \cup Pe PROVE AtMintNow(p)
    BY DEF HeldAtMint, AtMint, AtMintNow, Standing
<1>r. \A t : (Pursued(t) <=> Requested(t)) /\ (Requested(t) => t = T)
    BY <1>0, SyncPursues
<1>s. \A t \in Transfer : /\ Standing(t) => ~Requested(t) /\ Taken(t)
                          /\ t # T => Sound(t) /\ ~Pursued(t)
    BY <1>r DEF MintTrue, RequestsTrue, Requested, Scar, ScarQuote
<1>c. Cursed(T, X) => ~Requested(T)
    BY <1>0, <1>s, SyncPursues DEF Cursed
<1>x. T \in Transfer /\ Taken(T) => quote[T].inputs = X
    BY DEF Scar, ScarTyped
<1>3. ASSUME NEW p \in Sp \cup Pe
      PROVE  \/ p \in X /\ Cursed(T, X)
             \/ /\ disk[p].tx \in Transfer \ {T} /\ Standing(disk[p].tx)
                /\ p \in quote[disk[p].tx].inputs /\ quote[disk[p].tx].inputs \subseteq sync.batch
  <2>1. \/ p \in X /\ Cursed(T, X)
        \/ /\ disk[p].tx \in Transfer /\ Standing(disk[p].tx)
           /\ p \in quote[disk[p].tx].inputs /\ quote[disk[p].tx].inputs \subseteq sync.batch
      BY <1>0, <1>2 DEF Scar, ScarBatch
  <2>2. disk[p].tx = T /\ T \in Transfer /\ Standing(T) /\ p \in quote[T].inputs => p \in X /\ Cursed(T, X)
      BY <1>s, <1>x DEF Cursed
  <2> QED
      BY <2>1, <2>2
<1>4. \A p \in Un : ~AtMintNow(p)
  <2> SUFFICES ASSUME NEW p \in Un, AtMintNow(p) PROVE FALSE
      OBVIOUS
  <2>1. PICK t \in Transfer : Standing(t) /\ p \in quote[t].inputs /\ p \notin mintSpent
      BY DEF AtMintNow
  <2>2. quote[t].state = "PENDING"
      BY <2>1 DEF MintTrue, Answers, Standing
  <2> QED
      BY <2>1, <2>2 DEF HeldAtMint, AtMint
<1>5. ASSUME NEW p \in Sp \cap X, Cursed(T, X) PROVE X \subseteq mintSpent
  <2>1. CASE T \in Transfer /\ Standing(T)
    <3>1. quote[T].inputs = X
        BY <1>s, <1>x, <2>1
    <3> QED
        BY <2>1, <3>1 DEF MintTrue
  <2>2. CASE ~(T \in Transfer /\ Standing(T))
      BY <1>5, <2>2 DEF Cursed
  <2> QED
      BY <2>1, <2>2
<1>6. (Clean \/ Dirty(T, X))'
  <2>1. CASE \E p \in Sp : p \in X /\ Cursed(T, X)
    <3>1. X \subseteq mintSpent /\ ~Requested(T)
        BY <1>5, <1>c, <2>1
    <3>2. Un \cap X = {} /\ Un \cap mintSpent = {} /\ \A t \in Transfer : Standing(t) => Un \cap quote[t].inputs = {}
        BY <1>4, <3>1 DEF AtMintNow
    <3>3. Unseen' = Un
        BY <1>1 DEF Unseen
    <3>4. Dirty(T, X)'
        BY <1>0, <3>1, <3>2, <3>3 DEF Dirty, Requested, Standing
    <3> QED
        BY <3>4
  <2>2. CASE ~\E p \in Sp : p \in X /\ Cursed(T, X)
    <3>1. ASSUME NEW p \in Sp, NEW t, t = disk[p].tx
          PROVE  t \in Transfer /\ Sound(t) /\ Standing(t) /\ p \in quote[t].inputs /\ quote[t].inputs \subseteq Sp
      <4>1. t \in Transfer \ {T} /\ Standing(t) /\ p \in quote[t].inputs /\ quote[t].inputs \subseteq sync.batch
          BY <1>3, <2>2, <3>1
      <4>2. quote[t].inputs \subseteq mintSpent
          BY <4>1 DEF MintTrue
      <4> QED
          BY <1>s, <4>1, <4>2
    <3>2. Clean'
        BY <1>0, <1>1, <3>1 DEF Clean, Sound, Standing
    <3> QED
        BY <3>2
  <2> QED
      BY <2>1, <2>2
<1>7. ASSUME sync.from = "PENDING", NEW p \in Sp \cup Pe, NEW t \in Transfer, disk[p].tx = t PROVE Settled(t)
  <2>1. CASE t # T
      BY <1>s, <2>1 DEF Settled
  <2>2. CASE t = T
    <3>1. p \in X /\ Cursed(T, X) /\ p \in sync.batch /\ p \in Proof
        BY <1>0, <1>3, <1>7, <2>2
    <3>2. ~Pursued(T)
        BY <1>c, <1>r, <3>1
    <3>3. ASSUME Standing(T), NEW r \in quote[T].inputs PROVE disk[r].tx = T /\ disk[r].state \in {"PENDING", "SPENT"}
      <4>1. Threat(T) /\ r \in X
          BY <1>s, <1>x, <2>2, <3>3 DEF Threat
      <4>2. disk[p].state # "UNSPENT"
        <5>1. disk[p] # Held("UNSPENT", T)
            BY <1>0, <1>7, <3>1, <4>1 DEF Scar, ScarBatch
        <5> QED
            BY <1>7, <2>2, <3>1, <5>1, RecIs, NoTxAssumption DEF StoreTrue
      <4>3. disk[r] = disk[p]
          BY <1>7, <2>2, <3>1, <4>1, <4>2 DEF Scar, ScarWhole
      <4>4. disk[p].state \in {"PENDING", "SPENT"}
          BY <1>0, <3>1, <4>2, RecIs DEF OutputsTrue, StoreTrue, ProofState
      <4> QED
          BY <1>7, <2>2, <4>3, <4>4
    <3> QED
        BY <2>2, <3>2, <3>3 DEF Settled, Sound
  <2> QED
      BY <2>1, <2>2
<1>8. ASSUME sync.from = "UNSPENT", NEW p \in Sp \cup Pe PROVE disk[p].state = "UNSPENT" /\ p \in X /\ ~Pursued(T)
  <2>1. disk[p].state = "UNSPENT"
      BY <1>0, <1>8 DEF Scar, ScarBatch
  <2>2. p \in X /\ Cursed(T, X)
      BY <1>3, <1>s, <2>1 DEF Sound
  <2> QED
      BY <1>c, <1>r, <2>1, <2>2
<1>9. ASSUME NEW p \in Sp, NEW t \in Transfer, Standing(t), p \in quote[t].inputs, LockedBy(p, t) PROVE quote[t].inputs \subseteq Sp
    BY <1>0, <1>9 DEF Scar, ScarBatch, MintTrue
<1>10. ASSUME NEW p \in Sp, p \in X, LockedBy(p, T), Threat(T) PROVE X \subseteq Sp
  <2>1. sync.from = "PENDING"
      BY <1>h, <1>8, <1>10 DEF SyncTrue, LockedBy
  <2>2. X \subseteq sync.batch
      BY <1>0, <1>10, <2>1 DEF Scar, ScarBatch
  <2>3. disk[p].tx = T
      BY <1>h, <1>10 DEF LockedBy
  <2>4. Cursed(T, X)
      BY <1>3, <1>10, <2>3
  <2> QED
      BY <1>5, <1>10, <2>2, <2>4
<1>11. Seen' = Sp \cup Pe
    BY <1>1 DEF Seen
<1>12. ASSUME sync.from = "PENDING", NEW p \in Sp \cup Pe, NEW t, t = disk[p].tx PROVE Calm(t)'
    BY <1>0, <1>7, <1>12 DEF Calm, Settled, Pursued, Requested, Sound, Standing
<1>13. (sync.from = "PENDING" => \A p \in Seen : Calm(disk[p].tx))'
    BY <1>0, <1>1, <1>11, <1>12
<1>14. (sync.from = "UNSPENT" => \A p \in Seen : disk[p].state = "UNSPENT" /\ p \in X /\ ~Pursued(T))'
    BY <1>0, <1>1, <1>8, <1>11 DEF Pursued, Requested
<1>15. (\A p \in sync.spent :
              /\ \A t \in Transfer :
                    Standing(t) /\ p \in quote[t].inputs /\ LockedBy(p, t) => quote[t].inputs \subseteq sync.spent
              /\ p \in X /\ LockedBy(p, T) /\ Threat(T) => X \subseteq sync.spent)'
    BY <1>0, <1>1, <1>9, <1>10 DEF Standing, LockedBy, Threat, Pursued, Requested
<1> HIDE DEF Always, AInv
<1> QED
    BY <1>6, <1>13, <1>14, <1>15 DEF ScarSync

\* A sync that may release a short payment touches nothing of the lost call for as long as it may.
LEMMA DirtyStays ==
    ASSUME NEW T, NEW X, Always, Scar(T, X), Lives, Dirty(T, X), sync.pc # "idle", Unseen' = Unseen
    PROVE  Dirty(T, X)'
<1>0. Always' /\ X \subseteq Proof /\ Unseen \subseteq Proof
    BY AllStep DEF Next, Lives, Scar, ScarTyped, Always, AInv, SyncTrue, Unseen
<1>1. ~Requested(T)'
  <2>1. CASE T \in Transfer
      BY <2>1, MintFacts, SyncIsAlone DEF Always, AInv, Dirty
  <2>2. CASE T \notin Transfer
    <3>1. net' \subseteq [tx : Transfer, inputs : SUBSET Proof, blank : SUBSET Proof]
        BY <1>0 DEF Always, AInv, RequestsTrue
    <3> QED
        BY <2>2, <3>1 DEF Requested
  <2> QED
      BY <2>1, <2>2
<1>2. \A q \in net : q.tx # T
    BY DEF Dirty, Requested
<1>3. \A q \in net : q.tx = T
    BY SyncPursues
<1>4. ASSUME NEW p \in Unseen, AtMintNow(p)' PROVE FALSE
  <2>1. ~AtMintNow(p)
      BY DEF Dirty, AtMintNow
  <2>2. ~MintSwaps
      BY SyncIsAlone DEF Always, AInv
  <2> QED
      BY <1>0, <1>2, <1>3, <1>4, <2>1, <2>2, Arrives
<1>5. Unseen' \cap mintSpent' = {} /\ \A t \in Transfer : quote'[t].state # "UNPAID" => Unseen' \cap quote'[t].inputs = {}
    BY <1>4 DEF AtMintNow, Standing
<1>6. Unseen \cap X = {}
    BY DEF Dirty
<1> QED
    BY <1>1, <1>5, <1>6 DEF Dirty, Standing

\* What the mint said is spent and paid with stays so until it is written off.
LEMMA CleanStays ==
    ASSUME NEW T, NEW X, Always, Scar(T, X), Lives, Clean, sync.pc = "move",
           NEW p \in sync.spent, NEW t, t = disk'[p].tx
    PROVE  t \in Transfer /\ Sound(t)' /\ Standing(t)' /\ p \in quote'[t].inputs /\ quote'[t].inputs \subseteq sync.spent
<1>1. PICK u : u = disk[p].tx
    OBVIOUS
<1>2. u \in Transfer /\ Sound(u) /\ Standing(u) /\ p \in quote[u].inputs /\ quote[u].inputs \subseteq sync.spent
    BY <1>1 DEF Clean
<1>3. Taken(u) /\ ~Requested(u) /\ Settled(u)
  <2>1. Taken(u)
      BY <1>2 DEF Always, AInv, MintTrue
  <2>2. ~Requested(u)
      BY <2>1 DEF Always, AInv, RequestsTrue, Requested
  <2>3. ~Pursued(u)
      BY <2>2, SyncPursues
  <2> QED
      BY <1>2, <2>1, <2>2, <2>3 DEF Settled
<1>4. Settled(u)' /\ (disk'[p] = disk[p] \/ disk'[p] = Held("SPENT", disk[p].tx))
    BY <1>2, <1>3, SoundStays
<1>5. t = u
    BY <1>1, <1>4, RecIs
<1>6. quote'[u].inputs = quote[u].inputs /\ mintSpent \subseteq mintSpent' /\ p \in mintSpent /\ p \in Proof
    BY <1>2, <1>3, MintStands DEF Always, AInv, SyncTrue
<1>7. quote'[u].state # "UNPAID"
  <2> SUFFICES ASSUME quote'[u].state = "UNPAID" PROVE FALSE
      OBVIOUS
  <2>1. ~AtMintNow(p)'
      BY <1>2, LetGo
  <2> QED
      BY <1>6, <2>1 DEF AtMintNow
<1> QED
    BY <1>2, <1>4, <1>5, <1>6, <1>7 DEF Settled, Standing

\* The owners of what a sync has seen stay calm until it writes.
LEMMA CalmStays ==
    ASSUME NEW T, NEW X, Always, Scar(T, X), Lives, sync.pc \in {"move", "settle", "settling"},
           sync.from = "PENDING", NEW p \in Seen, NEW t, t = disk'[p].tx
    PROVE  Calm(t)'
<1>h. \A a, u : Held(a, u).state = a /\ Held(a, u).tx = u
    BY RecIs
<1>0. p \in Proof /\ disk[p] # Absent
  <2>1. p \in sync.batch /\ sync.batch \subseteq Proof
      BY DEF Seen, Always, AInv, SyncTrue
  <2> QED
      BY <2>1 DEF Always, AInv, OutputsTrue
<1>1. t \in Transfer => Settled(t)
  <2>1. Calm(disk[p].tx)
      BY DEF Scar, ScarSync
  <2>2. disk'[p].tx = disk[p].tx \/ \E w \in Worker : visit[w].pc = "settle" /\ visit[w].mode # "recover" /\ disk'[p].tx = visit[w].tx
    <3>1. Effect(p)
        BY <1>0, Effects
    <3>2. /\ ~Select /\ ~Lock /\ ~CommitSwap /\ ~GivingBack /\ ~SettlePaid /\ ~SettlePending
        BY SyncIsAlone DEF GivingBack, Always, AInv
    <3> QED
        BY <1>h, <1>0, <3>1, <3>2 DEF Effect, LockedBy, SettleVisit
  <2>3. \A w \in Worker : visit[w].pc = "settle" /\ visit[w].mode # "recover" => Settled(visit[w].tx)
      BY DEF Scar, ScarVisit, Working
  <2> QED
      BY <2>1, <2>2, <2>3 DEF Calm
<1>2. t \in Transfer => Settled(t)'
    BY <1>1, SoundStays
<1> QED
    BY <1>2 DEF Calm

\* Ecash that a sync of the spendable found gone is the lost call's, and nobody asks for it any more.
LEMMA SpareSeen ==
    ASSUME NEW T, NEW X, Always, Scar(T, X), Lives, sync.pc \in {"move", "settle", "settling"}, ~Register,
           sync.from = "UNSPENT", NEW p \in Seen, WriteOff => p \notin sync.spent
    PROVE  disk'[p].state = "UNSPENT" /\ p \in X /\ ~Pursued(T)'
<1>1. disk[p].state = "UNSPENT" /\ p \in X /\ ~Pursued(T)
    BY DEF Scar, ScarSync
<1>2. p \in Proof /\ T \in Transfer /\ Begun(T)
    BY <1>1 DEF Scar, ScarTyped
<1>3. disk'[p].state = "UNSPENT"
    BY <1>1, <1>2, SpareStays
<1>4. ~Pursued(T)'
    BY <1>1, <1>2, PursuedIs
<1> QED
    BY <1>1, <1>3, <1>4

\* What a sync writes off are whole melts.
LEMMA WholeMoves ==
    ASSUME NEW T, NEW X, Always, Scar(T, X), Lives, sync.pc = "move", NEW p \in sync.spent
    PROVE  /\ \A t \in Transfer :
                quote'[t].state # "UNPAID" /\ p \in quote'[t].inputs /\ disk'[p] = Held("PENDING", t)
                    => quote'[t].inputs \subseteq sync.spent
           /\ p \in X /\ disk'[p] = Held("PENDING", T) /\ Threat(T)' => X \subseteq sync.spent
<1>0. p \in Proof /\ p \in mintSpent
    BY DEF Always, AInv, SyncTrue
<1>1. ASSUME NEW t, disk'[p] = Held("PENDING", t) PROVE LockedBy(p, t)
  <2>1. ~Select /\ ~Lock /\ ~CommitSwap
      BY SyncIsAlone DEF Always, AInv
  <2>2. ~Register
      BY DEF Register
  <2> QED
      BY <1>0, <1>1, <2>1, <2>2, LockedFrom
<1>2. ASSUME NEW t \in Transfer, quote'[t].state # "UNPAID", p \in quote'[t].inputs, LockedBy(p, t)
      PROVE quote'[t].inputs \subseteq sync.spent
  <2>1. Taken(t)
    <3>1. Taken(t) \/ \E q \in net : q.tx = t /\ TakeMelt(q) /\ quote'[t].inputs = q.inputs
        BY <1>2, MintStands
    <3>2. ASSUME NEW q \in net, TakeMelt(q) PROVE p \notin q.inputs
        BY <1>0, <3>2, TakenIs
    <3> QED
        BY <1>2, <3>1, <3>2
  <2>2. quote'[t].inputs = quote[t].inputs
      BY <2>1, MintStands
  <2>3. Standing(t)
      BY <1>2, <2>1, MintFacts DEF Standing, Always, AInv
  <2> QED
      BY <1>2, <2>2, <2>3 DEF Scar, ScarSync
<1>3. ASSUME p \in X, LockedBy(p, T), Threat(T)' PROVE X \subseteq sync.spent
    BY <1>3, ThreatStays DEF Scar, ScarSync
<1> QED
    BY <1>1, <1>2, <1>3

\* A payment the mint has taken, and whose ecash is all in the batch, is not short.
LEMMA NothingShort ==
    ASSUME NEW T, NEW X, Always, Scar(T, X), Lives, Clean, WriteOff
    PROVE  sync'.short = {}
<1>0. sync.pc = "move" /\ sync.spent \subseteq Live /\ sync.spent \subseteq Proof
    BY DEF WriteOff, MoveToSpent, Live, Always, AInv, SyncTrue
<1>1. \A p \in sync.spent : mem[p] = disk[p]
  <2>1. phase # "loading"
      BY <1>0, IdleIs DEF Always, AInv, TaskTrue
  <2> QED
      BY <1>0, <2>1 DEF Scar, ScarTyped, Live
<1>2. sync'.short = {t \in OwnersOf(sync.spent) : Worth({p \in sync.spent : mem[p].tx = t}) < Total(t)}
    BY DEF WriteOff, Always, AInv, SyncTrue
<1>3. ASSUME NEW t \in OwnersOf(sync.spent) PROVE ~(Worth({p \in sync.spent : mem[p].tx = t}) < Total(t))
  <2>1. PICK p \in sync.spent : mem[p].tx = t
      BY DEF OwnersOf
  <2>2. t \in Transfer /\ Sound(t) /\ Standing(t) /\ quote[t].inputs \subseteq sync.spent
      BY <1>0, <1>1, <2>1 DEF Clean
  <2> DEFINE S == {r \in sync.spent : mem[r].tx = t}
  <2>3. quote[t].inputs \subseteq S /\ S \subseteq Proof
      BY <1>0, <1>1, <2>2 DEF Sound
  <2>4. Worth(quote[t].inputs) >= Need[t] /\ Worth(quote[t].inputs) \in Nat /\ Worth(S) \in Nat
      BY <1>0, <2>2, <2>3, WorthGrows DEF Always, AInv, MintTrue, EnoughTrue
  <2>5. Worth(quote[t].inputs) <= Worth(S)
      BY <2>3, WorthGrows
  <2>6. Total(t) = Amount[t] /\ Amount[t] \in Nat /\ Need[t] \in Nat /\ Amount[t] <= Need[t]
      BY <2>2, TransferAssumptions, ValueAssumptions DEF Total
  <2> HIDE DEF S
  <2>7. ~(Worth(S) < Total(t))
      BY <2>4, <2>5, <2>6
  <2> QED
      BY <2>7 DEF S
<1> QED
    BY <1>2, <1>3

\* A gentle step keeps what the sync carries from the mint's answer to its writes.
LEMMA ScarSyncKept ==
    ASSUME NEW T, NEW X, Always, Scar(T, X), Gentle(T, X)
    PROVE  ScarSync(T, X)'
<1>0. Lives
    BY DEF Gentle
<1> SUFFICES ASSUME sync'.pc \in {"move", "settle", "settling"} PROVE ScarSync(T, X)'
    BY DEF ScarSync
<1>1. CASE Check
    BY <1>1, CheckTells
<1>2. CASE ~Check
  <2>1. \/ UNCHANGED sync
        \/ sync.pc = "move" /\ WriteOff
        \/ sync.pc \in {"settle", "settling"} /\ (Dispatched \/ \E t \in Tx : SettleShort(t) \/ SkipSettled(t) \/ Dispatch(t))
    <3>1. TaskTrue /\ SyncTrue
        BY DEF Always, AInv
    <3>2. (JudgeUnpaid \/ NestedDone \/ \E s \in {"PENDING", "UNSPENT"} : SyncAll(s)) /\ sync.pc = "idle" => sync' = sync \/ sync'.pc = "check"
        BY <3>1 DEF JudgeUnpaid, NestedDone, SyncAll, StartSync, IdleSync
    <3>3. ~(sync.pc = "check" /\ CheckFails) /\ (sync.pc = "settle" /\ Register => sync'.pc \in {"gone", "mark"})
        BY <3>1 DEF Gentle, Register, SyncTrue
    <3>4. /\ sync.pc = "mark" /\ MarkPending => sync'.pc = "gone"
          /\ sync.pc = "gone" /\ Unregister => sync'.pc = "refresh"
          /\ sync.pc = "refresh" => (Synced => sync'.pc = "idle") /\ \A t \in Tx : RefreshGone(t) => sync'.pc = "refreshing"
          /\ sync.pc = "refreshing" /\ GoneRefreshed => sync'.pc = "refresh"
        BY <3>1, IdleIs DEF MarkPending, Unregister, Synced, RefreshGone, GoneRefreshed, SyncTrue
    <3> QED
        BY <1>0, <1>2, <3>1, <3>2, <3>3, <3>4, SyncAt
  <2>2. /\ sync'.batch = sync.batch /\ sync'.spent = sync.spent /\ sync'.pend = sync.pend /\ sync'.from = sync.from
        /\ sync.pc \in {"move", "settle", "settling"} /\ sync.pc # "idle"
        /\ (sync'.pc = "move" => sync.pc = "move" /\ UNCHANGED sync)
        /\ (~WriteOff => sync'.short = sync.short /\ (sync.pc = "move" => sync'.pc = "move"))
        /\ (WriteOff => sync'.pc = "settle")
      BY <2>1 DEF Always, AInv, SyncTrue, WriteOff, Dispatched, SettleShort, SkipSettled, Dispatch
  <2>3. ~Register
      BY <2>2 DEF Register, Always, AInv, SyncTrue
  <2>4. Unseen' = Unseen /\ Seen' \subseteq Seen
      BY <2>2 DEF Unseen, Seen
  <2>5. (Clean \/ Dirty(T, X))'
    <3>1. CASE Dirty(T, X)
        BY <1>0, <2>2, <2>4, <3>1, DirtyStays
    <3>2. CASE Clean
      <4>1. CASE WriteOff
        <5>1. sync'.short = {}
            BY <1>0, <3>2, <4>1, NothingShort
        <5> QED
            BY <2>2, <4>1, <5>1 DEF Clean
      <4>2. CASE ~WriteOff /\ sync'.pc = "move"
        <5>1. \A p \in sync.spent : \A t : t = disk'[p].tx =>
                   t \in Transfer /\ Sound(t)' /\ Standing(t)' /\ p \in quote'[t].inputs /\ quote'[t].inputs \subseteq sync.spent
            BY <1>0, <2>2, <3>2, <4>2, CleanStays
        <5> QED
            BY <2>2, <4>2, <5>1 DEF Clean
      <4>3. CASE ~WriteOff /\ sync'.pc # "move"
          BY <2>2, <3>2, <4>3 DEF Clean
      <4> QED
          BY <4>1, <4>2, <4>3
    <3> QED
        BY <2>2, <3>1, <3>2 DEF Scar, ScarSync
  <2>6. (sync.from = "PENDING" => \A p \in Seen : Calm(disk[p].tx))'
    <3>1. \A p \in Seen : \A t : sync.from = "PENDING" /\ t = disk'[p].tx => Calm(t)'
        BY <1>0, <2>2, CalmStays
    <3> QED
        BY <2>2, <2>4, <3>1
  <2>7. (sync.from = "UNSPENT" => \A p \in Seen : disk[p].state = "UNSPENT" /\ p \in X /\ ~Pursued(T))'
    <3>1. ASSUME NEW p \in Seen', sync.from = "UNSPENT" PROVE disk'[p].state = "UNSPENT" /\ p \in X /\ ~Pursued(T)'
      <4>1. WriteOff => p \notin sync.spent
          BY <2>2 DEF Seen, Always, AInv, SyncTrue
      <4> QED
          BY <1>0, <2>2, <2>3, <2>4, <3>1, <4>1, SpareSeen
    <3> QED
        BY <2>2, <3>1
  <2>8. (sync.pc = "move" => \A p \in sync.spent :
              /\ \A t \in Transfer :
                    Standing(t) /\ p \in quote[t].inputs /\ LockedBy(p, t) => quote[t].inputs \subseteq sync.spent
              /\ p \in X /\ LockedBy(p, T) /\ Threat(T) => X \subseteq sync.spent)'
    <3>1. sync'.pc = "move" => \A p \in sync.spent :
           /\ \A t \in Transfer :
                quote'[t].state # "UNPAID" /\ p \in quote'[t].inputs /\ disk'[p] = Held("PENDING", t)
                    => quote'[t].inputs \subseteq sync.spent
           /\ p \in X /\ disk'[p] = Held("PENDING", T) /\ Threat(T)' => X \subseteq sync.spent
        BY <1>0, <2>2, WholeMoves
    <3> QED
        BY <2>2, <3>1 DEF Standing, LockedBy, Held
  <2> QED
      BY <2>5, <2>6, <2>7, <2>8 DEF ScarSync
<1> QED
    BY <1>1, <1>2

------------------------------------------------------------------------------
(* The scar stands, and a restart finds it.                                *)

\* All together: a gentle step keeps the scar.
LEMMA ScarStep ==
    ASSUME NEW T, NEW X, Always, Scar(T, X), Gentle(T, X)
    PROVE  Scar(T, X)'
<1>0. Lives
    BY DEF Gentle
<1>1. ScarTyped(T, X)' /\ ScarDown(T, X)' /\ ScarTask(T, X)' /\ ScarStatus'
    BY <1>0, ScarTypedKept, ScarDownKept, ScarTaskKept, ScarStatusKept
<1>2. \A w \in Worker : ScarVisit(visit[w], T, X)'
    BY ScarVisitKept
<1>3. ScarBatch(T, X)' /\ ScarSync(T, X)' /\ ScarOwners'
    BY <1>0, ScarBatchKept, ScarSyncKept, ScarOwnersKept
<1>4. ScarLock(T, X)' /\ ScarWhole(T, X)'
    BY ScarLockKept, ScarWholeKept
<1>5. \A p \in Proof : ScarProof(p, T, X)'
    BY ScarProofKept
<1>6. \A t \in Transfer : ScarQuote(t, T)'
    BY <1>0, ScarQuoteKept
<1> QED
    BY <1>1, <1>2, <1>3, <1>4, <1>5, <1>6 DEF Scar

\* A gentle step keeps the scar; the task of the lost call does not get to swap again.
LEMMA ScarredStep ==
    ASSUME NEW T, NEW X, Always, Scarred(T, X), Gentle(T, X)
    PROVE  Scarred(T, X)'
<1>0. Lives /\ Scar(T, X) /\ IInv /\ TaskTrue /\ SyncTrue
    BY DEF Gentle, Scarred, Always, AInv
<1>1. Scar(T, X)'
    BY <1>0, ScarStep
<1>2. ASSUME job'.tx = T, job'.pc = "swap" PROVE FALSE
  <2>1. CASE Select
    <3>1. job.pc = "select" /\ job'.tx = job.tx
        BY <1>0, <2>1, SelectIs
    <3> QED
        BY <1>0, <1>2, <3>1 DEF Scar, ScarTask
  <2>2. CASE ~Select
    <3>1. job.pc = "swap"
        BY <1>0, <1>2, <2>2, SwapCameFrom
    <3>2. job'.tx = job.tx
        BY <1>0, <1>2, <2>2, JobHolds DEF Holding
    <3> QED
        BY <1>2, <3>1, <3>2 DEF Scarred
  <2> QED
      BY <2>1, <2>2
<1> QED
    BY <1>1, <1>2 DEF Scarred

\* Nothing works on anything.
Dead == job = IdleJob /\ sync = IdleSync /\ \A w \in Worker : visit[w] = NoVisit

\* Without a worker only the store, the mint and the statuses matter.
ScarDead(T, X) ==
    /\ ScarTyped(T, X) /\ ScarDown(T, X) /\ ScarStatus
    /\ \A q \in net : q.tx = T /\ q.inputs = X
    /\ (\A p \in Proof : ScarProof(p, T, X)) /\ (\A t \in Transfer : ScarQuote(t, T))
    /\ ScarWhole(T, X)

\* With nothing running, the scar is what it says of the disk and of the mint.
LEMMA DeadScar ==
    ASSUME NEW T, NEW X, Dead', ScarDead(T, X)'
    PROVE  Scarred(T, X)'
<1>0. /\ job'.pc = "idle" /\ sync'.pc = "idle" /\ \A w \in Worker : visit'[w].pc = "none"
    BY IdleIs DEF Dead
<1>1. ScarTask(T, X)'
    BY <1>0 DEF ScarTask, ScarDead, Holding
<1>2. \A w \in Worker : ScarVisit(visit[w], T, X)'
    BY <1>0 DEF ScarVisit, Working
<1>3. ScarBatch(T, X)' /\ ScarSync(T, X)' /\ ScarOwners'
    BY <1>0 DEF ScarBatch, ScarSync, ScarOwners
<1>4. ScarLock(T, X)'
    BY <1>0 DEF ScarLock, WithRow, Holding
<1> QED
    BY <1>0, <1>1, <1>2, <1>3, <1>4 DEF Scarred, Scar, ScarDead

\* A step that changes nothing keeps the scar.
LEMMA ScarredStands ==
    ASSUME NEW T, NEW X, Scarred(T, X), UNCHANGED vars
    PROVE  Scarred(T, X)'
BY DEF vars, transferVars, storeVars, mintVars, queueVars, Scarred, Scar, ScarTyped, ScarDown, ScarTask, ScarStatus,
       ScarVisit, ScarBatch, ScarSync, ScarOwners, ScarLock, ScarProof, ScarQuote, ScarWhole, Own, Swapping, Seen, Unseen,
       Clean, Dirty, Calm, Settled, Sound, Pursued, Requested, Standing, Taken, Threat, Cursed, Late, AtMintNow, LockedBy,
       Gone, Begun

\* A restart loads the table and gives back what a row has locked.
LEMMA LoadScar ==
    ASSUME NEW T, NEW X, Always, Scarred(T, X), Load
    PROVE  Scarred(T, X)'
<1> USE DEF Load, LoadProofs
<1>1. Dead' /\ phase = "loading" /\ phase' = "recovering"
    BY DEF Dead, Always, AInv, TaskTrue, queueVars
<1>2. UNCHANGED <<disk, rows, status, quote, mintSpent, net, job, sync, visit>>
    BY DEF queueVars, mintVars
<1>3. \A p \in Proof : mem'[p] = disk[p] \/ (disk[p].state = "SPENT" /\ mem'[p] = Absent)
    BY RecIs DEF Always, AInv, StoreTrue, ProofState
<1>4. ScarTyped(T, X)' /\ ScarDown(T, X)'
    BY <1>1, <1>2, <1>3 DEF Scarred, Scar, ScarTyped, ScarDown, Taken, Begun, LockedBy
<1>5. ScarStatus' /\ ScarWhole(T, X)'
    BY <1>2 DEF Scarred, Scar, ScarStatus, ScarWhole, Settled, Sound, Pursued, Requested, Standing, Gone, Threat
<1>6. \A q \in net' : q.tx = T /\ q.inputs = X
    BY <1>1, <1>2, IdleIs DEF Dead, Scarred, Scar, ScarTask
<1>7. \A p \in Proof : ScarProof(p, T, X)'
    BY <1>2 DEF Scarred, Scar, ScarProof, Own, Swapping, AtMintNow, Standing, Taken, Cursed, Late, Requested, Pursued, LockedBy
<1>8. \A t \in Transfer : ScarQuote(t, T)'
    BY <1>2 DEF Scarred, Scar, ScarQuote, Sound, Standing, LockedBy
<1>9. ScarDead(T, X)'
    BY <1>4, <1>5, <1>6, <1>7, <1>8 DEF ScarDead
<1> QED
    BY <1>1, <1>9, DeadScar

\* Recovery that finishes keeps the scar.
LEMMA RecoveredScar ==
    ASSUME NEW T, NEW X, Always, Scarred(T, X), Recovered
    PROVE  Scarred(T, X)'
<1> USE DEF Recovered
<1>1. Dead' /\ phase = "recovering" /\ phase' = "up"
    BY DEF Dead, Always, AInv, TaskTrue, queueVars
<1>2. UNCHANGED <<disk, mem, rows, status, quote, mintSpent, net, job, sync, visit>>
    BY DEF queueVars, mintVars, storeVars
<1>4. ScarTyped(T, X)' /\ ScarDown(T, X)'
    BY <1>1, <1>2 DEF Scarred, Scar, ScarTyped, ScarDown, Taken, Begun
<1>5. ScarStatus' /\ ScarWhole(T, X)'
    BY <1>2 DEF Scarred, Scar, ScarStatus, ScarWhole, Settled, Sound, Pursued, Requested, Standing, Gone, Threat
<1>6. \A q \in net' : q.tx = T /\ q.inputs = X
    BY <1>1, <1>2, IdleIs DEF Dead, Scarred, Scar, ScarTask
<1>7. \A p \in Proof : ScarProof(p, T, X)'
    BY <1>2 DEF Scarred, Scar, ScarProof, Own, Swapping, AtMintNow, Standing, Taken, Cursed, Late, Requested, Pursued, LockedBy
<1>8. \A t \in Transfer : ScarQuote(t, T)'
    BY <1>2 DEF Scarred, Scar, ScarQuote, Sound, Standing, LockedBy
<1>9. ScarDead(T, X)'
    BY <1>4, <1>5, <1>6, <1>7, <1>8 DEF ScarDead
<1> QED
    BY <1>1, <1>9, DeadScar

\* So does the rollback of an orphaned reservation at startup.
LEMMA OrphanScar ==
    ASSUME NEW T, NEW X, Always, Scarred(T, X), NEW r \in rows, RecoverOrphan(r)
    PROVE  Scarred(T, X)'
<1>h. \A a, u : Held(a, u).state = a /\ Held(a, u).tx = u
    BY RecIs
<1>0. phase = "recovering" /\ Rollback(r) /\ UNCHANGED <<status, quote, mintSpent, net, job, sync, visit, phase>>
    BY DEF RecoverOrphan, transferVars, queueVars, mintVars
<1>1. Dead /\ Dead'
    BY <1>0 DEF Dead, Always, AInv, TaskTrue
<1>2. /\ rows = {r} /\ DOMAIN r.locked = X /\ X \subseteq Proof
      /\ \A p \in X : LockedBy(p, T) /\ (r.locked[p].tx = T => Alone(T, X))
      /\ T \in Transfer => status[T] \notin {"PENDING", "EXPIRING"}
    BY <1>0 DEF Scarred, Scar, ScarDown, ScarTyped
<1>3. \A p \in X : r.locked[p] \in [state : {"UNSPENT"}, tx : Tx] /\ r.locked[p].state = "UNSPENT"
    BY <1>2 DEF Always, AInv, StoreTrue
<1>4. /\ rows' = {}
      /\ \A p \in Proof :
           /\ disk'[p] = IF p \in X THEN r.locked[p] ELSE disk[p]
           /\ mem'[p] = IF p \in X THEN r.locked[p] ELSE mem[p]
  <2>1. Kinded
      BY StoreParts DEF Always, AInv
  <2>2. /\ rows' = rows \ {r}
        /\ \A p \in Proof :
             /\ disk'[p] = IF p \in DOMAIN r.locked /\ disk[p] # Absent THEN r.locked[p] ELSE disk[p]
             /\ mem'[p] = IF p \in DOMAIN r.locked /\ mem[p] # Absent /\ mem[p].state # "SPENT" THEN r.locked[p] ELSE mem[p]
      BY <1>0, <1>2, <1>3, <2>1, RollbackDoes
  <2>3. \A p \in X : disk[p] # Absent /\ disk[p].state = "PENDING"
      BY <1>2, <1>h, RecIs DEF LockedBy
  <2>4. \A p \in X : mem[p] = disk[p]
      BY <1>0, <1>2, <2>3 DEF Scarred, Scar, ScarTyped
  <2> QED
      BY <1>2, <2>2, <2>3, <2>4
<1>5. \A p \in X : disk[p].state = "PENDING" /\ disk[p].tx = T
    BY <1>2, <1>h DEF LockedBy
<1>6. ScarTyped(T, X)' /\ ScarDown(T, X)'
  <2>1. ScarTyped(T, X)'
      BY <1>0, <1>2, <1>4 DEF Scarred, Scar, ScarTyped, Taken, Begun
  <2>2. ScarDown(T, X)'
      BY <1>4 DEF ScarDown
  <2> QED
      BY <2>1, <2>2
<1>q. \A t \in Transfer : quote[t].inputs \subseteq Proof
    BY DEF Always, AInv, MintTrue
<1>7. ScarStatus'
  <2> SUFFICES ASSUME NEW t \in Transfer
               PROVE  /\ status[t] \in {"PENDING", "EXPIRING"} => Settled(t)'
                      /\ status[t] = "REVERTED" => ~Pursued(t) /\ ~Standing(t)
                      /\ status[t] = "COMPLETED" => \A p \in quote[t].inputs : disk'[p].state = "SPENT"
      BY <1>0 DEF ScarStatus, Pursued, Requested, Standing, Gone
  <2>1. ASSUME status[t] \in {"PENDING", "EXPIRING"} PROVE Settled(t)'
    <3>1. Settled(t) /\ t # T
        BY <1>2, <2>1 DEF Scarred, Scar, ScarStatus
    <3>2. ASSUME Standing(t), NEW p \in quote[t].inputs PROVE disk'[p].tx = t /\ disk'[p].state \in {"PENDING", "SPENT"}
      <4>1. disk[p].tx = t /\ disk[p].state \in {"PENDING", "SPENT"}
          BY <3>1, <3>2 DEF Settled, Sound
      <4>2. p \notin X
          BY <1>5, <3>1, <4>1
      <4> QED
          BY <1>4, <1>q, <3>2, <4>1, <4>2
    <3> QED
        BY <1>0, <3>1, <3>2 DEF Settled, Sound, Pursued, Requested, Standing
  <2>2. ASSUME status[t] = "COMPLETED", NEW p \in quote[t].inputs PROVE disk'[p].state = "SPENT"
    <3>1. disk[p].state = "SPENT"
        BY <2>2 DEF Scarred, Scar, ScarStatus, Gone
    <3>2. p \notin X
        BY <1>5, <3>1
    <3> QED
        BY <1>4, <1>q, <2>2, <3>1, <3>2
  <2> QED
      BY <2>1, <2>2 DEF Scarred, Scar, ScarStatus
<1>8. \A q \in net' : q.tx = T /\ q.inputs = X
    BY <1>0, <1>1, IdleIs DEF Dead, Scarred, Scar, ScarTask
<1>9. ASSUME NEW p \in Proof PROVE ScarProof(p, T, X)'
  <2>0. ScarProof(p, T, X) /\ ~Swapping(p) /\ ~Own(p)
      BY <1>1, IdleIs DEF Dead, Scarred, Scar, Swapping, Own, Holding
  <2>1. CASE p \in X
    <3>1. disk'[p].state = "UNSPENT"
        BY <1>3, <1>4, <2>1
    <3>2. AtMintNow(p) => Cursed(T, X)
      <4>1. T \in Transfer
          BY <2>1 DEF Scarred, Scar, ScarTyped
      <4> QED
          BY <1>5, <2>0, <2>1, <4>1 DEF ScarProof, Cursed
    <3>3. (AtMintNow(p)' <=> AtMintNow(p)) /\ (Cursed(T, X) => Cursed(T, X)')
        BY <1>0, <1>1, IdleIs DEF Dead, AtMintNow, Cursed, Standing, Taken, Late, Requested
    <3> QED
        BY <2>1, <3>1, <3>2, <3>3 DEF ScarProof
  <2>2. CASE p \notin X
    <3>1. disk'[p] = disk[p]
        BY <1>4, <2>2
    <3>2. (AtMintNow(p)' <=> AtMintNow(p))
        BY <1>0 DEF AtMintNow, Standing
    <3> QED
        BY <1>0, <2>0, <2>2, <3>1, <3>2 DEF ScarProof, Standing, Taken, Pursued, Requested, LockedBy
  <2> QED
      BY <2>1, <2>2
<1>10. ASSUME NEW t \in Transfer PROVE ScarQuote(t, T)'
  <2>0. ScarQuote(t, T)
      BY DEF Scarred, Scar
  <2>1. ASSUME t # T, Standing(t), NEW p \in quote[t].inputs PROVE disk'[p].tx = t /\ disk'[p].state \in {"PENDING", "SPENT"}
    <3>1. disk[p].tx = t /\ disk[p].state \in {"PENDING", "SPENT"}
        BY <2>0, <2>1 DEF ScarQuote, Sound
    <3>2. p \notin X
        BY <1>5, <2>1, <3>1
    <3> QED
        BY <1>4, <1>q, <2>1, <3>1, <3>2
  <2>2. ASSUME Standing(t), NEW p \in quote[t].inputs, NEW s \in quote[t].inputs, disk'[p] = Held("PENDING", t)
        PROVE  disk'[s] = Held("PENDING", t)
    <3>1. p \notin X
        BY <1>3, <1>4, <1>2, <1>h, <2>2
    <3>2. LockedBy(p, t) /\ LockedBy(s, t)
      <4>1. LockedBy(p, t)
          BY <1>4, <1>q, <2>2, <3>1 DEF LockedBy
      <4> QED
          BY <2>0, <2>2, <4>1 DEF ScarQuote
    <3>3. s \notin X
      <4> SUFFICES ASSUME s \in X PROVE FALSE
          OBVIOUS
      <4>1. t = T
          BY <1>5, <1>h, <3>2 DEF LockedBy
      <4>2. quote[T].inputs = X
          BY <2>2, <4>1 DEF Scarred, Scar, ScarTyped, Taken
      <4> QED
          BY <2>2, <3>1, <4>1, <4>2
    <3> QED
        BY <1>4, <1>q, <2>2, <3>2, <3>3 DEF LockedBy
  <2> QED
      BY <1>0, <2>1, <2>2 DEF ScarQuote, Sound, Standing, LockedBy, Held
<1>11. ScarWhole(T, X)'
  <2> SUFFICES ASSUME NEW p \in X, disk'[p].tx = T PROVE disk'[p].state = "UNSPENT" /\ Alone(T, X)
      BY DEF ScarWhole
  <2> QED
      BY <1>2, <1>3, <1>4
<1>12. ScarDead(T, X)'
    BY <1>6, <1>7, <1>8, <1>9, <1>10, <1>11 DEF ScarDead
<1> QED
    BY <1>1, <1>12, DeadScar

------------------------------------------------------------------------------
(* The loss itself.                                                        *)

\* What the order says once the running task is left out.
MintOrder(T, X) ==
    /\ X \subseteq Proof /\ (T \in Transfer \/ (T = Genesis /\ X = {}))
    /\ T \in Transfer => X \cap Blanks(T) = {} /\ (Taken(T) => quote[T].inputs = X) /\ Begun(T)
    /\ mem = disk
    /\ \A q \in net : q.tx = T /\ q.inputs = X
    /\ \A t \in Transfer : /\ Sound(t)
                           /\ Taken(t) => ~Requested(t)
                           /\ Taken(t) /\ ~Busy(t) => Settled(t)
                           /\ status[t] \in {"PENDING", "EXPIRING"} => Settled(t)
                           /\ status[t] = "REVERTED" => ~Pursued(t) /\ ~Standing(t)
                           /\ status[t] = "COMPLETED" => \A p \in quote[t].inputs : Gone(p)
    /\ \A p \in X : LockedBy(p, T)
    /\ \A p \in Proof :
         /\ disk[p].state \in {"UNSPENT", "PENDING"} /\ AtMintNow(p) =>
              \/ disk[p].tx \in Transfer /\ LockedBy(p, disk[p].tx) /\ p \in quote[disk[p].tx].inputs /\ Standing(disk[p].tx)
              \/ Swapping(p)
         /\ disk[p].state = "PENDING" =>
              \/ Own(p)
              \/ disk[p].tx \in Transfer /\ p \in quote[disk[p].tx].inputs
    /\ \A t \in Transfer : ScarQuote(t, T)
    /\ ScarWhole(T, X)

\* What the order of a wallet that has lost nothing says of the store and the mint.
LEMMA OrderlyMint ==
    ASSUME Always, Orderly, RowsOwn, NEW T, NEW X,
           job.pc \in Holding => T = job.tx /\ X = job.inputs,
           job.pc \notin Holding => T = Genesis /\ X = {}
    PROVE  MintOrder(T, X)
<1> USE DEF Orderly
<1>h. \A a, u : Held(a, u).state = a /\ Held(a, u).tx = u
    BY RecIs
<1>0. mem = disk /\ phase = "up" /\ \A p \in Proof : disk[p] = Held(disk[p].state, disk[p].tx)
    BY Records DEF Typed
<1>1. X \subseteq Proof /\ (T \in Transfer \/ (T = Genesis /\ X = {})) /\ (T \in Transfer => job.pc \in Holding) /\ Genesis \notin Transfer
  <2>1. job.pc \in Holding => job.tx \in Transfer
      BY Known DEF Always, Holding
  <2> QED
      BY <2>1, TransferAssumptions DEF Typed
<1>2. T \in Transfer => X \cap Blanks(T) = {} /\ (Taken(T) => quote[T].inputs = X) /\ Begun(T)
  <2> SUFFICES ASSUME job.pc \in Holding, T = job.tx, X = job.inputs
               PROVE X \cap Blanks(T) = {} /\ (Taken(T) => quote[T].inputs = X) /\ Begun(T)
      BY <1>1
  <2>1. X \cap Blanks(T) = {} /\ Begun(T)
      BY DEF Always, AInv, OutputsTrue, TaskTrue, Begun, Holding
  <2>2. Taken(T) => job.pc \in {"wait", "settle"}
      BY DEF JobOrderly, Holding
  <2> QED
      BY <2>1, <2>2 DEF JobOrderly
<1>3. \A q \in net : q.tx = T /\ q.inputs = X
    BY DEF NetOrderly, Holding
<1>4. \A t \in Transfer : Sound(t)
    BY <1>0 DEF StoreOrderly, EcashOrderly, Sound
<1>5. \A t \in Transfer : Taken(t) => ~Requested(t)
    BY DEF NetOrderly, Requested
<1>6. \A t \in Transfer : Taken(t) /\ ~Busy(t) => Settled(t)
    BY <1>4, <1>5 DEF Settled, Pursued, Busy
<1>7. \A t \in Transfer : /\ status[t] \in {"PENDING", "EXPIRING"} => Settled(t)
                          /\ status[t] = "REVERTED" => ~Pursued(t) /\ ~Standing(t)
                          /\ status[t] = "COMPLETED" => \A p \in quote[t].inputs : Gone(p)
    BY <1>0, <1>5, <1>6 DEF StatusOrderly, RowsOwn, Gone, Settled
<1>8. \A p \in X : LockedBy(p, T)
    BY <1>0 DEF LockOrderly, LockedBy
<1>9. ASSUME NEW p \in Proof
      PROVE  /\ disk[p].state \in {"UNSPENT", "PENDING"} /\ AtMintNow(p) =>
                \/ disk[p].tx \in Transfer /\ LockedBy(p, disk[p].tx) /\ p \in quote[disk[p].tx].inputs /\ Standing(disk[p].tx)
                \/ Swapping(p)
             /\ disk[p].state = "PENDING" =>
                \/ Own(p)
                \/ disk[p].tx \in Transfer /\ p \in quote[disk[p].tx].inputs
  <2>1. ProofOrderly(p)
      BY DEF StoreOrderly
  <2>2. p \in mintSpent /\ disk[p].state \in {"UNSPENT", "PENDING"} =>
           disk[p].state = "PENDING" /\ (Swapping(p) \/ (Melted(p) /\ Standing(disk[p].tx)))
      BY <1>0, <2>1 DEF ProofOrderly
  <2>3. \A t \in Transfer : Standing(t) /\ p \in quote[t].inputs /\ disk[p].state \in {"UNSPENT", "PENDING"} =>
           disk[p].state = "PENDING" /\ disk[p].tx = t
      BY <1>4 DEF Sound
  <2> QED
      BY <1>0, <2>1, <2>2, <2>3 DEF AtMintNow, LockedBy, Melted, ProofOrderly
<1>10. \A t \in Transfer : ScarQuote(t, T)
    BY <1>0, <1>4 DEF ScarQuote, StoreOrderly, EcashOrderly, LockedBy
<1>11. ScarWhole(T, X)
    BY <1>8, <1>h DEF ScarWhole, LockedBy
<1> HIDE DEF Orderly
<1> QED
    BY <1>0, <1>1, <1>2, <1>3, <1>4, <1>5, <1>6, <1>7, <1>8, <1>9, <1>10, <1>11 DEF MintOrder

\* A task that has lost nothing yet, between two awaits.
LEMMA ScarStarts ==
    ASSUME Always, Orderly, RowsOwn, AtAwait, job.pc \in {"swap", "wait", "recheck"}
    PROVE  Scar(job.tx, job.inputs)
<1> DEFINE T == job.tx
           X == job.inputs
<1>h. job.pc \in Holding /\ job.pc \in WithRow /\ job.pc # "idle"
    BY DEF Holding, WithRow
<1> HIDE DEF T, X
<1>0. T = job.tx /\ X = job.inputs
    BY DEF T, X
<1>1. /\ X \subseteq Proof /\ (T \in Transfer \/ (T = Genesis /\ X = {}))
      /\ T \in Transfer => X \cap Blanks(T) = {} /\ (Taken(T) => quote[T].inputs = X) /\ Begun(T)
      /\ mem = disk
      /\ \A q \in net : q.tx = T /\ q.inputs = X
      /\ \A t \in Transfer : /\ Sound(t)
                             /\ Taken(t) /\ ~Busy(t) => Settled(t)
                             /\ status[t] \in {"PENDING", "EXPIRING"} => Settled(t)
                             /\ status[t] = "REVERTED" => ~Pursued(t) /\ ~Standing(t)
                             /\ status[t] = "COMPLETED" => \A p \in quote[t].inputs : Gone(p)
      /\ \A p \in X : LockedBy(p, T)
      /\ \A p \in Proof :
           /\ disk[p].state \in {"UNSPENT", "PENDING"} /\ AtMintNow(p) =>
                \/ disk[p].tx \in Transfer /\ LockedBy(p, disk[p].tx) /\ p \in quote[disk[p].tx].inputs /\ Standing(disk[p].tx)
                \/ Swapping(p)
           /\ disk[p].state = "PENDING" =>
                \/ Own(p)
                \/ disk[p].tx \in Transfer /\ p \in quote[disk[p].tx].inputs
      /\ \A t \in Transfer : ScarQuote(t, T)
      /\ ScarWhole(T, X)
  <2>1. MintOrder(T, X)
      BY <1>0, <1>h, OrderlyMint
  <2> QED
      BY <2>1 DEF MintOrder
<1>2. phase = "up" /\ sync.pc = "idle"
    BY <1>h DEF Orderly, Typed, SyncOrderly
<1>3. ScarTyped(T, X) /\ ScarDown(T, X) /\ ScarStatus
    BY <1>1, <1>2 DEF ScarTyped, ScarDown, ScarStatus
<1>4. ScarTask(T, X)
    BY <1>0, <1>1, <1>h DEF ScarTask, Orderly, JobOrderly
<1>5. ASSUME NEW w \in Worker PROVE ScarVisit(visit[w], T, X)
  <2>1. VisitOrderly(visit[w]) /\ visit[w].pc # "settle" /\ VisitKnows(visit[w])
      BY <1>5 DEF Orderly, VisitsOrderly, AtAwait, Always, IInv
  <2>2. ASSUME visit[w].mode # "recover", visit[w].pc \in Working
        PROVE  visit[w].tx \in Transfer /\ Settled(visit[w].tx) /\ (visit[w].seen = "UNPAID" => ~Standing(visit[w].tx))
    <3>1. visit[w].tx \in Transfer
        BY <2>1, <2>2 DEF VisitKnows, Working
    <3> QED
        BY <1>1, <2>1, <2>2, <3>1 DEF VisitOrderly
  <2>3. ASSUME visit[w].mode # "recover", visit[w].pc = "unblind"
        PROVE  /\ \A p \in quote[visit[w].tx].inputs : p \in visit[w].pending \/ Gone(p)
               /\ \A p \in visit[w].pending : (LockedBy(p, visit[w].tx) \/ Gone(p)) /\ p \in quote[visit[w].tx].inputs
    <3>1. Paid(visit[w].tx)
        BY <2>1, <2>3 DEF VisitKnows
    <3>2. visit[w].tx \in Transfer /\ Standing(visit[w].tx)
        BY <3>1 DEF Paid, Standing
    <3>3. \A p \in quote[visit[w].tx].inputs : p \in Proof /\ disk[p].tx = visit[w].tx /\ disk[p].state \in {"PENDING", "SPENT"}
      <4>1. Sound(visit[w].tx)
          BY <1>1, <3>2
      <4>2. quote[visit[w].tx].inputs \in SUBSET Proof
          BY <3>2 DEF Always, AInv, MintTrue
      <4> QED
          BY <3>2, <4>1, <4>2 DEF Sound
    <3>4. /\ visit[w].pending \subseteq quote[visit[w].tx].inputs
          /\ \A p \in quote[visit[w].tx].inputs : disk[p].state = "PENDING" => p \in visit[w].pending
        BY <1>1, <2>1, <2>3 DEF VisitOrderly
    <3>5. \A p \in Proof : disk[p] = Held(disk[p].state, disk[p].tx)
        BY <1>1, Records DEF Orderly
    <3> QED
        BY <3>3, <3>4, <3>5 DEF Gone, LockedBy
  <2> QED
      BY <2>1, <2>2, <2>3 DEF ScarVisit, Working
<1>6. ScarBatch(T, X) /\ ScarSync(T, X) /\ ScarOwners
    BY <1>2 DEF ScarBatch, ScarSync, ScarOwners
<1>7. ScarLock(T, X)
  <2>1. Busy(T) /\ job.pc # "lock"
      BY <1>0, <1>h DEF Busy, AtAwait
  <2>2. T \in Transfer
      BY <1>0, <1>h, Known DEF Always
  <2>3. \A p \in Blanks(T) : disk[p].state \in {"none", "UNSPENT"}
      BY <1>1, <2>1, <2>2 DEF Orderly, StoreOrderly, EcashOrderly
  <2>4. \A p \in X : job.row.locked[p].tx = T => Alone(T, X)
      BY <1>0, <1>h DEF RowsOwn, Alone
  <2> QED
      BY <1>0, <1>1, <2>1, <2>3, <2>4 DEF ScarLock
<1>8. ASSUME NEW p \in Proof PROVE ScarProof(p, T, X)
    BY <1>1 DEF ScarProof
<1> QED
    BY <1>0, <1>1, <1>3, <1>4, <1>5, <1>6, <1>7, <1>8 DEF Scar

\* The task's call is lost, and nothing else happens.
LossOf == SwapFails \/ LoseAnswer \/ RecheckFails

\* The step that loses its call is gentle towards the task it hits.
LEMMA LossIsGentle ==
    ASSUME Always, Orderly, RowsOwn, AtAwait, LossOf, TimeOut, faults \in Seq(Mishap)
    PROVE  Gentle(job.tx, job.inputs) /\ job'.pc # "swap" /\ job.pc \in {"swap", "wait", "recheck"}
<1>0. /\ Lives /\ job.pc \in {"swap", "wait", "recheck"} /\ UNCHANGED <<sync, visit>> /\ faults' # faults
      /\ job'.pc # "swap"
  <2>1. Lives
      BY DEF LossOf, Lives, Failures
  <2>2. faults' # faults
      BY DEF TimeOut, Suffer
  <2> QED
      BY <2>1, <2>2 DEF LossOf, SwapFails, LoseAnswer, RecheckFails, Always, IInv, Shapes
<1>1. ~CheckFails
    BY <1>0 DEF CheckFails, Orderly, SyncOrderly
<1>2. ASSUME NEW w \in Worker PROVE ~AskFails(w) /\ ~UnblindFails(w) /\ ~Unblind(w)
  <2>1. DOMAIN visit = Worker /\ DOMAIN visit[w] = {"pc", "tx", "mode", "seen", "pending", "change"}
      BY DEF Always, IInv, Shapes
  <2>2. visit' = visit
      BY <1>0
  <2>3. ~AskFails(w)
      BY <2>1, <2>2, IdleIs DEF AskFails, EndVisit, Ended
  <2>4. ~UnblindFails(w)
      BY <2>1, <2>2, IdleIs DEF UnblindFails, EndVisit, Ended
  <2>5. ~Unblind(w)
      BY <2>1, <2>2, IdleIs DEF Unblind, EndVisit, Ended
  <2> QED
      BY <2>3, <2>4, <2>5
<1>3. ~MintSwaps /\ ~CommitSwap
    BY <1>0 DEF MintSwaps, CommitSwap
<1>4. LoseAnswer => (job.inputs \subseteq mintSpent => Standing(job.tx))
  <2> SUFFICES ASSUME LoseAnswer, job.inputs \subseteq mintSpent PROVE Standing(job.tx)
      OBVIOUS
  <2>1. job.pc = "wait" /\ job.inputs # {} /\ job.inputs \subseteq Proof
      BY DEF LoseAnswer, Holding, Always, AInv, RequestsTrue, TaskTrue
  <2>2. PICK p \in job.inputs : TRUE
      BY <2>1
  <2>3. mem[p] = Held("PENDING", job.tx)
      BY <2>1, <2>2 DEF Orderly, LockOrderly, Holding
  <2>4. mem[p].state = "PENDING" /\ mem[p].tx = job.tx /\ p \in mintSpent
      BY <2>2, <2>3, RecIs
  <2>5. Swapping(p) \/ (Melted(p) /\ Standing(mem[p].tx))
      BY <2>1, <2>2, <2>4 DEF Orderly, StoreOrderly, ProofOrderly
  <2> QED
      BY <2>1, <2>4, <2>5 DEF Swapping
<1> QED
    BY <1>0, <1>1, <1>2, <1>3, <1>4 DEF Gentle

\* A lost call leaves a scar: the transfer of the task and the ecash it held.
LEMMA LossScars ==
    ASSUME Always, Orderly, RowsOwn, AtAwait, LossOf, TimeOut, faults \in Seq(Mishap)
    PROVE  \E T, X : Scarred(T, X)'
<1>1. PICK T, X : T = job.tx /\ X = job.inputs
    OBVIOUS
<1>2. Gentle(T, X) /\ job'.pc # "swap" /\ job.pc \in {"swap", "wait", "recheck"}
    BY <1>1, LossIsGentle
<1>3. Scar(T, X)
    BY <1>1, <1>2, ScarStarts
<1>4. Scar(T, X)'
    BY <1>2, <1>3, ScarStep
<1> QED
    BY <1>2, <1>4 DEF Scarred

\* The process dies.
LEMMA CrashScars ==
    ASSUME Always, Orderly, RowsOwn, Crash
    PROVE  \E T, X : Scarred(T, X)'
<1>1. PICK T, X : /\ job.pc \in Holding => T = job.tx /\ X = job.inputs
                  /\ job.pc \notin Holding => T = Genesis /\ X = {}
  <2>1. CASE job.pc \in Holding
      BY <2>1
  <2>2. CASE job.pc \notin Holding
      BY <2>2
  <2> QED
      BY <2>1, <2>2
<1>2. /\ X \subseteq Proof /\ (T \in Transfer \/ (T = Genesis /\ X = {}))
      /\ T \in Transfer => X \cap Blanks(T) = {} /\ (Taken(T) => quote[T].inputs = X) /\ Begun(T)
      /\ mem = disk
      /\ \A q \in net : q.tx = T /\ q.inputs = X
      /\ \A t \in Transfer : /\ Sound(t)
                             /\ status[t] \in {"PENDING", "EXPIRING"} => Settled(t)
                             /\ status[t] = "REVERTED" => ~Pursued(t) /\ ~Standing(t)
                             /\ status[t] = "COMPLETED" => \A p \in quote[t].inputs : Gone(p)
      /\ \A p \in X : LockedBy(p, T)
      /\ \A p \in Proof :
           /\ disk[p].state \in {"UNSPENT", "PENDING"} /\ AtMintNow(p) =>
                \/ disk[p].tx \in Transfer /\ LockedBy(p, disk[p].tx) /\ p \in quote[disk[p].tx].inputs /\ Standing(disk[p].tx)
                \/ Swapping(p)
           /\ disk[p].state = "PENDING" =>
                \/ Own(p)
                \/ disk[p].tx \in Transfer /\ p \in quote[disk[p].tx].inputs
      /\ \A t \in Transfer : ScarQuote(t, T)
      /\ ScarWhole(T, X)
  <2>1. MintOrder(T, X)
      BY <1>1, OrderlyMint
  <2> QED
      BY <2>1 DEF MintOrder
<1>3. /\ UNCHANGED <<disk, rows, quote, mintSpent, net>> /\ phase' = "loading" /\ Dead'
      /\ job' = IdleJob /\ \A t \in Transfer : status'[t] \in {status[t], "EXPIRED"}
    BY TransferAssumptions, ReadingAgain DEF Crash, Rereads, mintVars, Dead, Worker
<1>4. ScarTyped(T, X)'
    BY <1>2, <1>3 DEF ScarTyped, Taken, Begun
<1>5. ScarDown(T, X)'
  <2>1. rows \subseteq (IF job.pc \in WithRow THEN {job.row} ELSE {})
      BY DEF RowsOwn
  <2>2. T \in Transfer => status[T] \notin {"PENDING", "EXPIRING"}
    <3>1. T \in Transfer => job.pc \in Holding /\ job.tx = T
        BY <1>1, TransferAssumptions
    <3> QED
        BY <3>1 DEF Orderly, StatusOrderly, Busy
  <2>3. job.pc \in WithRow => /\ DOMAIN job.row.locked = X
                              /\ \A p \in X : LockedBy(p, T) /\ (job.row.locked[p].tx = T => Alone(T, X))
      BY <1>1, <1>2 DEF WithRow, RowsOwn, Alone, Always, AInv, StoreTrue
  <2> QED
      BY <1>3, <2>1, <2>2, <2>3 DEF ScarDown, LockedBy
<1>6. ScarStatus' /\ ScarWhole(T, X)'
  <2>1. \A t : Pursued(t)' => Pursued(t)
      BY <1>3, IdleIs DEF Pursued, Requested, Holding
  <2>2. ScarStatus'
      BY <1>2, <1>3, <2>1 DEF ScarStatus, Settled, Sound, Standing, Gone
  <2>3. ScarWhole(T, X)'
    <3> SUFFICES ASSUME NEW p \in X, NEW r \in X, disk'[p].tx = T
                 PROVE  disk'[p].state # "UNSPENT" /\ disk'[r] = disk'[p]
        BY DEF ScarWhole
    <3> QED
        BY <1>2, <1>3, RecIs DEF LockedBy
  <2> QED
      BY <2>2, <2>3
<1>7. ASSUME NEW p \in Proof PROVE ScarProof(p, T, X)'
  <2>1. Own(p) => p \in X
      BY <1>1 DEF Own
  <2>2. Swapping(p) => p \in X /\ Cursed(T, X)'
    <3> SUFFICES ASSUME Swapping(p) PROVE p \in X /\ Cursed(T, X)'
        OBVIOUS
    <3>1. job.pc = "swap" /\ job.answer = "swapped" /\ p \in job.inputs /\ job.pc \in Holding
        BY DEF Swapping, Holding
    <3>2. T = job.tx /\ X = job.inputs /\ T \in Transfer
        BY <1>1, <3>1, Known DEF Always
    <3>3. X \subseteq mintSpent
        BY <3>1, <3>2 DEF Always, EnoughTrue
    <3>4. ~Taken(T) /\ ~Requested(T)
        BY <3>1, <3>2 DEF Orderly, JobOrderly, NetOrderly, Requested
    <3> QED
        BY <1>3, <3>1, <3>2, <3>3, <3>4 DEF Cursed, Late, Taken, Requested
  <2>3. AtMintNow(p)' => AtMintNow(p)
      BY <1>3 DEF AtMintNow, Standing
  <2> QED
      BY <1>2, <1>3, <2>1, <2>2, <2>3 DEF ScarProof, Standing, LockedBy
<1>8. \A t \in Transfer : ScarQuote(t, T)'
    BY <1>2, <1>3 DEF ScarQuote, Sound, Standing, LockedBy
<1>9. \A q \in net' : q.tx = T /\ q.inputs = X
    BY <1>2, <1>3
<1>10. ScarDead(T, X)'
    BY <1>4, <1>5, <1>6, <1>7, <1>8, <1>9 DEF ScarDead
<1> QED
    BY <1>3, <1>10, DeadScar

------------------------------------------------------------------------------
(* Steps before the first loss.                                            *)

\* A step of a living wallet in which the task loses no call and no visit is overtaken.
Unhurt ==
    /\ Lives /\ ~LossOf
    /\ \A w \in Worker : Unblind(w) => ~Overtaken(visit[w])

\* What the sync and the visits lose is asked for again.
LEMMA MinorLossKeeps ==
    ASSUME IInv, Orderly, CheckFails \/ \E w \in Worker : AskFails(w) \/ UnblindFails(w)
    PROVE  Orderly'
<1>1. CASE CheckFails
  <2>0. UNCHANGED <<disk, mem, status, job, visit, phase, quote, change, mintSpent, net>> /\ sync' = IdleSync
      BY <1>1 DEF CheckFails, storeVars, mintVars
  <2>1. Typed'
      BY <2>0 DEF Orderly, Typed, IdleSync
  <2>2. SyncOrderly'
      BY <2>0 DEF Orderly, SyncOrderly, IdleSync
  <2> QED
      BY <2>0, <2>1, <2>2, Frames DEF Orderly
<1>2. ASSUME NEW w \in Worker, AskFails(w) \/ UnblindFails(w) PROVE Orderly'
  <2> DEFINE t == visit[w].tx
  <2>0. /\ UNCHANGED <<disk, mem, job, sync, phase, quote, change, mintSpent, net>>
        /\ visit[w].pc \in {"ask", "unblind"}
        /\ status' = status \/ status' = [status EXCEPT ![t] = "ERROR"]
        /\ \/ \E outcome \in {"returned", "threw"} : visit' = [visit EXCEPT ![w] = Ended(w, outcome)]
           \/ visit' = [visit EXCEPT ![w].pc = "settle", ![w].change = {}] /\ visit[w].pc = "unblind"
      BY <1>2 DEF AskFails, UnblindFails, EndVisit, SetStatus, storeVars, mintVars, queueVars
  <2>1. /\ t \in Transfer /\ VisitOrderly(visit[w]) /\ visit[w].pending \in SUBSET Proof
      BY <2>0, Known DEF Orderly, VisitsOrderly, Typed
  <2>2. VisitsOrderly' /\ \A v \in Worker : visit'[v].pending \in SUBSET Proof
    <3>1. CASE \E outcome \in {"returned", "threw"} : visit' = [visit EXCEPT ![w] = Ended(w, outcome)]
        BY <2>0, <3>1, EndKeeps DEF Busy
    <3>2. CASE visit' = [visit EXCEPT ![w].pc = "settle", ![w].change = {}] /\ visit[w].pc = "unblind"
      <4>1. /\ visit'[w].pc = "settle" /\ visit'[w].seen = visit[w].seen
            /\ visit'[w].change = {}
            /\ visit'[w].pending = visit[w].pending
            /\ visit'[w].tx = visit[w].tx /\ visit'[w].mode = visit[w].mode
            /\ \A u \in Worker : u # w => visit'[u] = visit[u]
          BY <3>2 DEF IInv, Shapes
      <4>2. VisitOrderly(visit[w])'
          BY <2>0, <2>1, <3>2, <4>1 DEF VisitOrderly, Working, Taken, Standing, Busy, Blanks
      <4>3. VisitsOrderly'
          BY <2>0, <4>1, <4>2, OneVisit DEF Busy
      <4> QED
          BY <2>1, <4>1, <4>3 DEF Orderly, Typed
    <3> QED
        BY <2>0, <3>1, <3>2
  <2> HIDE DEF t
  <2> QED
      BY <2>0, <2>1, <2>2, VisitMarks, TransferAssumptions DEF IInv, Shapes
<1> QED
    BY <1>1, <1>2

\* A step that loses no call keeps the order.
LEMMA UnhurtOrder ==
    ASSUME IInv, Orderly, Unhurt
    PROVE  Orderly'
<1>1. Running \/ (AtAwait /\ Resuming) \/ (Starts \/ MintSteps \/ NetworkSteps)
      \/ (CheckFails \/ \E w \in Worker : AskFails(w) \/ UnblindFails(w))
    BY DEF Unhurt, Lives, Failures, LossOf
<1>2. \A w \in Worker : Unblind(w) => ~Overtaken(visit[w])
    BY DEF Unhurt
<1> QED
    BY <1>1, <1>2, RunningKeeps, ResumingKeeps, OthersKeep, MinorLossKeeps

\* In order the task keeps its row until it resolves it.
LEMMA OwnRowKept ==
    ASSUME Always, Orderly, RowsOwn, Unhurt
    PROVE  rows' \subseteq (IF job'.pc \in WithRow THEN {job'.row} ELSE {})
<1>0. /\ Lives /\ IInv /\ TaskTrue /\ SyncTrue /\ ~SwapFails /\ ~RecheckFails /\ ~LoseAnswer
      /\ rows \subseteq (IF job.pc \in WithRow THEN {job.row} ELSE {})
    BY DEF Unhurt, LossOf, Always, AInv, RowsOwn
<1>1. ~JudgePaid /\ ~JudgePending /\ ~NestedDone /\ ~Rescued /\ (JudgeUnpaid => job.answer = "signed")
    BY DEF JudgePaid, JudgePending, NestedDone, Rescued, JudgeUnpaid, Orderly, JobOrderly, Holding
<1>2. job.pc \in WithRow =>
        \/ job'.pc \in WithRow /\ job'.row = job.row
        \/ CommitSwap \/ SettlePaid \/ SettlePending \/ SettleUnpaid \/ JudgeUnpaid
  <2> SUFFICES ASSUME job.pc \in WithRow, ~CommitSwap, ~SettlePaid, ~SettlePending, ~SettleUnpaid, ~JudgeUnpaid
               PROVE  job'.pc \in WithRow /\ job'.row = job.row
      OBVIOUS
  <2>0. job.pc \in {"swap", "locked", "prepared", "submit", "wait", "settle", "recheck", "judge"}
      BY DEF WithRow, Holding
  <2>1. \/ UNCHANGED job
        \/ job.pc = "swap" /\ MintSwaps
        \/ job.pc = "locked" /\ Prepared
        \/ job.pc = "prepared" /\ Execute
        \/ job.pc = "submit" /\ Submit
        \/ job.pc = "wait" /\ (TakeAnswer \/ TakeError)
        \/ job.pc = "wait" /\ job.answer = "none" /\ (AnswerMelt(job.tx) \/ \E q \in net : RefuseMelt(q) /\ q.tx = job.tx)
        \/ job.pc = "recheck" /\ Recheck
      BY <1>0, <1>1, <2>0, JobAt
  <2>2. CASE UNCHANGED job
      BY <2>2
  <2>3. CASE MintSwaps \/ Prepared \/ Execute \/ Submit \/ TakeAnswer \/ TakeError \/ Recheck
      BY <1>0, <2>0, <2>3 DEF MintSwaps, Prepared, Execute, Submit, TakeAnswer, TakeError, Recheck, IInv, Shapes, WithRow, Holding
  <2>4. CASE AnswerMelt(job.tx)
      BY <1>0, <2>0, <2>4 DEF AnswerMelt, IInv, Shapes, WithRow, Holding
  <2>5. ASSUME NEW q \in net, RefuseMelt(q), job.pc = "wait" PROVE job'.pc \in WithRow /\ job'.row = job.row
      BY <1>0, <2>0, <2>5 DEF RefuseMelt, Reply, IInv, Shapes, WithRow, Holding
  <2> QED
      BY <2>1, <2>2, <2>3, <2>4, <2>5
<1>3. CASE UNCHANGED <<disk, mem, rows>> \/ WriteOff \/ Register \/ \E w \in Worker : ReleaseFailed(w)
  <2>1. rows' = rows
      BY <1>3 DEF WriteOff, Register, ReleaseFailed, MoveToSpent, MoveToPending, RevertToSpendable, Overwrite, storeVars
  <2>2. job.pc \in WithRow => (job'.pc \in WithRow /\ job'.row = job.row) \/ rows' = {}
    <3>1. CASE CommitSwap \/ SettlePaid \/ SettlePending
        BY <1>0, <2>1, <3>1 DEF CommitSwap, SettlePaid, SettlePending, Commit
    <3>2. CASE SettleUnpaid \/ JudgeUnpaid
        BY <1>0, <1>1, <2>1, <3>2 DEF SettleUnpaid, JudgeUnpaid, Rollback
    <3> QED
        BY <1>2, <3>1, <3>2
  <2> QED
      BY <1>0, <2>1, <2>2
<1>4. CASE Select
    BY <1>0, <1>4 DEF Select, Reserve, WithRow, Holding, IInv, Shapes
<1>5. CASE Lock
    BY <1>0, <1>5 DEF Lock, Reserve, WithRow, Holding, IInv, Shapes
<1>6. CASE CommitSwap \/ SettlePaid \/ SettlePending \/ SettleUnpaid \/ JudgeUnpaid
  <2>1. rows' = rows \ {job.row}
      BY <1>1, <1>6 DEF CommitSwap, SettlePaid, SettlePending, SettleUnpaid, JudgeUnpaid, Commit, Rollback
  <2> QED
      BY <1>0, <2>1
<1>7. ASSUME NEW w \in Worker, SettleVisit(w) PROVE rows' \subseteq (IF job'.pc \in WithRow THEN {job'.row} ELSE {})
  <2>1. rows' \subseteq rows /\ job' = job
      BY <1>7 DEF SettleVisit, Commit, queueVars
  <2> QED
      BY <1>0, <2>1
<1>8. \A t \in Tx : ~SettleShort(t)
    BY DEF SettleShort, Orderly, SyncOrderly
<1> QED
    BY <1>0, <1>1, <1>3, <1>4, <1>5, <1>6, <1>7, <1>8, StoreMoves DEF StoreSteps

\* Nobody stores ecash for a transfer whose proofs are still being chosen.
LEMMA NotYetOwner ==
    ASSUME Always, Orderly, RowsOwn, Unhurt, job'.pc = "select", NEW p \in Proof
    PROVE  disk'[p].tx # job'.tx
<1>0. Lives /\ IInv /\ TaskTrue /\ Kinded /\ mem = disk
    BY StoreParts DEF Unhurt, Always, AInv, Orderly, Typed
<1>1. CASE job.pc = "idle" /\ StartTransfer(job'.tx) /\ job'.tx \in Transfer /\ status[job'.tx] = "none"
  <2>1. disk'[p] = disk[p]
      BY <1>1 DEF StartTransfer, storeVars
  <2>2. disk[p].tx # job'.tx
    <3>1. CASE disk[p] = Absent
        BY <1>1, <3>1, RecIs, NoTxAssumption, TransferAssumptions
    <3>2. CASE disk[p] # Absent
        BY <1>1, <3>2 DEF Always, BegunTrue, Begun
    <3> QED
        BY <3>1, <3>2
  <2> QED
      BY <2>1, <2>2
<1>2. CASE UNCHANGED job
  <2>0. job.pc = "select" /\ disk[p].tx # job.tx /\ job'.tx = job.tx /\ ~Taken(job.tx) /\ sync.pc = "idle"
      BY <1>2 DEF RowsOwn, Orderly, JobOrderly, SyncOrderly
  <2>1. \/ UNCHANGED <<disk, mem, rows>>
        \/ \E w \in Worker : ReleaseFailed(w) \/ SettleVisit(w)
    <3>1. /\ ~Select /\ ~Lock /\ ~CommitSwap /\ ~SwapFails /\ ~SettlePaid /\ ~SettlePending /\ ~SettleUnpaid
          /\ ~JudgePaid /\ ~JudgePending /\ ~JudgeUnpaid
      <4>1. ~Select
          BY <1>0, <1>2, SelectIs
      <4> QED
          BY <2>0, <4>1 DEF Lock, CommitSwap, SwapFails, SettlePaid, SettlePending, SettleUnpaid, JudgePaid, JudgePending, JudgeUnpaid
    <3>2. ~WriteOff /\ ~Register /\ \A t \in Tx : ~SettleShort(t)
        BY <2>0 DEF WriteOff, Register, SettleShort
    <3> QED
        BY <1>0, <3>1, <3>2, StoreMoves DEF StoreSteps
  <2>2. ASSUME NEW w \in Worker, ReleaseFailed(w) PROVE disk'[p].tx = disk[p].tx
    <3>1. RevertToSpendable(PendingOf(visit[w].tx))
        BY <2>2 DEF ReleaseFailed
    <3>2. disk'[p] = disk[p] \/ disk'[p] = Held("UNSPENT", mem[p].tx)
        BY <1>0, <3>1, OverwriteDoes DEF RevertToSpendable, ProofState
    <3> QED
        BY <1>0, <3>2, RecIs
  <2>3. ASSUME NEW w \in Worker, SettleVisit(w) PROVE disk'[p].tx \in {disk[p].tx, visit[w].tx} /\ visit[w].tx # job.tx
    <3>1. VisitKnows(visit[w]) /\ visit[w].pc = "settle"
        BY <1>0, <2>3 DEF SettleVisit, IInv
    <3>2. Paid(visit[w].tx) /\ visit[w].tx \in Transfer
        BY <3>1 DEF VisitKnows
    <3>3. visit[w].tx # job.tx
        BY <2>0, <3>2 DEF Paid, Orderly, QuoteOrderly, Standing
    <3>4. PICK row, S, C, t : S = visit[w].pending /\ C = visit[w].change /\ t = visit[w].tx /\ Commit(row, S, {}, Unspent(C, t))
        BY <2>3 DEF SettleVisit
    <3>5. DOMAIN Unspent(C, t) = C /\ \A r \in C : Unspent(C, t)[r] = Held("UNSPENT", t) /\ Unspent(C, t)[r] \in Rec
        BY <3>2, <3>4, OutputsDo, TransferAssumptions
    <3>6. disk'[p] \in {Held("UNSPENT", t), Held("SPENT", disk[p].tx), disk[p]}
        BY <1>0, <3>4, <3>5, CommitDoes
    <3> QED
        BY <3>3, <3>4, <3>6, RecIs
  <2> QED
      BY <2>0, <2>1, <2>2, <2>3
<1> QED
    BY <1>0, <1>1, <1>2, SelectCameFrom

\* It keeps the reservations the task's own, too.
LEMMA RowsOwnKept ==
    ASSUME Always, Orderly, RowsOwn, Unhurt
    PROVE  RowsOwn'
<1>0. Lives /\ IInv /\ TaskTrue /\ SyncTrue /\ ~SwapFails /\ mem = disk /\ Kinded
    BY StoreParts DEF Unhurt, LossOf, Always, AInv, Orderly, Typed
<1>1. rows' \subseteq (IF job'.pc \in WithRow THEN {job'.row} ELSE {})
    BY OwnRowKept
<1>2. ASSUME job'.pc \in WithRow, NEW p \in job'.inputs, job'.row.locked[p].tx = job'.tx
      PROVE  job'.inputs = {<<job'.tx, "swap">>}
  <2>1. CASE Select
    <3>1. PICK S \in SUBSET Spendable : job'.inputs = S /\ job'.tx = job.tx /\ job'.row.locked = [r \in S |-> Snapshot(r, "UNSPENT")]
      <4>1. PICK S \in SUBSET Spendable : \E op \in {"transfer-swap", "transfer-melt"} :
                job'.inputs = S /\ job'.tx = job.tx /\ job'.row = RowFor(job.tx, op, S, "UNSPENT")
          BY <1>0, <2>1, SelectIs
      <4>2. \A op : RowFor(job.tx, op, S, "UNSPENT").locked = [r \in S |-> Snapshot(r, "UNSPENT")]
          BY DEF RowFor
      <4> QED
          BY <4>1, <4>2
    <3>2. p \in Proof /\ job'.row.locked[p] = Held("UNSPENT", mem[p].tx)
        BY <1>2, <3>1 DEF Spendable, Having, Snapshot
    <3>3. job.pc = "select"
        BY <2>1 DEF Select
    <3> QED
        BY <1>0, <1>2, <3>1, <3>2, <3>3, RecIs DEF RowsOwn
  <2>2. CASE Lock
    <3>1. job.pc = "lock" /\ job'.inputs = job.inputs /\ job'.tx = job.tx
        BY <1>0, <2>2 DEF Lock, IInv, Shapes
    <3> QED
        BY <3>1 DEF RowsOwn
  <2>3. CASE ~Select /\ ~Lock
    <3>1. job.pc \in WithRow /\ job'.row = job.row /\ job'.inputs = job.inputs /\ job'.tx = job.tx
        BY <1>0, <1>2, <2>3, RowHeld
    <3> QED
        BY <1>2, <3>1 DEF RowsOwn
  <2> QED
      BY <2>1, <2>2, <2>3
<1>3. job'.pc = "select" => \A p \in Proof : disk'[p].tx # job'.tx
    BY NotYetOwner
<1>4. job'.pc = "lock" => job'.inputs = {<<job'.tx, "swap">>}
  <2> SUFFICES ASSUME job'.pc = "lock" PROVE job'.inputs = {<<job'.tx, "swap">>}
      OBVIOUS
  <2>1. CASE CommitSwap
      BY <1>0, <2>1 DEF CommitSwap, IInv, Shapes
  <2>2. CASE ~CommitSwap
    <3>1. job.pc = "lock" /\ job' = job
        BY <1>0, <2>2, LockCameFrom
    <3> QED
        BY <3>1 DEF RowsOwn
  <2> QED
      BY <2>1, <2>2
<1>5. ASSUME NEW t \in Transfer, job'.tx = t, job'.pc \in Holding \cup {"select", "fail"}, status'[t] = "REVERTED" PROVE FALSE
  <2>1. Busy(t) \/ StartTransfer(t)
    <3>1. CASE job' = IdleJob
        BY <1>5, <3>1, IdleIs DEF Holding
    <3>2. CASE job'.tx = job.tx
      <4>1. job.pc # "idle" /\ job.pc # "checking" /\ job.pc \notin {"rescue", "nested", "nestedtwice"}
        <5>1. job.pc # "idle"
            BY <1>5, <3>2, IdleIs, NoTxAssumption, TransferAssumptions DEF Always, AInv, TaskTrue
        <5>2. job.pc = "checking" => job'.pc \in {"checking", "idle"}
            BY <1>0, JobAt, IdleIs DEF OnchainChecked
        <5> QED
            BY <1>5, <5>1, <5>2 DEF Orderly, JobOrderly, Holding
      <4>2. job.pc \in Holding \cup {"select", "fail"}
          BY <4>1 DEF Orderly, JobOrderly
      <4> QED
          BY <1>5, <3>2, <4>2 DEF Busy
    <3>3. CASE job = IdleJob /\ \E u \in Transfer : (StartTransfer(u) \/ CheckOnchain(u)) /\ job'.tx = u /\ job'.pc \in {"select", "checking"}
      <4>1. PICK u \in Transfer : (StartTransfer(u) \/ CheckOnchain(u)) /\ job'.tx = u
          BY <3>3
      <4>2. CheckOnchain(u) => job'.pc = "checking"
          BY DEF CheckOnchain, IdleJob
      <4> QED
          BY <1>5, <4>1, <4>2 DEF Holding
    <3> QED
        BY <1>0, <3>1, <3>2, <3>3, JobTransfer
  <2>2. status'[t] = status[t] \/ \E w \in Worker : MarkReverted(w) /\ t = visit[w].tx
      BY <1>0, <1>5, StatusIs
  <2>3. CASE StartTransfer(t)
      BY <1>0, <1>5, <2>3, TransferAssumptions DEF StartTransfer, SetStatus, IInv, Shapes
  <2>4. CASE Busy(t)
    <3>1. status[t] # "REVERTED"
        BY <2>4 DEF RowsOwn
    <3>2. PICK w \in Worker : MarkReverted(w) /\ t = visit[w].tx
        BY <1>5, <2>2, <3>1
    <3>3. VisitOrderly(visit[w]) /\ visit[w].pc = "revert"
        BY <3>2 DEF MarkReverted, Orderly, VisitsOrderly
    <3> QED
        BY <2>4, <3>2, <3>3 DEF VisitOrderly, Working
  <2> QED
      BY <2>1, <2>3, <2>4
<1> QED
    BY <1>1, <1>2, <1>3, <1>4, <1>5 DEF RowsOwn, Busy

------------------------------------------------------------------------------
(* Counting the losses.                                                    *)

\* One more loss, or none.
Loss == {"crash", "timeout"}
Lost(s) == {i \in DOMAIN s : s[i] \in Loss}

\* The losses are the places of the mishaps that are losses.
LEMMA LossesAre ==
    ASSUME faults \in Seq(Mishap)
    PROVE  IsFiniteSet(Lost(faults)) /\ Losses \in Nat /\ Losses = Cardinality(Lost(faults))
<1>1. Lost(faults) \subseteq 1..Len(faults) /\ Len(faults) \in Nat
    BY DEF Lost
<1>2. IsFiniteSet(1..Len(faults))
    BY <1>1, FS_Interval
<1>3. IsFiniteSet(Lost(faults))
    BY <1>1, <1>2, FS_Subset
<1>4. Losses = Cardinality(Lost(faults))
    BY DEF Losses, Lost, Loss
<1> QED
    BY <1>3, <1>4, FS_CardinalityType

\* One more mishap is one more loss if it is a loss.
LEMMA LossCounts ==
    ASSUME faults \in Seq(Mishap), NEW kind, Suffer(kind)
    PROVE  Losses' = IF kind \in Loss THEN Losses + 1 ELSE Losses
<1>1. /\ faults' \in Seq(Mishap) /\ Len(faults') = Len(faults) + 1 /\ Len(faults) \in Nat
      /\ \A i \in 1..Len(faults) : faults'[i] = faults[i]
      /\ faults'[Len(faults) + 1] = kind
    BY AppendProperties DEF Suffer
<1>2. Lost(faults') = IF kind \in Loss THEN Lost(faults) \cup {Len(faults) + 1} ELSE Lost(faults)
    BY <1>1 DEF Lost
<1>3. Len(faults) + 1 \notin Lost(faults)
    BY <1>1 DEF Lost
<1>4. IsFiniteSet(Lost(faults)) /\ Losses = Cardinality(Lost(faults))
    BY LossesAre
<1>5. Losses' = Cardinality(Lost(faults'))
    BY DEF Losses, Lost, Loss
<1>6. Cardinality(Lost(faults) \cup {Len(faults) + 1}) = Cardinality(Lost(faults)) + 1
    BY <1>3, <1>4, FS_AddElement
<1> QED
    BY <1>2, <1>4, <1>5, <1>6

\* All that may happen but an instance that wakes late.
NoLate == Mishap \ {"late"}

\* Order before the first loss; after it, order or the scar of that one loss.
LossInv ==
    /\ faults \in Seq(Mishap)
    /\ OnlyMishaps(NoLate) =>
        /\ Losses = 0 => Orderly /\ RowsOwn
        /\ Losses = 1 => (Orderly /\ RowsOwn) \/ \E T, X : Scarred(T, X)

\* From order, a step of a wallet that lives keeps it or loses a call.
LEMMA OrderSteps ==
    ASSUME Always, Orderly, RowsOwn, faults \in Seq(Mishap), Lives, OnlyMishaps(NoLate)'
    PROVE  \/ Orderly' /\ RowsOwn'
           \/ TimeOut /\ \E T, X : Scarred(T, X)'
<1>0. IInv
    BY DEF Always
<1>1. \A w \in Worker : Unblind(w) => ~Overtaken(visit[w])
    BY Suffered DEF Unblind, NoLate
<1>2. CASE ~LossOf
  <2>1. Unhurt
      BY <1>1, <1>2 DEF Unhurt
  <2> QED
      BY <1>0, <2>1, UnhurtOrder, RowsOwnKept
<1>3. CASE LossOf /\ AtAwait
  <2>1. TimeOut
      BY <1>0, <1>3, FailuresAreLosses DEF LossOf, Failures
  <2> QED
      BY <1>3, <2>1, LossScars
<1>4. LossOf => AtAwait
  <2> SUFFICES ASSUME LossOf, Running PROVE FALSE
      BY DEF Lives
  <2>1. job.pc \in {"swap", "wait", "recheck"} /\ UNCHANGED visit
      BY DEF LossOf, SwapFails, LoseAnswer, RecheckFails
  <2>2. ~JobRuns
      BY <2>1 DEF JobRuns, Lock, Prepared, Execute, SettlePaid, SettlePending, SettleUnpaid, Fail, Rescued, OnchainChecked
  <2>3. ~SyncRuns
    <3>1. sync.pc = "idle"
        BY <2>1 DEF Orderly, SyncOrderly
    <3> QED
        BY <3>1 DEF SyncRuns, Dispatched, Register, Unregister, GoneRefreshed, Synced, SettleShort, SkipSettled, Dispatch, RefreshGone
  <2>4. ASSUME NEW w \in Worker, ReleaseFailed(w) \/ MarkReverted(w) \/ SettleVisit(w) PROVE FALSE
    <3>1. visit[w].pc \in {"release", "revert", "settle"} /\ visit'[w].pc \in {"revert", "returned", "none"} /\ visit'[w].pc # visit[w].pc
        BY <1>0, <2>4, IdleIs DEF ReleaseFailed, MarkReverted, SettleVisit, EndVisit, Ended, GoOn, IInv, Shapes
    <3> QED
        BY <2>1, <3>1
  <2> QED
      BY <2>2, <2>3, <2>4 DEF Running, VisitRuns
<1> QED
    BY <1>2, <1>3, <1>4

\* As long as no further call is lost, every step of a wallet that is alive is gentle.
LEMMA NoMoreLoss ==
    ASSUME Always, NEW T, NEW X, Scarred(T, X), Lives, ~TimeOut, faults \in Seq(Mishap), OnlyMishaps(NoLate)'
    PROVE  Gentle(T, X)
<1>1. \A w \in Worker : Unblind(w) => ~Overtaken(visit[w])
    BY Suffered DEF Unblind, NoLate
<1>2. ~CheckFails /\ \A w \in Worker : ~AskFails(w) /\ ~UnblindFails(w)
    BY DEF CheckFails, AskFails, UnblindFails
<1>3. /\ SwapFails => job.answer = "none" /\ ~Free(job.inputs)
      /\ ~LoseAnswer
      /\ RecheckFails => job.answer = "lost"
    BY DEF SwapFails, LoseAnswer, RecheckFails
<1> QED
    BY <1>1, <1>2, <1>3 DEF Gentle, Scarred

\* A step that changes nothing keeps the order.
LEMMA OrderStands ==
    ASSUME Orderly, RowsOwn, UNCHANGED vars
    PROVE  Orderly' /\ RowsOwn'
<1>1. UNCHANGED <<disk, mem, rows, status, job, sync, visit, phase, quote, change, mintSpent, net>>
    BY DEF vars, storeVars, transferVars, mintVars, queueVars
<1>2. Orderly'
    BY <1>1, Frames DEF Orderly
<1>3. RowsOwn'
    BY <1>1 DEF RowsOwn, Busy
<1> QED
    BY <1>2, <1>3

\* Every step keeps the order or the scar.
LEMMA LossStep == Always /\ LossInv /\ [Next]_vars => LossInv'
<1> SUFFICES ASSUME Always, LossInv, [Next]_vars PROVE LossInv'
    OBVIOUS
<1>0. faults \in Seq(Mishap) /\ Losses \in Nat
    BY LossesAre DEF LossInv
<1>1. CASE UNCHANGED vars
  <2>1. UNCHANGED faults
      BY <1>1 DEF vars, transferVars
  <2>2. (OnlyMishaps(NoLate)' <=> OnlyMishaps(NoLate)) /\ Losses' = Losses
      BY <2>1 DEF OnlyMishaps, Losses
  <2>3. Orderly /\ RowsOwn => Orderly' /\ RowsOwn'
      BY <1>1, OrderStands
  <2>4. \A T, X : Scarred(T, X) => Scarred(T, X)'
      BY <1>1, ScarredStands
  <2> QED
      BY <2>1, <2>2, <2>3, <2>4 DEF LossInv
<1>2. CASE Next
  <2>1. faults' \in Seq(Mishap) /\ (OnlyMishaps(NoLate)' => OnlyMishaps(NoLate))
      BY <1>0, <1>2, RecordGrows, Suffered, FaultsStand
  <2>2. Losses' = Losses \/ Losses' = Losses + 1
    <3>1. UNCHANGED faults => Losses' = Losses
        BY DEF Losses
    <3> QED
        BY <1>0, <1>2, <3>1, RecordGrows, LossCounts
  <2>3. Losses' \in Nat
      BY <1>0, <2>2
  <2> SUFFICES ASSUME OnlyMishaps(NoLate)'
               PROVE  /\ Losses' = 0 => Orderly' /\ RowsOwn'
                      /\ Losses' = 1 => (Orderly' /\ RowsOwn') \/ \E T, X : Scarred(T, X)'
      BY <2>1 DEF LossInv
  <2>4. /\ Losses = 0 => Orderly /\ RowsOwn
        /\ Losses = 1 => (Orderly /\ RowsOwn) \/ \E T, X : Scarred(T, X)
      BY <2>1 DEF LossInv
  <2>5. TimeOut \/ Crash => Losses' = Losses + 1
      BY <1>0, LossCounts DEF TimeOut, Crash, Loss
  <2>6. CASE Orderly /\ RowsOwn
    <3>1. CASE Lives
      <4>1. (Orderly' /\ RowsOwn') \/ (TimeOut /\ \E T, X : Scarred(T, X)')
          BY <1>0, <2>6, <3>1, OrderSteps
      <4> QED
          BY <1>0, <2>2, <2>5, <4>1
    <3>2. CASE Crash
      <4>1. \E T, X : Scarred(T, X)'
          BY <2>6, <3>2, CrashScars
      <4> QED
          BY <1>0, <2>5, <3>2, <4>1
    <3>3. ~Restart
        BY <2>6 DEF Restart, Load, Recovered, RecoverOrphan, Orderly, Typed
    <3> QED
        BY <1>2, <3>1, <3>2, <3>3 DEF Next, Lives
  <2>7. CASE ~(Orderly /\ RowsOwn)
    <3>0. Losses # 0 /\ (Losses' = 1 => Losses = 1 /\ ~TimeOut /\ ~Crash /\ \E T, X : Scarred(T, X)) /\ Losses' # 0
        BY <1>0, <2>2, <2>4, <2>5, <2>7
    <3> SUFFICES ASSUME ~TimeOut, ~Crash, \E T, X : Scarred(T, X) PROVE \E T, X : Scarred(T, X)'
        BY <3>0
    <3>1. PICK T, X : Scarred(T, X)
        OBVIOUS
    <3>2. CASE Lives
      <4>1. Gentle(T, X)
          BY <1>0, <3>1, <3>2, NoMoreLoss
      <4> QED
          BY <3>1, <4>1, ScarredStep
    <3>3. CASE Restart
      <4>1. Load \/ Recovered => Scarred(T, X)'
          BY <3>1, LoadScar, RecoveredScar
      <4>2. \A r \in rows : RecoverOrphan(r) => Scarred(T, X)'
          BY <3>1, OrphanScar
      <4> QED
          BY <3>3, <4>1, <4>2 DEF Restart
    <3> QED
        BY <1>2, <3>2, <3>3 DEF Next, Lives
  <2> QED
      BY <2>6, <2>7
<1> QED
    BY <1>1, <1>2

\* There is order at the start.
LEMMA LossInit == Init => LossInv
<1> SUFFICES ASSUME Init PROVE LossInv
    OBVIOUS
<1>1. faults \in Seq(Mishap) /\ OrderlyIfNoLoss
    BY OrderInit DEF LInv
<1>2. OnlyMishaps({"signed", "byhand"})
    BY DEF Init, OnlyMishaps
<1>3. Orderly
    BY <1>1, <1>2 DEF OrderlyIfNoLoss
<1>4. RowsOwn
    BY IdleIs, NoTxAssumption, TransferAssumptions DEF Init, RowsOwn, Busy, WithRow, Holding
<1> QED
    BY <1>1, <1>3, <1>4 DEF LossInv

\* What the order, or the scar, says of the statuses.
LEMMA StatusesAreTrue == Always /\ LossInv => OneLossIsSurvived
<1> SUFFICES ASSUME Always, LossInv, Losses <= 1, OnlyMishaps(NoLate)
             PROVE  /\ \A t \in Transfer : status[t] = "REVERTED" => quote[t].state = "UNPAID"
                    /\ WrittenOffIfCompleted
    BY DEF OneLossIsSurvived, NoLate
<1>0. (Orderly /\ RowsOwn) \/ \E T, X : Scarred(T, X)
  <2>1. Losses = 0 \/ Losses = 1
      BY LossesAre DEF LossInv
  <2> QED
      BY <2>1 DEF LossInv
<1>1. CASE Orderly /\ RowsOwn
    BY <1>1 DEF Orderly, StatusOrderly, Typed, WrittenOffIfCompleted, Standing
<1>2. CASE \E T, X : Scarred(T, X)
  <2>1. ScarStatus
      BY <1>2 DEF Scarred, Scar
  <2> QED
      BY <2>1 DEF ScarStatus, WrittenOffIfCompleted, Standing, Gone
<1> QED
    BY <1>0, <1>1, <1>2

\* One lost call or one crash, with everything the user may do by hand: a transfer shown as
\* reverted is not paid, and a completed one is written off.
THEOREM OneLossIsEnough == Spec => []OneLossIsSurvived
<1>1. Init => Always /\ LossInv
    BY AllInit, LossInit
<1>2. Always /\ LossInv /\ [Next]_vars => (Always /\ LossInv)'
    BY AllStep, LossStep
<1>3. Always /\ LossInv => OneLossIsSurvived
    BY StatusesAreTrue
<1> QED
    BY <1>1, <1>2, <1>3, PTL DEF Spec
==============================================================================
