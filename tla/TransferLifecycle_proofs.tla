------------------------ MODULE TransferLifecycle_proofs ------------------------
(***************************************************************************)
(* The safety properties of a transfer, for any number of transfers,       *)
(* proofs, workers and mishaps.  Five inductive invariants:                *)
(*                                                                         *)
(* IInv, which always holds: a transfer is COMPLETED or RECOVERED only if  *)
(* the mint has paid.  Nobody looks at the mint at the moment of settling: *)
(* a worker settles on an answer it has carried across awaits.  That is    *)
(* sound because PAID is terminal at the mint, and because a visit gets    *)
(* past "act" towards settling only with PAID in its hands.                *)
(*                                                                         *)
(* Orderly, as long as no call is lost, nobody dies and no wallet instance *)
(* is late: who holds which proof, between the task, the visits, the sync  *)
(* and the mint.                                                           *)
(*                                                                         *)
(* AllTold, if the user does not recover payments in flight either: what   *)
(* a status says of the ecash.                                             *)
(*                                                                         *)
(* ChangeOrderly, also where calls are lost, as long as nobody dies and    *)
(* the user recovers nothing by hand: where the change is.                 *)
(*                                                                         *)
(* AInv, whatever is lost and whoever dies: where the task, the sync and   *)
(* the visits are says what they carry, and the books of the mint are in   *)
(* order.  TransferLosses_proofs goes on from it.                          *)
(***************************************************************************)
EXTENDS TransferLifecycle, SequenceTheorems, FiniteSums

\* What some proofs are worth: more of them are not worth less.
LEMMA WorthGrows ==
    /\ Worth({}) = 0
    /\ \A R \in SUBSET Proof : Worth(R) \in Nat /\ \A S \in SUBSET R : Worth(S) <= Worth(R)
<1>1. \A S : Worth(S) = SumOver(Value, S)
    BY DEF Worth, MapThenSumSet, MapThenFoldSet, SumOver, Sums, Adds
<1>2. Worth({}) = 0
    BY <1>1, FS_EmptySet, SumTyped
<1>3. ASSUME NEW R \in SUBSET Proof
      PROVE  Worth(R) \in Nat /\ \A S \in SUBSET R : Worth(S) <= Worth(R)
    <2>1. IsFiniteSet(R) /\ \A p \in R : Value[p] \in Nat /\ Value[p] >= 0
        BY ValueAssumptions, FS_Subset
    <2>2. SumOver(Value, R) \in Nat
        BY <2>1, SumTyped
    <2>3. \A S \in SUBSET R : SumOver(Value, S) <= SumOver(Value, R)
        <3> DEFINE none == 0
        <3>1. none \in {0, 1} /\ \A p \in R : Value[p] \in Nat /\ Value[p] >= none
            BY <2>1
        <3> HIDE DEF none
        <3> QED
            BY <2>1, <3>1, SumGrows
    <2> QED
        BY <1>1, <2>2, <2>3
<1> QED
    BY <1>2, <1>3

\* The preemptive swap makes enough for the payment.
LEMMA SwapIsEnough == \A t \in Transfer : Need[t] <= Worth({<<t, "swap">>})
<1> SUFFICES ASSUME NEW t \in Transfer PROVE Need[t] <= Worth({<<t, "swap">>})
    OBVIOUS
<1> DEFINE p == <<t, "swap">>
<1>1. p \in Proof /\ Value[p] \in Nat /\ Need[t] <= Value[p] /\ Need[t] \in Nat
    BY TransferAssumptions, ValueAssumptions DEF Role
<1> HIDE DEF p
<1>2. IsFiniteSet({p}) /\ \A x \in {p} : Value[x] \in Nat
    BY <1>1, FS_Singleton
<1>3. OneOf({p}) = p /\ {p} \ {p} = {}
    BY DEF OneOf
<1>4. SumOver(Value, {p}) = Value[p] + SumOver(Value, {})
    BY <1>2, <1>3, SumStep
<1>5. SumOver(Value, {}) = 0
    BY <1>2, SumTyped
<1>6. Worth({p}) = SumOver(Value, {p})
    BY DEF Worth, MapThenSumSet, MapThenFoldSet, SumOver, Sums, Adds
<1> QED
    BY <1>1, <1>4, <1>5, <1>6 DEF p

\* The records keep their fields and the tables their domains.
Shapes ==
    /\ DOMAIN status = Tx
    /\ DOMAIN quote = Transfer
    /\ \A t \in Transfer : DOMAIN quote[t] = {"state", "inputs", "blank"}
    /\ DOMAIN visit = Worker
    /\ \A w \in Worker : DOMAIN visit[w] = {"pc", "tx", "mode", "seen", "pending", "change"}
    /\ DOMAIN job = {"pc", "tx", "row", "inputs", "attempt", "answer", "seen", "change"}

Paid(t) == t \in Transfer /\ quote[t].state = "PAID"

\* A visit that has seen PAID visits a paid transfer, and only such a visit settles.
VisitKnows(v) ==
    /\ v.pc # "none" => v.tx \in Transfer
    /\ v.seen = "PAID" => Paid(v.tx)
    /\ v.pc \in {"unblind", "settle"} => v.seen = "PAID"

\* The same of the transfer task, which learns it from an answer or from the re-check.
JobKnows ==
    /\ job.pc # "idle" => job.tx \in Transfer
    /\ "PAID" \in {job.seen, job.answer} => Paid(job.tx)
    /\ job.pc = "rescue" => job.seen = "PAID"

IInv ==
    /\ Shapes
    /\ \A w \in Worker : VisitKnows(visit[w])
    /\ JobKnows
    /\ CompletedOnlyIfPaid

\* At the start nobody has seen anything.
LEMMA InitStep == Init => IInv
<1> SUFFICES ASSUME Init PROVE IInv
    OBVIOUS
<1>1. Shapes
    BY TransferAssumptions DEF Init, Shapes, NoVisit, IdleJob
<1>2. \A w \in Worker : VisitKnows(visit[w])
    BY DEF Init, VisitKnows, NoVisit
<1>3. JobKnows
    BY DEF Init, JobKnows, IdleJob
<1>4. CompletedOnlyIfPaid
    BY TransferAssumptions DEF Init, CompletedOnlyIfPaid
<1> QED
    BY <1>1, <1>2, <1>3, <1>4 DEF IInv

\* The task, between two awaits: it settles on what it was told.
LEMMA JobRunsStep == IInv /\ JobRuns => IInv'
<1> SUFFICES ASSUME IInv, JobRuns PROVE IInv'
    OBVIOUS
<1> USE DEF IInv, Shapes, JobKnows, VisitKnows, Paid, CompletedOnlyIfPaid, mintVars, queueVars
<1>1. CASE Lock
    BY <1>1 DEF Lock
<1>2. CASE Prepared
    BY <1>2 DEF Prepared, SetStatus
<1>3. CASE Execute
    BY <1>3 DEF Execute, SetStatus
<1>4. CASE SettlePaid
    BY <1>4 DEF SettlePaid, SetStatus, IdleJob
<1>5. CASE SettlePending
    BY <1>5 DEF SettlePending, SetStatus, IdleJob
<1>6. CASE SettleUnpaid
    BY <1>6 DEF SettleUnpaid
<1>7. CASE Fail
  <2>1. (Shapes /\ JobKnows)'
      BY <1>7 DEF Fail, SetStatus, IdleJob
  <2>2. (\A v \in Worker : VisitKnows(visit[v]))'
      BY <1>7 DEF Fail, SetStatus, IdleJob
  <2>3. CompletedOnlyIfPaid'
    <3>1. CASE status[job.tx] \in {"PENDING", "RECOVERED", "ERROR"}
        BY <1>7, <3>1, TransferAssumptions DEF Fail, SetStatus, IdleJob
    <3>2. CASE status[job.tx] \notin {"PENDING", "RECOVERED", "ERROR"}
        BY <1>7, <3>2, TransferAssumptions DEF Fail, SetStatus, IdleJob
    <3> QED
        BY <3>1, <3>2
  <2> QED
      BY <2>1, <2>2, <2>3 DEF IInv
<1>8. CASE Rescued
    BY <1>8 DEF Rescued, SetStatus, NoVisit, Queue, Worker
<1>9. CASE OnchainChecked
    BY <1>9 DEF OnchainChecked, Enter, EntryPc, NoVisit, Queue, Screen, Worker, Bolt, IdleJob
<1> QED
    BY <1>1, <1>2, <1>3, <1>4, <1>5, <1>6, <1>7, <1>8, <1>9 DEF JobRuns

\* The sync enters visits, and writes no final status but ERROR.
LEMMA SyncRunsStep == IInv /\ SyncRuns => IInv'
<1> SUFFICES ASSUME IInv, SyncRuns PROVE IInv'
    OBVIOUS
<1> USE DEF IInv, Shapes, JobKnows, VisitKnows, Paid, CompletedOnlyIfPaid, mintVars, queueVars
<1>1. CASE Dispatched
  <2>1. (Shapes /\ JobKnows)'
      BY <1>1 DEF Dispatched, SetStatus, NoVisit, Queue, Worker
  <2>2. (\A v \in Worker : VisitKnows(visit[v]))'
      BY <1>1 DEF Dispatched, SetStatus, NoVisit, Queue, Worker
  <2>3. CompletedOnlyIfPaid'
    <3>1. CASE visit[Queue].pc = "threw"
        BY <1>1, <3>1, TransferAssumptions DEF Dispatched, SetStatus, NoVisit, Queue, Worker
    <3>2. CASE visit[Queue].pc # "threw"
        BY <1>1, <3>2, TransferAssumptions DEF Dispatched, SetStatus, NoVisit, Queue, Worker
    <3> QED
        BY <3>1, <3>2
  <2> QED
      BY <2>1, <2>2, <2>3 DEF IInv
<1>2. CASE Register
    BY <1>2 DEF Register
<1>3. CASE Unregister
    BY <1>3 DEF Unregister
<1>4. CASE GoneRefreshed
  <2>1. (Shapes /\ JobKnows)'
      BY <1>4 DEF GoneRefreshed, SetStatus, NoVisit, Queue, Worker
  <2>2. (\A v \in Worker : VisitKnows(visit[v]))'
      BY <1>4 DEF GoneRefreshed, SetStatus, NoVisit, Queue, Worker
  <2>3. CompletedOnlyIfPaid'
    <3>1. CASE visit[Queue].pc = "threw"
        BY <1>4, <3>1, TransferAssumptions DEF GoneRefreshed, SetStatus, NoVisit, Queue, Worker
    <3>2. CASE visit[Queue].pc # "threw"
        BY <1>4, <3>2, TransferAssumptions DEF GoneRefreshed, SetStatus, NoVisit, Queue, Worker
    <3> QED
        BY <3>1, <3>2
  <2> QED
      BY <2>1, <2>2, <2>3 DEF IInv
<1>5. CASE Synced
    BY <1>5 DEF Synced
<1>6. ASSUME NEW t \in Tx, SettleShort(t) PROVE IInv'
    BY <1>6 DEF SettleShort, SetStatus
<1>7. ASSUME NEW t \in Tx, SkipSettled(t) PROVE IInv'
    BY <1>7 DEF SkipSettled
<1>8. ASSUME NEW t \in Tx, Dispatch(t) PROVE IInv'
    BY <1>8 DEF Dispatch, Enter, EntryPc, NoVisit, Queue, Screen, Worker, Bolt
<1>9. ASSUME NEW t \in Tx, RefreshGone(t) PROVE IInv'
    BY <1>9 DEF RefreshGone, Enter, EntryPc, NoVisit, Queue, Screen, Worker, Bolt
<1> QED
    BY <1>1, <1>2, <1>3, <1>4, <1>5, <1>6, <1>7, <1>8, <1>9 DEF SyncRuns

\* A visit, between two awaits: only one that has seen PAID settles.
LEMMA VisitRunsStep == IInv /\ VisitRuns => IInv'
<1> SUFFICES ASSUME IInv, VisitRuns PROVE IInv'
    OBVIOUS
<1> USE DEF IInv, Shapes, JobKnows, VisitKnows, Paid, CompletedOnlyIfPaid, mintVars, queueVars
<1>1. ASSUME NEW w \in Worker, ReleaseFailed(w) PROVE IInv'
    BY <1>1 DEF ReleaseFailed, EndVisit, Ended, GoOn, NoVisit, SetStatus
<1>2. ASSUME NEW w \in Worker, MarkReverted(w) PROVE IInv'
    BY <1>2 DEF MarkReverted, EndVisit, Ended, GoOn, NoVisit, SetStatus
<1>3. ASSUME NEW w \in Worker, SettleVisit(w) PROVE IInv'
    BY <1>3 DEF SettleVisit, EndVisit, Ended, GoOn, NoVisit, SetStatus
<1> QED
    BY <1>1, <1>2, <1>3 DEF VisitRuns

\* The task comes back from an await.
LEMMA JobResumesStep == IInv /\ JobResumes => IInv'
<1> SUFFICES ASSUME IInv, JobResumes PROVE IInv'
    OBVIOUS
<1> USE DEF IInv, Shapes, JobKnows, VisitKnows, Paid, CompletedOnlyIfPaid, mintVars, queueVars
<1>1. CASE Select
    BY <1>1 DEF Select
<1>2. CASE CommitSwap
    BY <1>2 DEF CommitSwap
<1>3. CASE Submit
    BY <1>3 DEF Submit
<1>4. CASE TakeAnswer
    BY <1>4 DEF TakeAnswer
<1>5. CASE TakeError
    BY <1>5 DEF TakeError
<1>6. CASE Recheck
    BY <1>6 DEF Recheck
<1>7. CASE JudgePaid
    BY <1>7 DEF JudgePaid, NoVisit, Queue, Worker
<1>8. CASE JudgePending
    BY <1>8 DEF JudgePending
<1>9. CASE JudgeUnpaid
    BY <1>9 DEF JudgeUnpaid, StartSync
<1>10. CASE NestedDone
    BY <1>10 DEF NestedDone, StartSync
<1> QED
    BY <1>1, <1>2, <1>3, <1>4, <1>5, <1>6, <1>7, <1>8, <1>9, <1>10 DEF JobResumes

\* The sync comes back from an await.
LEMMA SyncResumesStep == IInv /\ SyncResumes => IInv'
<1> SUFFICES ASSUME IInv, SyncResumes PROVE IInv'
    OBVIOUS
<1> USE DEF IInv, Shapes, JobKnows, VisitKnows, Paid, CompletedOnlyIfPaid, mintVars, queueVars
<1>1. CASE Check
    BY <1>1 DEF Check
<1>2. CASE WriteOff
    BY <1>2 DEF WriteOff
<1>3. CASE MarkPending
  <2>1. (Shapes /\ JobKnows)'
      BY <1>3 DEF MarkPending
  <2>2. (\A v \in Worker : VisitKnows(visit[v]))'
      BY <1>3 DEF MarkPending
  <2>3. CompletedOnlyIfPaid'
      BY <1>3, TransferAssumptions DEF MarkPending
  <2> QED
      BY <2>1, <2>2, <2>3 DEF IInv
<1> QED
    BY <1>1, <1>2, <1>3 DEF SyncResumes

\* Reading again turns EXPIRING into EXPIRED and nothing else.
Rereads == \A t \in Tx : status'[t] = status[t] \/ (status[t] = "EXPIRING" /\ status'[t] = "EXPIRED")
LEMMA ReadingAgain == ASSUME NEW T, status' = ReadAgain(T) PROVE Rereads /\ DOMAIN status' = Tx
BY DEF ReadAgain, Rereads

\* A visit comes back from an await, with the quote or with the wallet instance.
LEMMA VisitResumesStep == IInv /\ VisitResumes => IInv'
<1> SUFFICES ASSUME IInv, VisitResumes PROVE IInv'
    OBVIOUS
<1> USE DEF IInv, Shapes, JobKnows, VisitKnows, Paid, CompletedOnlyIfPaid, mintVars, queueVars
<1>1. ASSUME NEW w \in Worker, AskQuote(w) PROVE IInv'
    BY <1>1 DEF AskQuote
<1>2. ASSUME NEW w \in Worker, SeesPaid(w) PROVE IInv'
    BY <1>2 DEF SeesPaid
<1>3. ASSUME NEW w \in Worker, SeesUnpaid(w) PROVE IInv'
    BY <1>3 DEF SeesUnpaid, EndVisit, Ended, GoOn, NoVisit, SetStatus
<1>4. ASSUME NEW w \in Worker, SeesForRecovery(w) PROVE IInv'
  <2>0. /\ UNCHANGED <<quote, job>>
        /\ status' = [status EXCEPT ![visit[w].tx] = "ERROR"] \/ (Rereads /\ DOMAIN status' = Tx)
      BY <1>4, ReadingAgain DEF SeesForRecovery, SetStatus
  <2>1. (Shapes /\ JobKnows)'
      BY <1>4, <2>0 DEF SeesForRecovery, EndVisit, Ended, NoVisit
  <2>2. (\A v \in Worker : VisitKnows(visit[v]))'
      BY <1>4, <2>0 DEF SeesForRecovery, EndVisit, Ended, NoVisit
  <2>3. CompletedOnlyIfPaid'
      BY <2>0, TransferAssumptions DEF Rereads
  <2> QED
      BY <2>1, <2>2, <2>3
<1>5. ASSUME NEW w \in Worker, Unblind(w) PROVE IInv'
  <2>1. (Shapes /\ JobKnows)'
      BY <1>5 DEF Unblind, EndVisit, Ended, GoOn, NoVisit, SetStatus
  <2>2. (\A v \in Worker : VisitKnows(visit[v]))'
      BY <1>5 DEF Unblind, EndVisit, Ended, GoOn, NoVisit, SetStatus
  <2>3. CompletedOnlyIfPaid'
    <3>1. CASE visit[w].mode = "recover" /\ {p \in visit[w].change : mem[p] = Absent} = {}
        BY <1>5, <3>1, TransferAssumptions DEF Unblind, EndVisit, Ended, GoOn, NoVisit, SetStatus
    <3>2. CASE ~(visit[w].mode = "recover" /\ {p \in visit[w].change : mem[p] = Absent} = {})
        BY <1>5, <3>2, TransferAssumptions DEF Unblind, EndVisit, Ended, GoOn, NoVisit, SetStatus
    <3> QED
        BY <3>1, <3>2
  <2> QED
      BY <2>1, <2>2, <2>3 DEF IInv
<1> QED
    BY <1>1, <1>2, <1>3, <1>4, <1>5 DEF VisitResumes

\* Lost calls.
LEMMA FailuresStep == IInv /\ Failures => IInv'
<1> SUFFICES ASSUME IInv, Failures PROVE IInv'
    OBVIOUS
<1> USE DEF IInv, Shapes, JobKnows, VisitKnows, Paid, CompletedOnlyIfPaid, mintVars, queueVars
<1>1. CASE SwapFails
    BY <1>1 DEF SwapFails
<1>2. CASE LoseAnswer
    BY <1>2 DEF LoseAnswer
<1>3. CASE RecheckFails
    BY <1>3 DEF RecheckFails
<1>4. CASE CheckFails
    BY <1>4 DEF CheckFails
<1>5. ASSUME NEW w \in Worker, AskFails(w) PROVE IInv'
    BY <1>5 DEF AskFails, EndVisit, Ended, GoOn, NoVisit, SetStatus
<1>6. ASSUME NEW w \in Worker, UnblindFails(w) PROVE IInv'
  <2>1. (Shapes /\ JobKnows)'
      BY <1>6 DEF UnblindFails, EndVisit, Ended, GoOn, NoVisit, SetStatus
  <2>2. (\A v \in Worker : VisitKnows(visit[v]))'
      BY <1>6 DEF UnblindFails, EndVisit, Ended, GoOn, NoVisit, SetStatus
  <2>3. CompletedOnlyIfPaid'
    <3>1. CASE visit[w].mode = "recover"
        BY <1>6, <3>1, TransferAssumptions
           DEF UnblindFails, EndVisit, Ended, GoOn, NoVisit, SetStatus
    <3>2. CASE visit[w].mode # "recover"
        BY <1>6, <3>2, TransferAssumptions
           DEF UnblindFails, EndVisit, Ended, GoOn, NoVisit, SetStatus
    <3> QED
        BY <3>1, <3>2
  <2> QED
      BY <2>1, <2>2, <2>3 DEF IInv
<1> QED
    BY <1>1, <1>2, <1>3, <1>4, <1>5, <1>6 DEF Failures

\* Whoever starts to look at a transfer knows nothing yet.
LEMMA StartsStep == IInv /\ Starts => IInv'
<1> SUFFICES ASSUME IInv, Starts PROVE IInv'
    OBVIOUS
<1> USE DEF IInv, Shapes, JobKnows, VisitKnows, Paid, CompletedOnlyIfPaid, mintVars, queueVars
<1>1. ASSUME NEW t \in Transfer, StartTransfer(t) PROVE IInv'
    BY <1>1 DEF StartTransfer, SetStatus, IdleJob
<1>2. ASSUME NEW t \in Transfer, CheckOnchain(t) PROVE IInv'
    BY <1>2 DEF CheckOnchain, Enter, EntryPc, NoVisit, Queue, Screen, Worker, Bolt, IdleJob
<1>3. ASSUME NEW t \in Transfer, RecoverByHand(t) PROVE IInv'
    BY <1>3 DEF RecoverByHand, Enter, EntryPc, NoVisit, Queue, Screen, Worker, Bolt
<1>4. ASSUME NEW t \in Transfer, MonitorRefreshes(t) PROVE IInv'
    BY <1>4 DEF MonitorRefreshes, Enter, EntryPc, NoVisit, Queue, Screen, Worker, Bolt
<1>5. ASSUME NEW s \in {"PENDING", "UNSPENT"}, SyncAll(s) PROVE IInv'
    BY <1>5 DEF SyncAll
<1>6. ASSUME NEW t \in Dated, ExpireTransfer(t) \/ ReloadTransfer(t) PROVE IInv'
  <2>1. /\ UNCHANGED <<quote, job, visit>> /\ DOMAIN status' = Tx /\ t \in Transfer
        /\ \A u \in Tx : status'[u] # status[u] => status'[u] \in {"EXPIRING", "EXPIRED"}
      BY <1>6, TransferAssumptions, ReadingAgain DEF ExpireTransfer, ReloadTransfer, SetStatus, Rereads
  <2> QED
      BY <2>1, TransferAssumptions
<1> QED
    BY <1>1, <1>2, <1>3, <1>4, <1>5, <1>6 DEF Starts

\* The mint's answers are true when it gives them.
LEMMA MintStepsStep == IInv /\ MintSteps => IInv'
<1> SUFFICES ASSUME IInv, MintSteps PROVE IInv'
    OBVIOUS
<1> USE DEF IInv, Shapes, JobKnows, VisitKnows, Paid, CompletedOnlyIfPaid, mintVars, queueVars
<1>1. CASE MintSwaps
    BY <1>1 DEF MintSwaps
<1>2. ASSUME NEW q \in net, TakeMelt(q) PROVE IInv'
    BY <1>2 DEF TakeMelt
<1>3. ASSUME NEW q \in net, RefuseMelt(q) PROVE IInv'
    BY <1>3 DEF RefuseMelt, Reply
<1>4. ASSUME NEW t \in Transfer, AnswerMelt(t) PROVE IInv'
    BY <1>4 DEF AnswerMelt
<1> QED
    BY <1>1, <1>2, <1>3, <1>4 DEF MintSteps

\* PAID is terminal at the mint, so they stay true.
LEMMA NetworkStepsStep == IInv /\ NetworkSteps => IInv'
<1> SUFFICES ASSUME IInv, NetworkSteps PROVE IInv'
    OBVIOUS
<1> USE DEF IInv, Shapes, JobKnows, VisitKnows, Paid, CompletedOnlyIfPaid, mintVars, queueVars
<1>1. ASSUME NEW t \in Transfer, Broadcast(t) PROVE IInv'
    BY <1>1 DEF Broadcast
<1>2. ASSUME NEW t \in Transfer, PaymentSucceeds(t) PROVE IInv'
    BY <1>2 DEF PaymentSucceeds
<1>3. ASSUME NEW t \in Transfer, PaymentFails(t) PROVE IInv'
    BY <1>3 DEF PaymentFails
<1> QED
    BY <1>1, <1>2, <1>3 DEF NetworkSteps

\* A process that comes back has no worker yet.
LEMMA RestartStep == IInv /\ Restart => IInv'
<1> SUFFICES ASSUME IInv, Restart PROVE IInv'
    OBVIOUS
<1> USE DEF IInv, Shapes, JobKnows, VisitKnows, Paid, CompletedOnlyIfPaid, mintVars, queueVars
<1>1. CASE Load
    BY <1>1 DEF Load
<1>2. CASE Recovered
    BY <1>2 DEF Recovered
<1>3. ASSUME NEW r \in rows, RecoverOrphan(r) PROVE IInv'
    BY <1>3 DEF RecoverOrphan, transferVars
<1> QED
    BY <1>1, <1>2, <1>3 DEF Restart

\* The invariant is inductive.
LEMMA NextStep == IInv /\ [Next]_vars => IInv'
<1> SUFFICES ASSUME IInv, [Next]_vars PROVE IInv'
    OBVIOUS
<1>1. CASE Running
    BY <1>1, JobRunsStep, SyncRunsStep, VisitRunsStep DEF Running
<1>2. CASE Resuming
    BY <1>2, JobResumesStep, SyncResumesStep, VisitResumesStep DEF Resuming
<1>3. CASE Failures \/ Starts
    BY <1>3, FailuresStep, StartsStep
<1>4. CASE MintSteps \/ NetworkSteps
    BY <1>4, MintStepsStep, NetworkStepsStep
<1>5. CASE Crash
    BY <1>5, ReadingAgain, TransferAssumptions DEF Crash, Rereads, IdleJob, NoVisit, IInv, Shapes, JobKnows, VisitKnows, Paid,
       CompletedOnlyIfPaid, mintVars
<1>6. CASE Restart
    BY <1>6, RestartStep
<1>7. CASE UNCHANGED vars
    BY <1>7 DEF vars, transferVars, mintVars, queueVars, IInv, Shapes, VisitKnows, JobKnows,
       Paid, CompletedOnlyIfPaid
<1> QED
    BY <1>1, <1>2, <1>3, <1>4, <1>5, <1>6, <1>7 DEF Next

\* Whatever crashes, is lost or runs past whatever else: a payment the wallet shows as
\* made has been made.
THEOREM PaidBeforeCompleted == Spec => []CompletedOnlyIfPaid
<1>1. IInv => CompletedOnlyIfPaid
    BY DEF IInv
<1> QED
    BY <1>1, InitStep, NextStep, PTL DEF Spec

------------------------------------------------------------------------------
(* Orderly: no lost call, no crash, no late wallet instance.               *)

\* The blank outputs for the change of t; the proofs the task has locked; the transfers it is at.
Blanks(t) == {<<t, "change1">>, <<t, "change2">>}
Holding == {"swap", "lock", "locked", "prepared", "submit", "wait", "settle", "recheck", "judge"}
Own(p) == job.pc \in Holding /\ p \in job.inputs
Busy(t) == job.tx = t /\ job.pc \in Holding \cup {"select", "fail"}

\* The mint has accepted the melt of t at some time; it holds its inputs or has taken them.
Taken(t) == quote[t].inputs # {}
Standing(t) == quote[t].state # "UNPAID"
Melted(p) == mem[p].tx \in Transfer /\ p \in quote[mem[p].tx].inputs

Answers == {"UNPAID", "PENDING", "PAID"}

MemRec == [state : ProofState \cup {"none"}, tx : Tx \cup {NoTx}]

\* Types, where no call is lost and the process does not die.
Typed ==
    /\ phase = "up"
    /\ disk = mem /\ mem \in [Proof -> MemRec]
    /\ \A p \in Proof : IF mem[p].state = "none" THEN mem[p] = Absent ELSE mem[p].tx \in Tx
    /\ job.inputs \in SUBSET Proof
    /\ net \subseteq [tx : Transfer, inputs : SUBSET Proof, blank : SUBSET Proof]
    /\ DOMAIN change = Transfer
    /\ \A t \in Transfer : quote[t].inputs \in SUBSET Proof
    /\ \A w \in Worker : visit[w].pending \in SUBSET Proof
    /\ DOMAIN sync = {"pc", "from", "batch", "spent", "pend", "todo", "short", "ids", "at"}
    /\ sync.batch \in SUBSET Proof

\* The task asks the mint once, keeps the answer, and gives up only what the mint has not taken.
JobOrderly ==
    /\ job.pc \in Holding \cup {"idle", "checking", "select", "fail"}
    /\ job.change \subseteq Blanks(job.tx)
    /\ job.pc = "select" => job.answer = "none"
    /\ job.pc \in {"select", "swap", "lock", "locked", "prepared", "submit"} => ~Taken(job.tx)
    /\ job.pc = "wait" => job.answer \in Answers \cup {"none", "signed"}
    /\ job.pc = "wait" /\ job.answer = "signed" => ~Taken(job.tx)
    /\ job.pc = "settle" => job.answer \in Answers
    /\ job.pc \in {"wait", "settle"} /\ Taken(job.tx) => quote[job.tx].inputs = job.inputs
    /\ job.pc \in {"wait", "settle"} /\ job.answer \in Answers => Taken(job.tx)
    /\ job.pc \in {"wait", "settle"} /\ job.answer = "UNPAID" => ~Standing(job.tx)
    /\ job.pc \in {"recheck", "judge"} => ~Taken(job.tx) /\ job.answer = "signed"
    /\ job.pc = "judge" => job.seen = "UNPAID"
    /\ job.pc = "fail" => ~Standing(job.tx)

NetOrderly ==
    /\ \A q, r \in net : q = r
    /\ \A q \in net :
        /\ job.pc = "wait" /\ job.answer = "none"
        /\ q.tx = job.tx /\ q.inputs = job.inputs /\ q.blank \subseteq Blanks(q.tx)
        /\ ~Taken(q.tx)

\* What the mint takes covers the amount and the reserve, and is spent as a whole.
QuoteOrderly ==
    \A t \in Transfer :
        /\ quote[t].state \in Answers
        /\ Standing(t) => Taken(t)
        /\ Taken(t) => Worth(quote[t].inputs) >= Need[t]
        /\ quote[t].blank \subseteq Blanks(t)
        /\ change[t] \subseteq Blanks(t)
        /\ change[t] # {} => Taken(t)
        /\ Standing(t) /\ quote[t].inputs \cap mintSpent # {} =>
            quote[t].inputs \subseteq mintSpent /\ (t \in Bolt => quote[t].state = "PAID")
        /\ quote[t].state = "PAID" => quote[t].inputs \subseteq mintSpent

StatusOrderly ==
    \A t \in Transfer :
        /\ status[t] = "none" => ~Taken(t) /\ ~Busy(t)
        /\ status[t] \in {"PENDING", "EXPIRING"} => Taken(t) /\ ~Busy(t)
        /\ status[t] = "REVERTED" => Taken(t) /\ ~Standing(t)
        /\ status[t] = "COMPLETED" => \A p \in quote[t].inputs : mem[p].state = "SPENT"

Working == {"ask", "act", "unblind", "release", "revert", "settle"}

\* A visit that is not a recovery visits a transfer the task is done with; when it settles it has
\* captured every input that is still PENDING.
VisitOrderly(v) ==
    /\ v.pc = "none" => v.change = {}
    /\ v.change \subseteq Blanks(v.tx)
    /\ v.change # {} => Taken(v.tx)
    /\ v.pc = "act" => v.seen \in Answers
    /\ v.pc = "settle" => \A p \in v.change : mem[p].state \in {"none", "UNSPENT"}
    /\ v.mode = "recover" => v.pending = {} /\ v.pc \notin {"release", "revert"}
    /\ v.mode # "recover" /\ v.pc \in Working => Taken(v.tx) /\ ~Busy(v.tx)
    /\ v.mode # "recover" /\ v.pc \in Working /\ v.seen = "UNPAID" => ~Standing(v.tx)
    /\ v.pc \in {"release", "revert"} => v.seen = "UNPAID"
    /\ v.mode # "recover" /\ v.pc \in {"unblind", "settle"} =>
        /\ v.pending \subseteq quote[v.tx].inputs
        /\ \A p \in quote[v.tx].inputs : mem[p].state = "PENDING" => p \in v.pending

VisitsOrderly == \A w \in Worker : VisitOrderly(visit[w])

\* A sync finds all inputs of a payment or none, so it never takes a payment for a short one.
SyncOrderly ==
    /\ sync.pc = "idle" => sync = IdleSync
    /\ sync.pc # "idle" => job.pc = "idle"
    /\ sync.from \in {"PENDING", "UNSPENT"}
    /\ sync.short = {}
    /\ sync.spent \subseteq sync.batch \cap mintSpent /\ sync.pend \subseteq sync.batch
    /\ sync.from = "UNSPENT" => /\ sync.spent = {} /\ sync.pend = {}
                                /\ \A p \in sync.batch : mem[p].state = "UNSPENT"
    /\ sync.from = "PENDING" => \A p \in sync.batch :
        /\ mem[p].tx \in Transfer /\ Taken(mem[p].tx)
        /\ mem[p].state # "UNSPENT" => p \in quote[mem[p].tx].inputs
        /\ mem[p].state # "UNSPENT" /\ sync.pc \in {"check", "move"} =>
            quote[mem[p].tx].inputs \subseteq sync.batch
    /\ sync.pc = "move" => \A p \in sync.spent : quote[mem[p].tx].inputs \subseteq sync.spent
    /\ sync.pc \in {"settle", "settling"} => \A t \in sync.todo :
        /\ t \in Transfer /\ Standing(t) /\ quote[t].inputs \subseteq mintSpent
        /\ t \in Bolt => quote[t].state = "PAID"
    /\ sync.ids \subseteq {t \in Transfer : Taken(t)}
    /\ sync.pc = "settling" => sync.at \in Transfer /\ Taken(sync.at)

\* What the task has locked is its own, with the record to put back.
LockOrderly ==
    job.pc \in Holding =>
        /\ \A p \in job.inputs : mem[p] = Held("PENDING", job.tx)
        /\ job.pc # "lock" =>
            /\ DOMAIN job.row.locked = job.inputs
            /\ \A p \in job.inputs : job.row.locked[p] \in [state : {"UNSPENT"}, tx : Tx]
        /\ job.pc # "swap" => Worth(job.inputs) >= Need[job.tx]
        /\ job.pc = "swap" /\ job.answer = "swapped" => job.inputs \subseteq mintSpent

Swapping(p) == job.pc = "swap" /\ job.answer = "swapped" /\ p \in job.inputs

\* Locked ecash is the task's or the mint's; what the mint has taken is not spendable.
ProofOrderly(p) ==
    /\ mem[p].state = "PENDING" => Own(p) \/ Melted(p)
    /\ mem[p].state = "SPENT" => p \in mintSpent /\ mem[p].tx \in Transfer
    /\ mem[p].state = "SPENT" /\ Melted(p) => Standing(mem[p].tx)
    /\ p \in mintSpent => mem[p].state \in {"PENDING", "SPENT"}
    /\ p \in mintSpent /\ mem[p].state = "PENDING" =>
        Swapping(p) \/ (Melted(p) /\ Standing(mem[p].tx))

\* The inputs of a payment stay together; outputs appear when the mint has signed them.
EcashOrderly(t) ==
    /\ Standing(t) => \A p \in quote[t].inputs : mem[p].tx = t /\ mem[p].state \in {"PENDING", "SPENT"}
    /\ \A p, r \in quote[t].inputs : mem[p] = Held("PENDING", t) => mem[r] = Held("PENDING", t)
    /\ status[t] = "none" \/ (job.tx = t /\ job.pc \in {"select", "swap"}) =>
        \A r \in Role : mem[<<t, r>>] = Absent
    /\ Busy(t) => \A p \in Blanks(t) : mem[p].state \in {"none", "UNSPENT"}

StoreOrderly ==
    /\ \A p \in Proof : ProofOrderly(p)
    /\ \A t \in Transfer : EcashOrderly(t)

Orderly ==
    /\ Typed /\ JobOrderly /\ NetOrderly /\ QuoteOrderly /\ StatusOrderly
    /\ VisitsOrderly /\ SyncOrderly /\ LockOrderly /\ StoreOrderly

OrderlyIfNoLoss == OnlyMishaps({"signed", "byhand"}) => Orderly

\* The parts of the order, each with the state it is about.
LEMMA Frames ==
    ASSUME Orderly
    PROVE  /\ (UNCHANGED <<phase, disk, mem, job, net, change, quote, visit, sync>> => Typed')
           /\ (UNCHANGED <<job, quote>> => JobOrderly')
           /\ (UNCHANGED <<net, job, quote>> => NetOrderly')
           /\ (UNCHANGED <<quote, change, mintSpent>> => QuoteOrderly')
           /\ (UNCHANGED <<status, quote, job, mem>> => StatusOrderly')
           /\ (UNCHANGED <<visit, quote, mem, job>> => VisitsOrderly')
           /\ (UNCHANGED <<sync, job, mem, quote, mintSpent>> => SyncOrderly')
           /\ (UNCHANGED <<job, mem, mintSpent>> => LockOrderly')
           /\ (UNCHANGED <<mem, job, quote, mintSpent, status>> => StoreOrderly')
<1>1. UNCHANGED <<phase, disk, mem, job, net, change, quote, visit, sync>> => Typed'
    BY DEF Orderly, Typed, MemRec
<1>2. UNCHANGED <<job, quote>> => JobOrderly'
    BY DEF Orderly, JobOrderly, Taken, Standing, Holding, Blanks, Answers
<1>3. UNCHANGED <<net, job, quote>> => NetOrderly'
    BY DEF Orderly, NetOrderly, Taken, Blanks
<1>4. UNCHANGED <<quote, change, mintSpent>> => QuoteOrderly'
    BY DEF Orderly, QuoteOrderly, Standing, Taken, Blanks, Answers
<1>5. UNCHANGED <<status, quote, job, mem>> => StatusOrderly'
    BY DEF Orderly, StatusOrderly, Standing, Taken, Busy, Holding
<1>6. UNCHANGED <<visit, quote, mem, job>> => VisitsOrderly'
    BY DEF Orderly, VisitsOrderly, VisitOrderly, Working, Standing, Taken, Busy, Holding, Blanks, Answers
<1>7. UNCHANGED <<sync, job, mem, quote, mintSpent>> => SyncOrderly'
    BY DEF Orderly, SyncOrderly, Standing, Taken, IdleSync
<1>8. UNCHANGED <<job, mem, mintSpent>> => LockOrderly'
    BY DEF Orderly, LockOrderly, Holding, Held
<1>9. UNCHANGED <<mem, job, quote, mintSpent, status>> => StoreOrderly'
    BY DEF Orderly, StoreOrderly, ProofOrderly, EcashOrderly, Own, Melted, Swapping, Standing, Taken, Busy, Holding, Blanks, Held
<1> QED
    BY <1>1, <1>2, <1>3, <1>4, <1>5, <1>6, <1>7, <1>8, <1>9

\* Blank outputs are proofs.
LEMMA BlanksAreProofs == \A t \in Transfer : Blanks(t) \subseteq Proof
BY TransferAssumptions DEF Blanks, Role

\* A record of the store is its state and its owner.
LEMMA Records == ASSUME Typed PROVE \A p \in Proof : mem[p] = Held(mem[p].state, mem[p].tx)
BY DEF Typed, MemRec, Held

\* A commit that writes off S and stores C.
LEMMA CommitMoves ==
    ASSUME Typed, NEW r, NEW S \in SUBSET Proof, NEW C \in SUBSET Proof, NEW t \in Tx,
           Commit(r, S, {}, Unspent(C, t)),
           \A p \in S : mem[p].state # "none" /\ p \notin C,
           \A p \in C : mem[p].state # "SPENT"
    PROVE  /\ disk' = mem'
           /\ mem' = [p \in Proof |-> IF p \in C THEN Held("UNSPENT", t)
                                      ELSE IF p \in S THEN Held("SPENT", mem[p].tx) ELSE mem[p]]
<1> DEFINE new == [p \in Proof |-> IF p \in C THEN Held("UNSPENT", t)
                                      ELSE IF p \in S THEN Held("SPENT", mem[p].tx) ELSE mem[p]]
<1>1. DOMAIN Unspent(C, t) = C /\ \A p \in C : Unspent(C, t)[p] = Held("UNSPENT", t)
    BY DEF Unspent
<1>2. \A p \in S : mem[p] # Absent /\ [mem[p] EXCEPT !.state = "SPENT"] = Held("SPENT", mem[p].tx)
  <2> SUFFICES ASSUME NEW p \in S PROVE mem[p] # Absent /\ [mem[p] EXCEPT !.state = "SPENT"] = Held("SPENT", mem[p].tx)
      OBVIOUS
  <2>1. mem[p] = Held(mem[p].state, mem[p].tx)
      BY Records
  <2>2. mem[p] # Absent
      BY DEF Absent, Held
  <2>3. [Held(mem[p].state, mem[p].tx) EXCEPT !.state = "SPENT"] = Held("SPENT", mem[p].tx)
      BY DEF Held
  <2> QED
      BY <2>1, <2>2, <2>3
<1>3. Move(Move(mem, S, "SPENT"), {}, "UNSPENT")
        = [p \in Proof |-> IF p \in S THEN Held("SPENT", mem[p].tx) ELSE mem[p]]
    BY <1>2 DEF Move
<1>4. mem' = new
    BY <1>1, <1>3 DEF Commit, Held
<1>5. disk' = new
    BY <1>1, <1>3 DEF Commit, Typed
<1> QED
    BY <1>4, <1>5

\* A rollback of what is still locked.
LEMMA RollbackMoves ==
    ASSUME Typed, NEW r, Rollback(r), DOMAIN r.locked \subseteq Proof,
           \A p \in DOMAIN r.locked :
               mem[p].state = "PENDING" /\ r.locked[p] \in [state : {"UNSPENT"}, tx : Tx]
    PROVE  /\ disk' = mem'
           /\ mem' = [p \in Proof |-> IF p \in DOMAIN r.locked THEN Held("UNSPENT", r.locked[p].tx)
                                                               ELSE mem[p]]
<1>1. \A p \in DOMAIN r.locked : /\ mem[p] # Absent
                                 /\ r.locked[p] = Held("UNSPENT", r.locked[p].tx)
                                 /\ r.locked[p].state = "UNSPENT" /\ r.locked[p].tx # NoTx
    BY NoTxAssumption DEF Held, Absent
<1>2. mem' = [p \in Proof |-> IF p \in DOMAIN r.locked THEN Held("UNSPENT", r.locked[p].tx)
                                                               ELSE mem[p]]
    BY <1>1 DEF Rollback
<1>3. disk' = [p \in Proof |-> IF p \in DOMAIN r.locked THEN Held("UNSPENT", r.locked[p].tx)
                                                               ELSE mem[p]]
    BY <1>1 DEF Rollback, Typed
<1> QED
    BY <1>2, <1>3

\* The proofs a visit and a sync deal with.
LEMMA Known ==
    ASSUME IInv, Orderly
    PROVE  /\ \A w \in Worker : visit[w].pc # "none" => visit[w].tx \in Transfer /\ visit[w].change \subseteq Proof
           /\ \A t \in Transfer : quote[t].inputs \subseteq Proof
           /\ job.pc # "idle" => job.tx \in Transfer /\ job.change \subseteq Proof
           /\ \A t \in Transfer : quote[t].state = "PAID" => Standing(t)
BY BlanksAreProofs DEF IInv, VisitKnows, JobKnows, Orderly, VisitsOrderly, VisitOrderly, JobOrderly, Typed, Standing

\* A visit that stands still, while the store changes and the task may become less busy.
LEMMA VisitStands ==
    ASSUME IInv, Orderly, UNCHANGED quote, NEW w \in Worker, visit'[w] = visit[w],
           \A t \in Transfer : Taken(t) /\ Busy(t)' => Busy(t),
           visit[w].pc = "settle" => \A p \in visit[w].change :
               mem[p].state \in {"none", "UNSPENT"} => mem'[p].state \in {"none", "UNSPENT"},
           \A t \in Transfer : \A p \in quote[t].inputs :
               Standing(t) /\ mem'[p].state = "PENDING" => mem[p].state = "PENDING"
    PROVE  VisitOrderly(visit[w])'
<1>1. VisitOrderly(visit[w]) /\ VisitKnows(visit[w])
    BY DEF Orderly, VisitsOrderly, IInv
<1>2. CASE visit[w].pc = "none"
    BY <1>1, <1>2 DEF VisitOrderly, Taken, Blanks, Working
<1>3. CASE visit[w].pc # "none"
  <2>1. visit[w].pc \in {"unblind", "settle"} => Standing(visit[w].tx)
      BY <1>1 DEF VisitKnows, Paid, Standing
  <2> QED
      BY <1>1, <1>3, <2>1, Known DEF VisitOrderly, Taken, Blanks, Working, Standing
<1> QED
    BY <1>2, <1>3

\* All of them.
LEMMA VisitsStand ==
    ASSUME IInv, Orderly, UNCHANGED <<visit, quote>>,
           \A t \in Transfer : Taken(t) /\ Busy(t)' => Busy(t),
           \A p \in Proof : mem[p].state \in {"none", "UNSPENT"} => mem'[p].state \in {"none", "UNSPENT"},
           \A t \in Transfer : \A p \in quote[t].inputs :
               Standing(t) /\ mem'[p].state = "PENDING" => mem[p].state = "PENDING"
    PROVE  VisitsOrderly'
<1> SUFFICES ASSUME NEW w \in Worker PROVE VisitOrderly(visit[w])'
    BY DEF VisitsOrderly
<1>1. visit[w].pc = "settle" => visit[w].change \subseteq Proof
    BY Known
<1> QED
    BY <1>1, VisitStands

\* The store when S, which the mint has taken for payments, is written off and the change C of t0
\* is stored.
LEMMA WrittenOff ==
    ASSUME IInv, Orderly, UNCHANGED <<quote, mintSpent>>,
           NEW t0, NEW S \in SUBSET Proof, NEW C \in SUBSET Proof,
           mem' = [p \in Proof |-> IF p \in C THEN Held("UNSPENT", t0)
                                   ELSE IF p \in S THEN Held("SPENT", mem[p].tx) ELSE mem[p]],
           C \subseteq Blanks(t0), C # {} => Taken(t0),
           \A p \in C : mem[p].state \in {"none", "UNSPENT"},
           \A p \in S : p \in mintSpent /\ Melted(p) /\ Standing(mem[p].tx),
           \A p \in S : \A r \in quote[mem[p].tx].inputs : mem[r].state = "PENDING" => r \in S,
           \A p \in Proof : Own(p) => Own(p)' \/ Melted(p),
           \A p \in Proof : Swapping(p) => Swapping(p)',
           \A t \in Transfer : Busy(t)' => Busy(t),
           \A t \in Transfer : status'[t] = "none" \/ (job'.tx = t /\ job'.pc \in {"select", "swap"}) =>
               status[t] = "none" \/ (job.tx = t /\ job.pc \in {"select", "swap"}),
           \A p \in S : ~Own(p)'
    PROVE  StoreOrderly'
<1>1. \A p \in S : mem[p].state \in {"PENDING", "SPENT"} /\ p \notin C
    BY DEF Orderly, StoreOrderly, ProofOrderly
<1>2. ASSUME NEW p \in Proof PROVE ProofOrderly(p)'
  <2>1. ProofOrderly(p)
      BY DEF Orderly, StoreOrderly
  <2>2. CASE p \in C
      BY <2>1, <2>2 DEF ProofOrderly, Held
  <2>3. CASE p \in S
      BY <1>1, <2>3 DEF ProofOrderly, Melted, Standing, Held
  <2>4. CASE p \notin C /\ p \notin S
      BY <2>1, <2>4 DEF ProofOrderly, Melted, Standing
  <2> QED
      BY <2>2, <2>3, <2>4
<1>3. ASSUME NEW t \in Transfer PROVE EcashOrderly(t)'
  <2>1. EcashOrderly(t) /\ \A p \in quote[t].inputs : p \in Proof
      BY Known DEF Orderly, StoreOrderly
  <2>2. Standing(t)' => \A p \in quote'[t].inputs : mem'[p].tx = t /\ mem'[p].state \in {"PENDING", "SPENT"}
      BY <2>1, <1>1 DEF EcashOrderly, Standing, Held
  <2>3. \A p, r \in quote'[t].inputs : mem'[p] = Held("PENDING", t) => mem'[r] = Held("PENDING", t)
    <3> SUFFICES ASSUME NEW p \in quote[t].inputs, NEW r \in quote[t].inputs, mem'[p] = Held("PENDING", t)
                 PROVE  mem'[r] = Held("PENDING", t)
        OBVIOUS
    <3>1. p \notin C /\ p \notin S /\ mem[p] = Held("PENDING", t) /\ mem[r] = Held("PENDING", t)
        BY <2>1, <1>1 DEF EcashOrderly, Held
    <3>2. mem[r].state = "PENDING" /\ mem[r].tx = t /\ mem[p].state = "PENDING"
        BY <3>1 DEF Held
    <3>3. r \notin C /\ r \notin S
        BY <3>1, <3>2
    <3> QED
        BY <3>1, <3>3, <2>1
  <2>4. status'[t] = "none" \/ (job'.tx = t /\ job'.pc \in {"select", "swap"}) =>
            \A r \in Role : mem'[<<t, r>>] = Absent
    <3> SUFFICES ASSUME status'[t] = "none" \/ (job'.tx = t /\ job'.pc \in {"select", "swap"}),
                        NEW r \in Role PROVE mem'[<<t, r>>] = Absent
        OBVIOUS
    <3>1. mem[<<t, r>>] = Absent /\ <<t, r>> \in Proof
        BY <2>1, TransferAssumptions DEF EcashOrderly
    <3>2. ~Taken(t)
        BY DEF Orderly, StatusOrderly, JobOrderly
    <3>3. <<t, r>> \notin C
        BY <3>2 DEF Blanks
    <3>4. <<t, r>> \notin S
        BY <3>1, <1>1 DEF Absent, Held
    <3> QED
        BY <3>1, <3>3, <3>4
  <2>5. Busy(t)' => \A p \in Blanks(t) : mem'[p].state \in {"none", "UNSPENT"}
      BY <2>1, <1>1, BlanksAreProofs DEF EcashOrderly, Held, Blanks
  <2> QED
      BY <2>2, <2>3, <2>4, <2>5 DEF EcashOrderly
<1> QED
    BY <1>2, <1>3 DEF StoreOrderly

\* The store when S, which the mint does not hold, becomes spendable.
LEMMA Released ==
    ASSUME IInv, Orderly, UNCHANGED <<quote, mintSpent>>,
           NEW S \in SUBSET Proof, NEW owner,
           mem' = [p \in Proof |-> IF p \in S THEN Held("UNSPENT", owner[p]) ELSE mem[p]],
           \A p \in S : mem[p].state = "PENDING" /\ p \notin mintSpent,
           \A t \in Transfer : \A p \in S : p \in quote[t].inputs =>
               ~Standing(t) /\ \A r \in quote[t].inputs : mem[r] = Held("PENDING", t) => r \in S,
           \A p \in Proof : Own(p) => Own(p)' \/ p \in S,
           \A p \in Proof : Swapping(p) => Swapping(p)',
           \A t \in Transfer : Busy(t)' => Busy(t),
           \A t \in Transfer : status'[t] = "none" \/ (job'.tx = t /\ job'.pc \in {"select", "swap"}) =>
               status[t] = "none" \/ (job.tx = t /\ job.pc \in {"select", "swap"})
    PROVE  StoreOrderly'
<1>1. ASSUME NEW p \in Proof PROVE ProofOrderly(p)'
  <2>1. ProofOrderly(p)
      BY DEF Orderly, StoreOrderly
  <2>2. CASE p \in S
      BY <2>1, <2>2 DEF ProofOrderly, Held
  <2>3. CASE p \notin S
      BY <2>1, <2>3 DEF ProofOrderly, Melted, Standing
  <2> QED
      BY <2>2, <2>3
<1>2. ASSUME NEW t \in Transfer PROVE EcashOrderly(t)'
  <2>1. EcashOrderly(t) /\ \A p \in quote[t].inputs : p \in Proof
      BY Known DEF Orderly, StoreOrderly
  <2>2. Standing(t)' => \A p \in quote'[t].inputs : mem'[p].tx = t /\ mem'[p].state \in {"PENDING", "SPENT"}
      BY <2>1 DEF EcashOrderly, Standing
  <2>3. \A p, r \in quote'[t].inputs : mem'[p] = Held("PENDING", t) => mem'[r] = Held("PENDING", t)
    <3> SUFFICES ASSUME NEW p \in quote[t].inputs, NEW r \in quote[t].inputs, mem'[p] = Held("PENDING", t)
                 PROVE  mem'[r] = Held("PENDING", t)
        OBVIOUS
    <3>1. p \notin S /\ mem[p] = Held("PENDING", t)
        BY <2>1 DEF Held
    <3>2. mem[r] = Held("PENDING", t) /\ r \notin S
        BY <2>1, <3>1 DEF EcashOrderly
    <3> QED
        BY <3>2, <2>1
  <2>4. status'[t] = "none" \/ (job'.tx = t /\ job'.pc \in {"select", "swap"}) =>
            \A r \in Role : mem'[<<t, r>>] = Absent
      BY <2>1, TransferAssumptions DEF EcashOrderly, Absent, Held
  <2>5. Busy(t)' => \A p \in Blanks(t) : mem'[p].state \in {"none", "UNSPENT"}
      BY <2>1, BlanksAreProofs DEF EcashOrderly, Held
  <2> QED
      BY <2>2, <2>3, <2>4, <2>5 DEF EcashOrderly
<1> QED
    BY <1>1, <1>2 DEF StoreOrderly

\* Paid at once: the inputs are written off, the change is stored, COMPLETED.
LEMMA SettlePaidKeeps ==
    ASSUME IInv, Orderly, SettlePaid
    PROVE  Orderly'
<1>0. /\ UNCHANGED <<recovery, sync, visit, watched, phase, quote, change, mintSpent, net>>
      /\ job.pc = "settle" /\ job.answer = "PAID" /\ job' = IdleJob
      /\ status' = [status EXCEPT ![job.tx] = "COMPLETED"]
    BY DEF SettlePaid, mintVars, SetStatus
<1>1. /\ job.tx \in Transfer /\ quote[job.tx].state = "PAID"
      /\ quote[job.tx].inputs = job.inputs /\ job.inputs # {} /\ job.inputs \subseteq mintSpent
      /\ \A p \in job.inputs : mem[p] = Held("PENDING", job.tx)
      /\ job.inputs \in SUBSET Proof /\ job.change \subseteq Blanks(job.tx)
    BY <1>0 DEF IInv, JobKnows, Paid, Orderly, JobOrderly, QuoteOrderly, LockOrderly, Taken, Typed, Answers, Holding
<1>2. \A p \in job.change : p \in Proof /\ mem[p].state \in {"none", "UNSPENT"} /\ p \notin job.inputs
    BY <1>0, <1>1, BlanksAreProofs DEF Orderly, StoreOrderly, EcashOrderly, Busy, Holding, Held
<1>3. /\ disk' = mem'
      /\ mem' = [p \in Proof |-> IF p \in job.change THEN Held("UNSPENT", job.tx)
                                 ELSE IF p \in job.inputs THEN Held("SPENT", mem[p].tx) ELSE mem[p]]
  <2>1. \A p \in job.inputs : mem[p].state # "none" /\ p \notin job.change
      BY <1>1, <1>2 DEF Held
  <2>2. /\ job.change \in SUBSET Proof /\ job.tx \in Tx /\ \A p \in job.change : mem[p].state # "SPENT"
        /\ Commit(job.row, job.inputs, {}, Unspent(job.change, job.tx))
      BY <1>1, <1>2, TransferAssumptions DEF SettlePaid
  <2>3. Typed
      BY DEF Orderly
  <2> HIDE DEF Orderly
  <2> QED
      BY <2>1, <2>2, <2>3, <1>1, CommitMoves
<1>4. Typed'
    BY <1>0, <1>1, <1>3, TransferAssumptions DEF Orderly, Typed, MemRec, ProofState, Held, IdleJob
<1>5. JobOrderly' /\ NetOrderly'
    BY <1>0, <1>1 DEF Orderly, JobOrderly, NetOrderly, IdleJob, Holding
<1>6. StatusOrderly'
    BY <1>0, <1>1, <1>2, <1>3 DEF Orderly, Typed, StatusOrderly, IInv, Shapes, IdleJob, Busy, Holding, Taken, Standing, Held
<1>7. VisitsOrderly'
    BY <1>0, <1>1, <1>2, <1>3, VisitsStand, Known DEF IdleJob, Busy, Holding, Held
<1>8. SyncOrderly'
    BY <1>0, <1>1, <1>2, <1>3 DEF Orderly, SyncOrderly, IdleSync
<1>9. LockOrderly'
    BY <1>0 DEF LockOrderly, IdleJob, Holding
<1>10. StoreOrderly'
  <2>1. \A p \in job.inputs : Melted(p) /\ Standing(mem[p].tx) /\ mem[p].tx = job.tx /\ p \in mintSpent
      BY <1>1 DEF Melted, Standing, Held
  <2>2. \A p \in Proof : (Own(p) => Melted(p)) /\ ~Swapping(p) /\ ~Own(p)'
      BY <1>0, <2>1 DEF Own, Swapping, IdleJob, Holding
  <2>3. \A t \in Transfer :
            /\ ~Busy(t)' /\ ~(job'.tx = t /\ job'.pc \in {"select", "swap"})
            /\ status'[t] = "none" => status[t] = "none"
      BY <1>0, TransferAssumptions DEF Busy, IdleJob, Holding, IInv, Shapes
  <2>4. Taken(job.tx) /\ job.change \in SUBSET Proof /\ \A p \in job.inputs : quote[mem[p].tx].inputs = job.inputs
      BY <1>1, <1>2, <2>1 DEF Taken
  <2> QED
      BY <1>0, <1>1, <1>2, <1>3, <2>1, <2>2, <2>3, <2>4, WrittenOff
<1> QED
    BY <1>0, <1>4, <1>5, <1>6, <1>7, <1>8, <1>9, <1>10, Frames DEF Orderly

\* The mint has the payment: the inputs stay locked, and belong to the mint now.
LEMMA SettlePendingKeeps ==
    ASSUME IInv, Orderly, SettlePending
    PROVE  Orderly'
<1>0. /\ UNCHANGED <<recovery, sync, visit, phase, quote, change, mintSpent, net>>
      /\ job.pc = "settle" /\ job.answer = "PENDING" /\ job' = IdleJob
      /\ status' = [status EXCEPT ![job.tx] = "PENDING"]
    BY DEF SettlePending, mintVars, SetStatus
<1>1. /\ job.tx \in Transfer /\ Taken(job.tx) /\ quote[job.tx].inputs = job.inputs
      /\ \A p \in job.inputs : mem[p] = Held("PENDING", job.tx)
      /\ job.change \subseteq Blanks(job.tx) /\ job.change \in SUBSET Proof
    BY <1>0, Known DEF IInv, JobKnows, Orderly, JobOrderly, LockOrderly, Answers, Holding
<1>2. \A p \in job.change : mem[p].state \in {"none", "UNSPENT"}
    BY <1>0, <1>1 DEF Orderly, StoreOrderly, EcashOrderly, Busy, Holding
<1>3. /\ disk' = mem'
      /\ mem' = [p \in Proof |-> IF p \in job.change THEN Held("UNSPENT", job.tx)
                                 ELSE IF p \in {} THEN Held("SPENT", mem[p].tx) ELSE mem[p]]
  <2>1. /\ job.tx \in Tx /\ \A p \in job.change : mem[p].state # "SPENT"
        /\ Commit(job.row, {}, {}, Unspent(job.change, job.tx))
        /\ {} \in SUBSET Proof /\ \A p \in {} : mem[p].state # "none" /\ p \notin job.change
      BY <1>1, <1>2, TransferAssumptions DEF SettlePending
  <2>2. Typed
      BY DEF Orderly
  <2> HIDE DEF Orderly
  <2> QED
      BY <2>1, <2>2, <1>1, CommitMoves
<1>4. Typed'
    BY <1>0, <1>1, <1>3, TransferAssumptions DEF Orderly, Typed, MemRec, ProofState, Held, IdleJob
<1>5. JobOrderly' /\ NetOrderly'
    BY <1>0, <1>1 DEF Orderly, JobOrderly, NetOrderly, IdleJob, Holding
<1>6. StatusOrderly'
    BY <1>0, <1>1, <1>2, <1>3, Known
       DEF Orderly, StatusOrderly, IInv, Shapes, IdleJob, Busy, Holding, Taken, Standing, Held
<1>7. VisitsOrderly'
    BY <1>0, <1>1, <1>2, <1>3, VisitsStand, Known DEF IdleJob, Busy, Holding, Held
<1>8. SyncOrderly'
    BY <1>0, <1>1, <1>2, <1>3 DEF Orderly, SyncOrderly, IdleSync
<1>9. LockOrderly'
    BY <1>0 DEF LockOrderly, IdleJob, Holding
<1>10. StoreOrderly'
  <2>1. \A p \in Proof : (Own(p) => Melted(p)) /\ ~Swapping(p)
      BY <1>0, <1>1 DEF Own, Swapping, Melted, Held
  <2>2. \A t \in Transfer :
            /\ ~Busy(t)' /\ ~(job'.tx = t /\ job'.pc \in {"select", "swap"})
            /\ status'[t] = "none" => status[t] = "none"
      BY <1>0, TransferAssumptions DEF Busy, IdleJob, Holding, IInv, Shapes
  <2>3. /\ {} \in SUBSET Proof
        /\ \A p \in {} : p \in mintSpent /\ Melted(p) /\ Standing(mem[p].tx)
        /\ \A p \in {} : \A r \in quote[mem[p].tx].inputs : mem[r].state = "PENDING" => r \in {}
        /\ \A p \in {} : ~Own(p)'
      OBVIOUS
  <2>4. \A t \in Transfer : status'[t] = "none" \/ (job'.tx = t /\ job'.pc \in {"select", "swap"}) =>
               status[t] = "none" \/ (job.tx = t /\ job.pc \in {"select", "swap"})
      BY <2>2
  <2>5. UNCHANGED <<quote, mintSpent>>
      BY <1>0
  <2> QED
      BY <1>1, <1>2, <1>3, <2>1, <2>2, <2>3, <2>4, <2>5, WrittenOff
<1> QED
    BY <1>0, <1>4, <1>5, <1>6, <1>7, <1>8, <1>9, <1>10, Frames DEF Orderly

\* What the task gives up was not taken, or let go again.
LEMMA GivenUp ==
    ASSUME IInv, Orderly, Rollback(job.row),
           (job.pc = "settle" /\ job.answer = "UNPAID") \/ job.pc = "judge",
           UNCHANGED <<status, sync, visit, phase, quote, change, mintSpent, net>>,
           job' = [job EXCEPT !.pc = "fail"]
    PROVE  Orderly'
<1>1. /\ job.tx \in Transfer /\ ~Standing(job.tx)
      /\ Taken(job.tx) => quote[job.tx].inputs = job.inputs
      /\ \A p \in job.inputs : mem[p] = Held("PENDING", job.tx)
      /\ DOMAIN job.row.locked = job.inputs
      /\ \A p \in job.inputs : job.row.locked[p] \in [state : {"UNSPENT"}, tx : Tx]
      /\ job.inputs \in SUBSET Proof
  <2>1. ~Standing(job.tx)
      BY DEF IInv, JobKnows, Orderly, JobOrderly, QuoteOrderly
  <2>2. Taken(job.tx) => quote[job.tx].inputs = job.inputs
      BY DEF Orderly, JobOrderly
  <2> QED
      BY <2>1, <2>2 DEF IInv, JobKnows, Orderly, LockOrderly, Holding, Typed
<1>2. \A p \in job.inputs : mem[p].state = "PENDING" /\ mem[p].tx = job.tx /\ p \notin mintSpent
  <2> SUFFICES ASSUME NEW p \in job.inputs PROVE p \notin mintSpent
      BY <1>1 DEF Held
  <2>1. ProofOrderly(p) /\ mem[p].state = "PENDING" /\ mem[p].tx = job.tx
      BY <1>1 DEF Orderly, StoreOrderly, Held
  <2> QED
      BY <2>1, <1>1 DEF ProofOrderly, Swapping, Melted
<1>3. /\ disk' = mem'
      /\ mem' = [p \in Proof |-> IF p \in job.inputs THEN Held("UNSPENT", job.row.locked[p].tx) ELSE mem[p]]
    BY <1>1, <1>2, RollbackMoves DEF Orderly
<1>4. Typed'
    BY <1>1, <1>3, TransferAssumptions DEF IInv, Shapes, Orderly, Typed, MemRec, ProofState, Held
<1>5. JobOrderly' /\ NetOrderly'
  <2>1. net = {}
      BY DEF Orderly, NetOrderly
  <2> QED
      BY <2>1, <1>1 DEF IInv, Shapes, Orderly, JobOrderly, NetOrderly, Holding, Standing
<1>6. StatusOrderly'
    BY <1>1, <1>2, <1>3, Known DEF Orderly, StatusOrderly, IInv, Shapes, Busy, Holding, Taken, Standing, Held
<1>7. VisitsOrderly'
    BY <1>1, <1>2, <1>3, VisitsStand, Known DEF IInv, Shapes, Busy, Holding, Held
<1>8. SyncOrderly'
    BY SMTT(30), <1>3 DEF Orderly, SyncOrderly, IdleSync
<1>9. LockOrderly'
    BY DEF IInv, Shapes, LockOrderly, Holding
<1>10. StoreOrderly'
  <2>1. \A p \in Proof : (Own(p) => p \in job.inputs) /\ ~Swapping(p)
      BY <1>1 DEF Own, Swapping
  <2>2. \A t \in Transfer : (Busy(t)' => Busy(t)) /\ ~(job'.tx = t /\ job'.pc \in {"select", "swap"})
      BY DEF Busy, Holding, IInv, Shapes
  <2>3. ASSUME NEW t \in Transfer, NEW p \in job.inputs, p \in quote[t].inputs
        PROVE  ~Standing(t) /\ \A r \in quote[t].inputs : mem[r] = Held("PENDING", t) => r \in job.inputs
    <3>1. EcashOrderly(t)
        BY DEF Orderly, StoreOrderly
    <3>2. ~Standing(t)
        BY <2>3, <3>1, <1>1, <1>2 DEF EcashOrderly
    <3>3. ASSUME NEW r \in quote[t].inputs, mem[r] = Held("PENDING", t) PROVE r \in job.inputs
      <4>1. mem[p] = Held("PENDING", t)
          BY <2>3, <3>1, <3>3 DEF EcashOrderly
      <4>2. t = job.tx
          BY <4>1, <1>2 DEF Held
      <4> QED
          BY <2>3, <4>2, <1>1, <3>3 DEF Taken
    <3> QED
        BY <3>2, <3>3
  <2> DEFINE owner == [p \in job.inputs |-> job.row.locked[p].tx]
  <2>4. mem' = [p \in Proof |-> IF p \in job.inputs THEN Held("UNSPENT", owner[p]) ELSE mem[p]]
      BY <1>3
  <2>5. \A t \in Transfer : status'[t] = "none" \/ (job'.tx = t /\ job'.pc \in {"select", "swap"}) =>
               status[t] = "none" \/ (job.tx = t /\ job.pc \in {"select", "swap"})
      BY <2>2
  <2>6. UNCHANGED <<quote, mintSpent>>
      OBVIOUS
  <2>7. /\ \A p \in job.inputs : mem[p].state = "PENDING" /\ p \notin mintSpent
        /\ \A t \in Transfer : \A p \in job.inputs : p \in quote[t].inputs =>
               ~Standing(t) /\ \A r \in quote[t].inputs : mem[r] = Held("PENDING", t) => r \in job.inputs
        /\ \A p \in Proof : Own(p) => Own(p)' \/ p \in job.inputs
        /\ \A t \in Transfer : Busy(t)' => Busy(t)
        /\ \A p \in Proof : Swapping(p) => Swapping(p)'
      BY <1>2, <2>1, <2>2, <2>3
  <2> HIDE DEF owner
  <2> QED
      BY <1>1, <2>1, <2>4, <2>5, <2>6, <2>7, Released
<1> QED
    BY <1>4, <1>5, <1>6, <1>7, <1>8, <1>9, <1>10, Frames DEF Orderly

\* Refused at once.
LEMMA SettleUnpaidKeeps == IInv /\ Orderly /\ SettleUnpaid => Orderly'
BY GivenUp DEF SettleUnpaid, mintVars

\* Found unpaid by the re-check: in order, only a refusal of signed outputs leads there.
LEMMA JudgeUnpaidKeeps == IInv /\ Orderly /\ JudgeUnpaid => Orderly'
<1> SUFFICES ASSUME IInv, Orderly, JudgeUnpaid PROVE Orderly'
    OBVIOUS
<1>1. job.pc = "judge" /\ job.answer = "signed"
    BY DEF JudgeUnpaid, Orderly, JobOrderly
<1> QED
    BY <1>1, GivenUp DEF JudgeUnpaid, mintVars

\* A failed payment: what is still locked for it is let go, and the mint has let it go before.
LEMMA ReleaseFailedKeeps ==
    ASSUME IInv, Orderly, NEW w \in Worker, ReleaseFailed(w)
    PROVE  Orderly'
<1> DEFINE t == visit[w].tx
           S == PendingOf(t)
<1>0. /\ UNCHANGED <<status, job, sync, phase, quote, change, mintSpent, net>>
      /\ visit[w].pc = "release" /\ visit' = [visit EXCEPT ![w].pc = "revert"]
    BY DEF ReleaseFailed, mintVars, queueVars, GoOn
<1>1. t \in Transfer /\ Taken(t) /\ ~Busy(t) /\ ~Standing(t) /\ visit[w].mode # "recover" /\ visit[w].seen = "UNPAID"
    BY <1>0 DEF IInv, VisitKnows, Orderly, VisitsOrderly, VisitOrderly, Working
<1>2. S \in SUBSET Proof /\ \A p \in S : mem[p].state = "PENDING" /\ mem[p].tx = t
    BY DEF PendingOf, Having
<1>3. \A p \in S : ~Own(p) /\ p \notin mintSpent
  <2> SUFFICES ASSUME NEW p \in S PROVE ~Own(p) /\ p \notin mintSpent
      OBVIOUS
  <2>1. ~Own(p)
      BY <1>1, <1>2 DEF Own, Orderly, LockOrderly, Held, Busy
  <2>2. ProofOrderly(p)
      BY <1>2 DEF Orderly, StoreOrderly
  <2> QED
      BY <2>1, <2>2, <1>1, <1>2 DEF ProofOrderly, Swapping, Own, Holding
<1>4. /\ disk' = mem'
      /\ mem' = [p \in Proof |-> IF p \in S THEN Held("UNSPENT", t) ELSE mem[p]]
  <2>1. \A p \in S : [mem[p] EXCEPT !.state = "UNSPENT"] = Held("UNSPENT", t)
    <3> SUFFICES ASSUME NEW p \in S PROVE [mem[p] EXCEPT !.state = "UNSPENT"] = Held("UNSPENT", t)
        OBVIOUS
    <3>1. mem[p] = Held(mem[p].state, t)
        BY <1>2, Records DEF Orderly
    <3>2. [Held(mem[p].state, t) EXCEPT !.state = "UNSPENT"] = Held("UNSPENT", t)
        BY DEF Held
    <3> QED
        BY <3>1, <3>2
  <2> HIDE DEF S
  <2>2. Overwrite(S, "UNSPENT")
      BY DEF ReleaseFailed, RevertToSpendable, S
  <2> QED
      BY <2>1, <2>2, <1>2 DEF Overwrite, Orderly, Typed
<1> HIDE DEF S
<1>5. Typed'
    BY <1>0, <1>1, <1>2, <1>4, TransferAssumptions DEF IInv, Shapes, Orderly, Typed, MemRec, ProofState, Held
<1>6. StatusOrderly'
    BY <1>0, <1>1, <1>2, <1>4, Known DEF Orderly, StatusOrderly, Busy, Taken, Standing, Held
<1>7. VisitsOrderly'
  <2> SUFFICES ASSUME NEW v \in Worker PROVE VisitOrderly(visit[v])'
      BY DEF VisitsOrderly
  <2>1. CASE v = w
      BY <2>1, <1>0, <1>1 DEF IInv, Shapes, Orderly, VisitsOrderly, VisitOrderly, Working, Taken, Standing, Busy
  <2>2. CASE v # w
    <3>1. visit'[v] = visit[v]
        BY <2>2, <1>0
    <3>2. \A p \in Proof : mem'[p].state \in {mem[p].state, "UNSPENT"}
        BY <1>4 DEF Held
    <3>3. visit[v].pc = "settle" => visit[v].change \subseteq Proof
        BY Known
    <3> QED
        BY <3>1, <3>2, <3>3, <1>0, VisitStands, Known DEF Busy
  <2> QED
      BY <2>1, <2>2
<1>8. SyncOrderly'
    BY ZenonT(30), <1>0, <1>1, <1>2, <1>4 DEF Orderly, Typed, SyncOrderly, Taken, Standing, Held
<1>9. LockOrderly'
    BY <1>0, <1>3, <1>4 DEF Orderly, Typed, LockOrderly, Own
<1>10. StoreOrderly'
  <2> DEFINE owner == [p \in S |-> t]
  <2>1. mem' = [p \in Proof |-> IF p \in S THEN Held("UNSPENT", owner[p]) ELSE mem[p]]
      BY <1>4
  <2>2. ASSUME NEW s \in Transfer, NEW p \in S, p \in quote[s].inputs
        PROVE  ~Standing(s) /\ \A r \in quote[s].inputs : mem[r] = Held("PENDING", s) => r \in S
    <3>1. EcashOrderly(s) /\ mem[p].tx = t
        BY <1>2 DEF Orderly, StoreOrderly
    <3>2. ~Standing(s)
        BY <2>2, <3>1, <1>1 DEF EcashOrderly
    <3>3. ASSUME NEW r \in quote[s].inputs, mem[r] = Held("PENDING", s) PROVE r \in S
      <4>1. mem[p] = Held("PENDING", s)
          BY <2>2, <3>1, <3>3 DEF EcashOrderly
      <4>2. s = t /\ r \in Proof
          BY <4>1, <3>1, Known DEF Held
      <4> QED
          BY <4>2, <3>3 DEF S, PendingOf, Having, Held
    <3> QED
        BY <3>2, <3>3
  <2>3. UNCHANGED <<quote, mintSpent>>
      BY <1>0
  <2>4. /\ \A p \in Proof : (Own(p) => Own(p)' \/ p \in S) /\ (Swapping(p) => Swapping(p)')
        /\ \A s \in Transfer : Busy(s)' => Busy(s)
        /\ \A s \in Transfer : status'[s] = "none" \/ (job'.tx = s /\ job'.pc \in {"select", "swap"}) =>
               status[s] = "none" \/ (job.tx = s /\ job.pc \in {"select", "swap"})
      BY <1>0 DEF Own, Swapping, Busy
  <2> HIDE DEF owner
  <2> QED
      BY <1>2, <1>3, <2>1, <2>2, <2>3, <2>4, Released
<1> QED
    BY <1>0, <1>5, <1>6, <1>7, <1>8, <1>9, <1>10, Frames DEF Orderly

\* A visit settles: it has captured every input that is still locked.
LEMMA SettleVisitKeeps ==
    ASSUME IInv, Orderly, NEW w \in Worker, SettleVisit(w)
    PROVE  Orderly'
<1> DEFINE t == visit[w].tx
           S == visit[w].pending
           C == visit[w].change
<1>0. /\ UNCHANGED <<job, sync, phase, quote, change, mintSpent, net>>
      /\ visit[w].pc = "settle"
      /\ visit' = [visit EXCEPT ![w] = Ended(w, "returned")]
      /\ status' = [status EXCEPT ![t] = IF visit[w].mode = "recover" THEN "RECOVERED" ELSE "COMPLETED"]
    BY DEF SettleVisit, mintVars, queueVars, EndVisit, SetStatus
<1>1. /\ t \in Transfer /\ quote[t].state = "PAID" /\ Standing(t) /\ Taken(t) /\ VisitOrderly(visit[w])
      /\ C \subseteq Blanks(t) /\ C \in SUBSET Proof /\ S \in SUBSET Proof
      /\ \A p \in C : mem[p].state \in {"none", "UNSPENT"}
    BY <1>0, Known DEF IInv, VisitKnows, Paid, Orderly, VisitsOrderly, VisitOrderly, QuoteOrderly, Typed, Standing
<1>2. visit[w].mode # "recover" =>
          ~Busy(t) /\ S \subseteq quote[t].inputs /\ \A p \in quote[t].inputs : mem[p].state = "PENDING" => p \in S
    BY <1>0, <1>1 DEF VisitOrderly, Working
<1>3. /\ visit[w].mode = "recover" => S = {}
      /\ \A p \in S : ~Busy(t) /\ p \in quote[t].inputs
      /\ \A p \in quote[t].inputs : mem[p].tx = t /\ mem[p].state \in {"PENDING", "SPENT"} /\ p \in mintSpent
  <2>1. EcashOrderly(t)
      BY <1>1 DEF Orderly, StoreOrderly
  <2> QED
      BY <1>1, <1>2, <2>1 DEF VisitOrderly, EcashOrderly, Orderly, QuoteOrderly
<1>4. /\ disk' = mem'
      /\ mem' = [p \in Proof |-> IF p \in C THEN Held("UNSPENT", t)
                                 ELSE IF p \in S THEN Held("SPENT", mem[p].tx) ELSE mem[p]]
  <2>1. /\ t \in Tx /\ \A p \in C : mem[p].state # "SPENT"
        /\ \A p \in S : mem[p].state # "none" /\ p \notin C
        /\ Commit(RowFor(t, "pending-melt-finalize-paid", S, "PENDING"), S, {}, Unspent(C, t))
      BY <1>1, <1>3, TransferAssumptions DEF SettleVisit
  <2>2. Typed
      BY DEF Orderly
  <2> HIDE DEF Orderly, t, S, C
  <2> QED
      BY <2>1, <2>2, <1>1, CommitMoves
<1>6. Typed'
  <2>1. \A v \in Worker : visit'[v].pending \in SUBSET Proof
    <3> SUFFICES ASSUME NEW v \in Worker PROVE visit'[v].pending \in SUBSET Proof
        OBVIOUS
    <3>1. visit[v].pending \in SUBSET Proof /\ visit'[v] \in {visit[v], [visit[v] EXCEPT !.pc = "returned"], NoVisit}
        BY <1>0 DEF Orderly, Typed, Ended, IInv, Shapes
    <3> QED
        BY <3>1 DEF NoVisit, IInv, Shapes
  <2>2. mem' \in [Proof -> MemRec]
      BY <1>1, <1>4, TransferAssumptions DEF Orderly, Typed, MemRec, ProofState, Held
  <2>3. \A p \in Proof : IF mem'[p].state = "none" THEN mem'[p] = Absent ELSE mem'[p].tx \in Tx
      BY <1>1, <1>3, <1>4, TransferAssumptions DEF Orderly, Typed, Held
  <2> QED
      BY <2>1, <2>2, <2>3, <1>0, <1>4 DEF Orderly, Typed
<1>7. StatusOrderly'
    BY <1>0, <1>1, <1>2, <1>3, <1>4, Known DEF Orderly, StatusOrderly, IInv, Shapes, Busy, Taken, Standing, Held
<1>8. \A p \in Proof : /\ mem[p].state \in {"none", "UNSPENT"} => mem'[p].state \in {"none", "UNSPENT"}
                       /\ mem'[p].state = "PENDING" => mem[p].state = "PENDING"
    BY <1>1, <1>3, <1>4 DEF Held
<1>9. VisitsOrderly'
  <2> SUFFICES ASSUME NEW v \in Worker PROVE VisitOrderly(visit[v])'
      BY DEF VisitsOrderly
  <2>1. CASE v = w
      BY <2>1, <1>0, <1>1
         DEF IInv, Shapes, VisitOrderly, Working, Taken, Standing, Busy, Ended, NoVisit, Blanks
  <2>2. CASE v # w
    <3>1. visit'[v] = visit[v] /\ (visit[v].pc = "settle" => visit[v].change \subseteq Proof)
        BY <2>2, <1>0, Known
    <3> QED
        BY <3>1, <1>0, <1>8, VisitStands, Known DEF Busy
  <2> QED
      BY <2>1, <2>2
<1>10. SyncOrderly'
  <2>1. sync.from = "UNSPENT" => \A p \in sync.batch : p \notin S /\ p \in Proof
      BY <1>3 DEF Orderly, SyncOrderly, Typed
  <2>2. \A p \in sync.spent : p \notin C /\ p \in Proof
      BY <1>1 DEF Orderly, SyncOrderly, StoreOrderly, ProofOrderly, Typed
  <2> QED
      BY ZenonT(30), <2>1, <2>2, <1>0, <1>1, <1>3, <1>4 DEF Orderly, Typed, SyncOrderly, Taken, Standing, Held
<1>11. LockOrderly'
  <2>1. job.pc \in Holding => \A p \in job.inputs : p \notin C /\ p \notin S /\ p \in Proof
    <3> SUFFICES ASSUME job.pc \in Holding, NEW p \in job.inputs PROVE p \notin C /\ p \notin S /\ p \in Proof
        OBVIOUS
    <3>1. mem[p].state = "PENDING" /\ mem[p].tx = job.tx /\ p \in Proof
        BY DEF Orderly, LockOrderly, Typed, Held
    <3> QED
        BY <3>1, <1>1, <1>3 DEF Busy
  <2> QED
      BY <2>1, <1>0, <1>4 DEF Orderly, LockOrderly
<1>12. StoreOrderly'
  <2>1. \A p \in S : /\ p \in mintSpent /\ Melted(p) /\ Standing(mem[p].tx) /\ ~Own(p)'
                     /\ \A r \in quote[mem[p].tx].inputs : mem[r].state = "PENDING" => r \in S
    <3> SUFFICES ASSUME NEW p \in S
                 PROVE  /\ p \in mintSpent /\ Melted(p) /\ Standing(mem[p].tx) /\ ~Own(p)'
                        /\ \A r \in quote[mem[p].tx].inputs : mem[r].state = "PENDING" => r \in S
        OBVIOUS
    <3>1. p \in mintSpent /\ mem[p].tx = t /\ p \in quote[t].inputs /\ ~Busy(t) /\ visit[w].mode # "recover"
        BY <1>3
    <3>2. ~Own(p)'
        BY <3>1, <1>0 DEF Own, Busy, Orderly, LockOrderly, Held
    <3> QED
        BY <3>1, <3>2, <1>1, <1>2 DEF Melted
  <2>2. UNCHANGED <<quote, mintSpent>>
      BY <1>0
  <2>3. /\ \A p \in Proof : (Own(p) => Own(p)' \/ Melted(p)) /\ (Swapping(p) => Swapping(p)')
        /\ \A s \in Transfer : Busy(s)' => Busy(s)
        /\ \A s \in Transfer : status'[s] = "none" \/ (job'.tx = s /\ job'.pc \in {"select", "swap"}) =>
               status[s] = "none" \/ (job.tx = s /\ job.pc \in {"select", "swap"})
      BY <1>0, TransferAssumptions DEF Own, Swapping, Busy, IInv, Shapes
  <2> HIDE DEF t, S, C
  <2> QED
      BY <1>1, <1>4, <2>1, <2>2, <2>3, WrittenOff
<1> QED
    BY <1>0, <1>6, <1>7, <1>9, <1>10, <1>11, <1>12, Frames DEF Orderly

\* The melt reservation, over what the task holds already.
LEMMA LockKeeps ==
    ASSUME IInv, Orderly, Lock
    PROVE  Orderly'
<1>0. /\ UNCHANGED <<status, sync, visit, phase, quote, change, mintSpent, net>>
      /\ job.pc = "lock" /\ Reserve(job.tx, "transfer-melt", job.inputs, "UNSPENT")
      /\ job' = [job EXCEPT !.pc = "locked", !.row = RowFor(job.tx, "transfer-melt", job.inputs, "UNSPENT")]
    BY DEF Lock, mintVars
<1>1. \A p \in job.inputs : mem[p] = Held("PENDING", job.tx) /\ mem[p].tx = job.tx /\ p \in Proof
    BY <1>0 DEF Orderly, LockOrderly, Holding, Typed, Held
<1>2. UNCHANGED <<disk, mem>>
    BY <1>0, <1>1 DEF Orderly, Typed, Reserve
<1>3. job.tx \in Transfer /\ job.tx \in Tx
    BY <1>0, TransferAssumptions DEF IInv, JobKnows
<1>4. Typed' /\ JobOrderly' /\ NetOrderly' /\ StatusOrderly'
    BY <1>0, <1>2
       DEF IInv, Shapes, Orderly, Typed, JobOrderly, NetOrderly, StatusOrderly, Holding, Busy, Taken, Standing
<1>5. VisitsOrderly'
    BY <1>0, <1>2, VisitsStand DEF Busy, Holding, IInv, Shapes
<1>6. SyncOrderly'
    BY <1>0, <1>2 DEF Orderly, SyncOrderly, IdleSync
<1>7. LockOrderly'
  <2>1. /\ DOMAIN job'.row.locked = job.inputs
        /\ \A p \in job.inputs : job'.row.locked[p] = Held("UNSPENT", job.tx)
      BY <1>0, <1>1 DEF RowFor, Snapshot, IInv, Shapes
  <2> QED
      BY <2>1, <1>0, <1>1, <1>2, <1>3 DEF Orderly, LockOrderly, Holding, IInv, Shapes, Held
<1>8. StoreOrderly'
  <2>1. job'.pc = "locked" /\ job'.tx = job.tx /\ job'.inputs = job.inputs
      BY <1>0 DEF IInv, Shapes
  <2> QED
      BY <2>1, <1>0, <1>2 DEF Orderly, StoreOrderly, ProofOrderly, EcashOrderly, Own, Melted, Swapping, Standing,
                              Busy, Holding
<1> QED
    BY <1>0, <1>4, <1>5, <1>6, <1>7, <1>8, Frames DEF Orderly

\* The task takes spendable ecash, which no payment holds.
LEMMA SelectKeeps ==
    ASSUME IInv, Orderly, AtAwait, Select
    PROVE  Orderly'
<1>0. /\ UNCHANGED <<status, sync, visit, phase, quote, change, mintSpent, net>>
      /\ job.pc = "select"
    BY DEF Select, mintVars
<1>1. PICK S \in SUBSET Spendable :
        /\ Worth(S) >= Need[job.tx]
        /\ \E op \in {"transfer-swap", "transfer-melt"} :
            /\ Reserve(job.tx, op, S, "UNSPENT")
            /\ job' = [job EXCEPT !.pc = IF Overshoots(job.tx, S) THEN "swap" ELSE "locked", !.inputs = S,
                                  !.row = RowFor(job.tx, op, S, "UNSPENT")]
    BY DEF Select, Covers
<1>2. \A p \in S : p \in Proof /\ mem[p].state = "UNSPENT" /\ mem[p].tx \in Tx /\ p \notin mintSpent
    BY DEF Spendable, Having, Orderly, Typed, StoreOrderly, ProofOrderly
<1>3. /\ job'.pc \in {"swap", "locked"} /\ job'.tx = job.tx /\ job'.inputs = S /\ S \in SUBSET Proof
      /\ job'.answer = job.answer /\ job'.change = job.change
      /\ DOMAIN job'.row.locked = S /\ \A p \in S : job'.row.locked[p] = Held("UNSPENT", mem[p].tx)
  <2>1. \A op : \A p \in S : RowFor(job.tx, op, S, "UNSPENT").locked[p] = Held("UNSPENT", mem[p].tx)
      BY DEF RowFor, Snapshot
  <2>2. \A op : DOMAIN RowFor(job.tx, op, S, "UNSPENT").locked = S
      BY DEF RowFor
  <2>3. S \in SUBSET Proof
      BY <1>2
  <2> QED
      BY <1>1, <2>1, <2>2, <2>3 DEF IInv, Shapes
<1>4. /\ disk' = mem'
      /\ mem' = [p \in Proof |-> IF p \in S THEN Held("PENDING", job.tx) ELSE mem[p]]
    BY <1>1, <1>2 DEF Reserve, Orderly, Typed
<1>5. job.tx \in Transfer /\ job.tx \in Tx /\ ~Taken(job.tx) /\ sync = IdleSync /\ net = {}
    BY <1>0, TransferAssumptions DEF IInv, JobKnows, Orderly, JobOrderly, SyncOrderly, NetOrderly
<1>6. Typed'
    BY <1>0, <1>3, <1>4, <1>5 DEF Orderly, Typed, MemRec, ProofState, Held
<1>7. JobOrderly' /\ NetOrderly'
    BY <1>0, <1>3, <1>5 DEF Orderly, JobOrderly, NetOrderly, Holding, Taken
<1>8. StatusOrderly'
    BY <1>0, <1>2, <1>3, <1>4, Known DEF Orderly, StatusOrderly, Busy, Holding, Taken, Standing
<1>9. VisitsOrderly'
  <2> SUFFICES ASSUME NEW w \in Worker PROVE VisitOrderly(visit[w])'
      BY DEF VisitsOrderly
  <2>1. visit[w].pc # "settle"
      BY DEF AtAwait
  <2>2. \A t \in Transfer : \A p \in quote[t].inputs : Standing(t) => p \notin S
      BY <1>2 DEF Orderly, StoreOrderly, EcashOrderly
  <2> QED
      BY <2>1, <2>2, <1>0, <1>3, <1>4, VisitStands, Known DEF Busy, Holding, Held
<1>10. SyncOrderly'
    BY <1>0, <1>5 DEF Orderly, SyncOrderly, IdleSync
<1>11. LockOrderly'
  <2>1. \A p \in S : mem'[p] = Held("PENDING", job.tx) /\ job'.row.locked[p] \in [state : {"UNSPENT"}, tx : Tx]
    <3>1. \A t \in Tx : Held("UNSPENT", t) \in [state : {"UNSPENT"}, tx : Tx]
        BY DEF Held
    <3> QED
        BY <3>1, <1>2, <1>3, <1>4
  <2>2. job.answer = "none" /\ job'.answer # "swapped"
      BY <1>0, <1>3 DEF Orderly, JobOrderly
  <2>3. Worth(job'.inputs) >= Need[job'.tx]
      BY <1>1, <1>3
  <2> QED
      BY <2>1, <2>2, <2>3, <1>3 DEF LockOrderly
<1>12. ASSUME NEW p \in Proof PROVE ProofOrderly(p)'
  <2>1. ProofOrderly(p)
      BY DEF Orderly, StoreOrderly
  <2>2. CASE p \in S
      BY <2>1, <2>2, <1>0, <1>2, <1>3, <1>4 DEF ProofOrderly, Own, Holding, Held
  <2>3. CASE p \notin S
      BY <2>1, <2>3, <1>0, <1>3, <1>4 DEF ProofOrderly, Own, Holding, Melted, Standing, Swapping
  <2> QED
      BY <2>2, <2>3
<1>13. ASSUME NEW t \in Transfer PROVE EcashOrderly(t)'
  <2>1. EcashOrderly(t) /\ \A p \in quote[t].inputs : p \in Proof
      BY Known DEF Orderly, StoreOrderly
  <2>2. Standing(t)' => \A p \in quote'[t].inputs : mem'[p].tx = t /\ mem'[p].state \in {"PENDING", "SPENT"}
      BY <2>1, <1>0, <1>2, <1>4 DEF EcashOrderly, Standing, Held
  <2>3. \A p, r \in quote'[t].inputs : mem'[p] = Held("PENDING", t) => mem'[r] = Held("PENDING", t)
    <3> SUFFICES ASSUME NEW p \in quote[t].inputs, NEW r \in quote[t].inputs, mem'[p] = Held("PENDING", t)
                 PROVE  mem'[r] = Held("PENDING", t)
        BY <1>0
    <3>1. t # job.tx
        BY <1>5 DEF Taken
    <3>2. p \notin S
        BY <3>1, <2>1, <1>4 DEF Held
    <3>3. mem[p] = Held("PENDING", t) /\ mem[r] = Held("PENDING", t)
        BY <3>2, <2>1, <1>4 DEF EcashOrderly
    <3>4. r \notin S
        BY <3>3, <1>2 DEF Held
    <3> QED
        BY <3>3, <3>4, <2>1, <1>4
  <2>4. status'[t] = "none" \/ (job'.tx = t /\ job'.pc \in {"select", "swap"}) =>
            \A r \in Role : mem'[<<t, r>>] = Absent
    <3> SUFFICES ASSUME status'[t] = "none" \/ (job'.tx = t /\ job'.pc \in {"select", "swap"}),
                        NEW r \in Role PROVE mem'[<<t, r>>] = Absent
        OBVIOUS
    <3>1. mem[<<t, r>>] = Absent /\ <<t, r>> \in Proof
        BY <2>1, <1>0, <1>3, TransferAssumptions DEF EcashOrderly
    <3>2. <<t, r>> \notin S
        BY <3>1, <1>2 DEF Absent, Held
    <3> QED
        BY <3>1, <3>2, <1>4
  <2>5. Busy(t)' => \A p \in Blanks(t) : mem'[p].state \in {"none", "UNSPENT"}
    <3> SUFFICES ASSUME t = job.tx, NEW p \in Blanks(t) PROVE mem'[p].state \in {"none", "UNSPENT"}
        BY <1>3 DEF Busy
    <3>1. mem[p] = Absent /\ p \in Proof
        BY <2>1, <1>0, BlanksAreProofs DEF EcashOrderly, Blanks, Role
    <3>2. mem[p].state = "none"
        BY <3>1 DEF Absent, Held
    <3> QED
        BY <3>1, <3>2, <1>2, <1>4
  <2> QED
      BY <2>2, <2>3, <2>4, <2>5 DEF EcashOrderly
<1> QED
    BY <1>0, <1>6, <1>7, <1>8, <1>9, <1>10, <1>11, <1>12, <1>13, Frames DEF Orderly, StoreOrderly

\* The outputs of the swap: what will be melted is locked, the rest can be spent.
LEMMA CommitSwapKeeps ==
    ASSUME IInv, Orderly, CommitSwap
    PROVE  Orderly'
<1> DEFINE t == job.tx
           new == {<<t, "swap">>, <<t, "rest">>}
<1>0. /\ UNCHANGED <<status, sync, visit, phase, quote, change, mintSpent, net>>
      /\ job.pc = "swap" /\ job.answer = "swapped"
      /\ job' = [job EXCEPT !.pc = "lock", !.inputs = {<<t, "swap">>}, !.answer = "none"]
      /\ Commit(job.row, job.inputs, {}, SwapOutputs(t))
    BY DEF CommitSwap, mintVars
<1>1. /\ t \in Transfer /\ t \in Tx /\ ~Taken(t) /\ sync = IdleSync /\ net = {}
      /\ job.inputs \in SUBSET Proof /\ job.inputs \subseteq mintSpent
      /\ \A p \in job.inputs : mem[p] = Held("PENDING", t) /\ mem[p].state = "PENDING" /\ mem[p].tx = t
    BY <1>0, TransferAssumptions
       DEF IInv, JobKnows, Orderly, JobOrderly, SyncOrderly, NetOrderly, LockOrderly, Typed, Holding, Held
<1>2. \A r \in Role : <<t, r>> \in Proof /\ mem[<<t, r>>] = Absent /\ mem[<<t, r>>].state = "none"
    BY <1>0, <1>1, TransferAssumptions DEF Orderly, StoreOrderly, EcashOrderly, Absent, Held
<1>3. \A p \in new : p \in Proof /\ mem[p].state = "none" /\ p \notin job.inputs
    BY <1>1, <1>2 DEF Role
<1>4. /\ disk' = mem'
      /\ mem' = [p \in Proof |-> IF p \in new THEN Held(IF p = <<t, "swap">> THEN "PENDING" ELSE "UNSPENT", t)
                                 ELSE IF p \in job.inputs THEN Held("SPENT", t) ELSE mem[p]]
  <2> DEFINE out == [p \in Proof |-> IF p \in new THEN Held(IF p = <<t, "swap">> THEN "PENDING" ELSE "UNSPENT", t)
                                 ELSE IF p \in job.inputs THEN Held("SPENT", t) ELSE mem[p]]
  <2>1. \A p \in job.inputs : mem[p] # Absent /\ [mem[p] EXCEPT !.state = "SPENT"] = Held("SPENT", t)
    <3>1. [Held("PENDING", t) EXCEPT !.state = "SPENT"] = Held("SPENT", t) /\ Held("PENDING", t) # Absent
        BY DEF Held, Absent
    <3> QED
        BY <3>1, <1>1
  <2>2. Move(Move(mem, job.inputs, "SPENT"), {}, "UNSPENT")
            = [p \in Proof |-> IF p \in job.inputs THEN Held("SPENT", t) ELSE mem[p]]
      BY <2>1 DEF Move
  <2>3. DOMAIN SwapOutputs(t) = new
            /\ \A p \in new : SwapOutputs(t)[p] = Held(IF p = <<t, "swap">> THEN "PENDING" ELSE "UNSPENT", t)
      BY DEF SwapOutputs
  <2>4. mem' = out
      BY <2>2, <2>3, <1>0, <1>3 DEF Commit
  <2>5. disk' = out
      BY <2>2, <2>3, <1>0, <1>3 DEF Commit, Orderly, Typed
  <2> QED
      BY <2>4, <2>5
<1>5. /\ job'.pc = "lock" /\ job'.tx = t /\ job'.inputs = {<<t, "swap">>} /\ job'.answer = "none"
      /\ job'.change = job.change /\ job'.row = job.row
    BY <1>0 DEF IInv, Shapes
<1> HIDE DEF t
<1>6. Typed'
  <2>1. mem' \in [Proof -> MemRec]
      BY <1>1, <1>4 DEF Orderly, Typed, MemRec, ProofState, Held
  <2>2. \A p \in Proof : IF mem'[p].state = "none" THEN mem'[p] = Absent ELSE mem'[p].tx \in Tx
      BY <1>1, <1>4 DEF Orderly, Typed, Held
  <2> QED
      BY <2>1, <2>2, <1>0, <1>3, <1>4, <1>5 DEF Orderly, Typed
<1>7. JobOrderly' /\ NetOrderly'
    BY <1>0, <1>1, <1>5 DEF Orderly, JobOrderly, NetOrderly, Holding, Taken, t
<1>8. \A p \in Proof : /\ mem[p].state = "SPENT" => mem'[p] = mem[p]
                       /\ mem[p].state = "PENDING" /\ p \notin job.inputs => mem'[p] = mem[p]
                       /\ mem[p].state = "UNSPENT" => mem'[p] = mem[p]
    BY <1>1, <1>3, <1>4
<1>9. StatusOrderly'
    BY <1>0, <1>5, <1>8, Known DEF Orderly, StatusOrderly, Busy, Holding, Taken, Standing, t
<1>10. \A p \in Proof : p \in mintSpent \/ mem[p].state = "SPENT" => p \notin new
    BY <1>3 DEF Orderly, StoreOrderly, ProofOrderly
<1>11. \A s \in Transfer : \A p \in quote[s].inputs : Standing(s) => mem'[p] = mem[p]
  <2> SUFFICES ASSUME NEW s \in Transfer, NEW p \in quote[s].inputs, Standing(s) PROVE mem'[p] = mem[p]
      OBVIOUS
  <2>1. mem[p].tx = s /\ mem[p].state \in {"PENDING", "SPENT"} /\ p \in Proof
      BY Known DEF Orderly, StoreOrderly, EcashOrderly
  <2>2. s # t
      BY <1>1 DEF Orderly, QuoteOrderly
  <2> QED
      BY <2>1, <2>2, <1>1, <1>8
<1>12. VisitsOrderly'
  <2> SUFFICES ASSUME NEW w \in Worker PROVE VisitOrderly(visit[w])'
      BY DEF VisitsOrderly
  <2>1. visit[w].pc = "settle" => \A p \in visit[w].change :
            mem[p].state \in {"none", "UNSPENT"} => mem'[p].state \in {"none", "UNSPENT"}
    <3> SUFFICES ASSUME visit[w].pc = "settle", NEW p \in visit[w].change, mem[p].state \in {"none", "UNSPENT"}
                 PROVE  mem'[p].state \in {"none", "UNSPENT"}
        OBVIOUS
    <3>1. p \in Proof /\ p \in Blanks(visit[w].tx)
        BY Known DEF Orderly, VisitsOrderly, VisitOrderly
    <3>2. p \notin new /\ p \notin job.inputs
        BY <3>1, <1>1 DEF Blanks
    <3> QED
        BY <3>1, <3>2, <1>4
  <2> QED
      BY <2>1, <1>0, <1>5, <1>11, VisitStands DEF Busy, Holding, t
<1>13. SyncOrderly'
    BY <1>0, <1>1 DEF Orderly, SyncOrderly, IdleSync
<1>14. LockOrderly'
    BY <1>1, <1>3, <1>4, <1>5, SwapIsEnough DEF LockOrderly, Holding, Orderly, Held
<1>15. ASSUME NEW p \in Proof PROVE ProofOrderly(p)'
  <2>1. ProofOrderly(p)
      BY DEF Orderly, StoreOrderly
  <2>2. CASE p \in new
      BY <2>2, <1>0, <1>4, <1>5, <1>10 DEF ProofOrderly, Own, Holding, Held
  <2>3. CASE p \in job.inputs
    <3>1. mem'[p] = Held("SPENT", t) /\ mem'[p].state = "SPENT" /\ mem'[p].tx = t /\ p \in mintSpent
        BY <2>3, <1>1, <1>3, <1>4 DEF Held
    <3> QED
        BY <3>1, <1>0, <1>1 DEF ProofOrderly, Melted, Taken
  <2>4. CASE p \notin new /\ p \notin job.inputs
    <3>1. mem'[p] = mem[p]
        BY <2>4, <1>4
    <3> QED
        BY <2>1, <2>4, <3>1, <1>0 DEF ProofOrderly, Own, Melted, Standing, Swapping
  <2> QED
      BY <2>2, <2>3, <2>4
<1>16. ASSUME NEW s \in Transfer PROVE EcashOrderly(s)'
  <2>1. EcashOrderly(s) /\ \A p \in quote[s].inputs : p \in Proof
      BY Known DEF Orderly, StoreOrderly
  <2>2. Standing(s)' => \A p \in quote'[s].inputs : mem'[p].tx = s /\ mem'[p].state \in {"PENDING", "SPENT"}
      BY <2>1, <1>0, <1>11 DEF EcashOrderly, Standing
  <2>3. \A p, r \in quote'[s].inputs : mem'[p] = Held("PENDING", s) => mem'[r] = Held("PENDING", s)
    <3> SUFFICES ASSUME NEW p \in quote[s].inputs, NEW r \in quote[s].inputs, mem'[p] = Held("PENDING", s)
                 PROVE  mem'[r] = Held("PENDING", s)
        BY <1>0
    <3>1. s # t
        BY <1>1 DEF Taken
    <3>2. p \notin new /\ p \notin job.inputs
        BY <3>1, <2>1, <1>4 DEF Held
    <3>3. mem[r] = Held("PENDING", s)
        BY <3>2, <2>1, <1>4 DEF EcashOrderly
    <3>4. r \notin job.inputs /\ mem[r].state = "PENDING"
        BY <3>1, <3>3, <1>1 DEF Held
    <3> QED
        BY <3>3, <3>4, <2>1, <1>8
  <2>4. status'[s] = "none" \/ (job'.tx = s /\ job'.pc \in {"select", "swap"}) =>
            \A r \in Role : mem'[<<s, r>>] = Absent
    <3> SUFFICES ASSUME status[s] = "none", NEW r \in Role PROVE mem'[<<s, r>>] = Absent
        BY <1>0, <1>5
    <3>1. mem[<<s, r>>] = Absent /\ <<s, r>> \in Proof /\ mem[<<s, r>>].state = "none"
        BY <2>1, TransferAssumptions DEF EcashOrderly, Absent, Held
    <3>2. s # t
        BY <1>0 DEF Orderly, StatusOrderly, Busy, Holding, t
    <3>3. <<s, r>> \notin new /\ <<s, r>> \notin job.inputs
        BY <3>1, <3>2, <1>1
    <3> QED
        BY <3>1, <3>3, <1>4
  <2>5. Busy(s)' => \A p \in Blanks(s) : mem'[p].state \in {"none", "UNSPENT"}
    <3> SUFFICES ASSUME s = t, NEW p \in Blanks(s) PROVE mem'[p].state \in {"none", "UNSPENT"}
        BY <1>5 DEF Busy
    <3>1. p \in Proof /\ mem[p].state = "none" /\ p \notin new
        BY <1>2 DEF Blanks, Role
    <3> QED
        BY <3>1, <1>1, <1>4
  <2> QED
      BY <2>2, <2>3, <2>4, <2>5 DEF EcashOrderly
<1> QED
    BY <1>0, <1>6, <1>7, <1>9, <1>12, <1>13, <1>14, <1>15, <1>16, Frames DEF Orderly, StoreOrderly

\* The sync writes off what is spent: whole payments, so none is short.
LEMMA WriteOffKeeps ==
    ASSUME IInv, Orderly, WriteOff
    PROVE  Orderly'
<1> DEFINE S == sync.spent
           owned(t) == {p \in S : mem[p].tx = t}
<1>0. /\ UNCHANGED <<status, job, visit, phase, quote, change, mintSpent, net>>
      /\ sync.pc = "move" /\ Overwrite(S, "SPENT")
      /\ sync' = [sync EXCEPT !.pc = "settle", !.todo = OwnersOf(S),
                              !.short = {t \in OwnersOf(S) : Worth(owned(t)) < Total(t)}]
    BY DEF WriteOff, MoveToSpent, mintVars
<1>1. S \in SUBSET Proof /\ S \subseteq sync.batch /\ job.pc = "idle"
    BY <1>0 DEF Orderly, SyncOrderly, Typed
<1>2. ASSUME NEW p \in S
      PROVE  /\ p \in mintSpent /\ Melted(p) /\ Standing(mem[p].tx) /\ mem[p].state \in {"PENDING", "SPENT"}
             /\ quote[mem[p].tx].inputs \subseteq S
  <2>1. p \in mintSpent /\ p \in Proof /\ sync.from = "PENDING" /\ p \in sync.batch
      BY <1>1 DEF Orderly, SyncOrderly
  <2>2. ProofOrderly(p)
      BY <2>1 DEF Orderly, StoreOrderly
  <2>3. Melted(p) /\ quote[mem[p].tx].inputs \subseteq S
      BY <1>0, <2>1, <2>2 DEF Orderly, SyncOrderly, ProofOrderly, Melted
  <2> QED
      BY <2>1, <2>2, <2>3, <1>1 DEF ProofOrderly, Swapping
<1>3. /\ disk' = mem'
      /\ mem' = [p \in Proof |-> IF p \in {} THEN Held("UNSPENT", NoTx)
                                 ELSE IF p \in S THEN Held("SPENT", mem[p].tx) ELSE mem[p]]
  <2>1. \A p \in S : [mem[p] EXCEPT !.state = "SPENT"] = Held("SPENT", mem[p].tx)
    <3> SUFFICES ASSUME NEW p \in S PROVE [mem[p] EXCEPT !.state = "SPENT"] = Held("SPENT", mem[p].tx)
        OBVIOUS
    <3>1. mem[p] = Held(mem[p].state, mem[p].tx)
        BY <1>1, Records DEF Orderly
    <3>2. [Held(mem[p].state, mem[p].tx) EXCEPT !.state = "SPENT"] = Held("SPENT", mem[p].tx)
        BY DEF Held
    <3> QED
        BY <3>1, <3>2
  <2> HIDE DEF S
  <2> QED
      BY <2>1, <1>0, <1>1 DEF Overwrite, Orderly, Typed
<1>4. ASSUME NEW t \in OwnersOf(S)
      PROVE  /\ t \in Transfer /\ Standing(t) /\ quote[t].inputs \subseteq mintSpent
             /\ t \in Bolt => quote[t].state = "PAID"
             /\ ~(Worth(owned(t)) < Total(t))
  <2>1. PICK p \in S : mem[p].tx = t
      BY DEF OwnersOf
  <2>2. t \in Transfer /\ Standing(t) /\ p \in quote[t].inputs /\ p \in mintSpent /\ quote[t].inputs \subseteq S
      BY <2>1, <1>2 DEF Melted
  <2>3. quote[t].inputs \subseteq mintSpent /\ (t \in Bolt => quote[t].state = "PAID")
      BY <2>2 DEF Orderly, QuoteOrderly
  <2>4. quote[t].inputs \subseteq owned(t) /\ owned(t) \in SUBSET Proof
      BY <2>2, <1>1 DEF Orderly, StoreOrderly, EcashOrderly
  <2>5. Worth(quote[t].inputs) <= Worth(owned(t)) /\ Worth(owned(t)) \in Nat /\ Worth(quote[t].inputs) \in Nat
    <3> HIDE DEF owned
    <3>1. quote[t].inputs \in SUBSET owned(t) /\ quote[t].inputs \in SUBSET Proof
        BY <2>4
    <3> QED
        BY <3>1, <2>4, WorthGrows
  <2>6. Worth(quote[t].inputs) >= Need[t] /\ Need[t] \in Nat /\ Amount[t] \in Nat /\ Amount[t] <= Need[t]
      BY <2>2, ValueAssumptions DEF Orderly, QuoteOrderly
  <2>7. Total(t) = Amount[t]
      BY <2>2, TransferAssumptions DEF Total
  <2> HIDE DEF owned
  <2>8. ~(Worth(owned(t)) < Total(t))
      BY <2>5, <2>6, <2>7
  <2> QED
      BY <2>2, <2>3, <2>8
<1>5. sync'.short = {}
    BY <1>0, <1>4 DEF Orderly, Typed
<1> HIDE DEF owned
<1>6. Typed'
  <2>1. mem' \in [Proof -> MemRec]
      BY <1>1, <1>3 DEF Orderly, Typed, MemRec, ProofState, Held
  <2>2. \A p \in Proof : IF mem'[p].state = "none" THEN mem'[p] = Absent ELSE mem'[p].tx \in Tx
      BY <1>1, <1>2, <1>3 DEF Orderly, Typed, Held
  <2> QED
      BY <2>1, <2>2, <1>0, <1>3 DEF Orderly, Typed
<1>7. StatusOrderly'
    BY <1>0, <1>3, Known DEF Orderly, StatusOrderly, Busy, Taken, Standing, Held
<1>8. VisitsOrderly'
    BY <1>0, <1>2, <1>3, VisitsStand, Known DEF Busy, Held
<1>9. SyncOrderly'
  <2>1. /\ sync'.pc = "settle" /\ sync'.todo = OwnersOf(S) /\ sync'.spent = S /\ sync'.batch = sync.batch
        /\ sync'.from = sync.from /\ sync'.pend = sync.pend /\ sync'.ids = sync.ids
      BY <1>0 DEF Orderly, Typed
  <2>2. sync.from = "UNSPENT" => mem' = mem
      BY <1>3 DEF Orderly, SyncOrderly, Typed
  <2>3. \A p \in Proof : mem'[p].tx = mem[p].tx /\ (p \notin S => mem'[p] = mem[p])
      BY <1>3 DEF Held
  <2>4. \A p \in S : Melted(p)
      BY <1>2
  <2> HIDE DEF S
  <2> QED
      BY <2>1, <2>2, <2>3, <2>4, <1>0, <1>1, <1>4, <1>5 DEF Orderly, Typed, SyncOrderly, Taken, Standing, Melted
<1>10. LockOrderly'
    BY <1>0, <1>1 DEF LockOrderly, Holding
<1>11. StoreOrderly'
  <2>1. \A p \in Proof : ~Own(p) /\ ~Own(p)' /\ ~Swapping(p)
      BY <1>0, <1>1 DEF Own, Swapping, Holding
  <2>2. /\ \A t \in Transfer : Busy(t)' => Busy(t)
        /\ \A t \in Transfer : status'[t] = "none" \/ (job'.tx = t /\ job'.pc \in {"select", "swap"}) =>
               status[t] = "none" \/ (job.tx = t /\ job.pc \in {"select", "swap"})
        /\ UNCHANGED <<quote, mintSpent>>
      BY <1>0 DEF Busy
  <2>3. {} \in SUBSET Proof /\ {} \subseteq Blanks(NoTx) /\ \A p \in {} : mem[p].state \in {"none", "UNSPENT"}
      OBVIOUS
  <2> HIDE DEF S
  <2> QED
      BY <1>1, <1>2, <1>3, <2>1, <2>2, <2>3, WrittenOff
<1> QED
    BY <1>0, <1>6, <1>7, <1>8, <1>9, <1>10, <1>11, Frames DEF Orderly

\* In order, what the sync finds pending at the mint is locked already.
LEMMA RegisterKeeps ==
    ASSUME IInv, Orderly, Register
    PROVE  Orderly'
<1> DEFINE new == sync.pend \ registry
<1>0. /\ UNCHANGED <<status, job, visit, phase, quote, change, mintSpent, net>>
      /\ sync.pc = "settle" /\ sync.todo = {}
      /\ sync' = IF new = {} THEN [sync EXCEPT !.pc = "gone"]
                 ELSE [sync EXCEPT !.pc = "mark", !.ids = @ \cup OwnersOf(new)]
    BY DEF Register, mintVars
<1>1. UNCHANGED <<disk, mem>>
  <2>1. CASE sync.from = "PENDING"
      BY <2>1 DEF Register, storeVars
  <2>2. CASE sync.from = "UNSPENT"
    <3>1. new = {}
        BY <2>2 DEF Orderly, SyncOrderly
    <3> QED
        BY <3>1, <2>2 DEF Register, MoveToPending, Overwrite, Orderly, Typed
  <2> QED
      BY <2>1, <2>2 DEF Orderly, SyncOrderly
<1>2. OwnersOf(new) \subseteq {t \in Transfer : Taken(t)}
    BY DEF Orderly, SyncOrderly, OwnersOf
<1>3. Typed' /\ SyncOrderly'
  <2>1. CASE new = {}
      BY <2>1, <1>0, <1>1 DEF Orderly, Typed, SyncOrderly, Taken, Standing
  <2>2. CASE new # {}
      BY <2>2, <1>0, <1>1, <1>2 DEF Orderly, Typed, SyncOrderly, Taken, Standing
  <2> QED
      BY <2>1, <2>2
<1> QED
    BY <1>0, <1>1, <1>3, Frames DEF Orderly

\* The task goes on with what it has locked; nothing moves but the task and the status of its transfer.
LEMMA TaskMoves ==
    ASSUME IInv, Orderly, UNCHANGED <<disk, mem, sync, visit, phase, quote, change, mintSpent>>,
           {job.pc, job'.pc} \subseteq Holding \ {"swap", "lock"},
           DOMAIN job' = DOMAIN job,
           job'.tx = job.tx /\ job'.inputs = job.inputs /\ job'.row = job.row,
           \A t \in Transfer \ {job.tx} : status'[t] = status[t],
           status'[job.tx] \in {status[job.tx], "PREPARED", "EXECUTING"}
    PROVE  StatusOrderly' /\ VisitsOrderly' /\ SyncOrderly' /\ LockOrderly' /\ StoreOrderly'
<1>1. job.tx \in Transfer /\ sync = IdleSync /\ \A t \in Transfer : Busy(t)' <=> Busy(t)
    BY DEF IInv, JobKnows, Orderly, SyncOrderly, Busy, Holding
<1>2. StatusOrderly'
    BY <1>1 DEF Orderly, StatusOrderly, Taken, Standing
<1>3. VisitsOrderly'
    BY <1>1, VisitsStand
<1>4. SyncOrderly'
    BY <1>1 DEF SyncOrderly, IdleSync
<1>5. LockOrderly'
    BY DEF Orderly, LockOrderly
<1>6. StoreOrderly'
    BY <1>1 DEF Orderly, StoreOrderly, ProofOrderly, EcashOrderly, Own, Melted, Swapping, Standing, Holding
<1> QED
    BY <1>2, <1>3, <1>4, <1>5, <1>6

\* PREPARED, then EXECUTING.
LEMMA PreparedKeeps == ASSUME IInv, Orderly, Prepared \/ Execute PROVE Orderly'
<1>1. /\ UNCHANGED <<disk, mem, sync, visit, phase, quote, change, mintSpent, net>>
      /\ job.pc \in {"locked", "prepared"} /\ job'.pc \in {"prepared", "submit"}
      /\ DOMAIN job' = DOMAIN job /\ job'.tx = job.tx /\ job'.inputs = job.inputs /\ job'.row = job.row
      /\ job'.change = job.change /\ net = {}
    BY DEF Prepared, Execute, mintVars, storeVars, IInv, Shapes, Orderly, NetOrderly
<1>2. /\ \A t \in Transfer \ {job.tx} : status'[t] = status[t]
      /\ status'[job.tx] \in {status[job.tx], "PREPARED", "EXECUTING"}
    BY TransferAssumptions DEF Prepared, Execute, SetStatus, IInv, Shapes, JobKnows
<1>3. Typed' /\ JobOrderly' /\ NetOrderly'
    BY <1>1 DEF Orderly, Typed, JobOrderly, NetOrderly, Holding, Taken
<1> QED
    BY <1>1, <1>2, <1>3, TaskMoves, Frames DEF Orderly, Holding

\* The request goes out, the only one of its transfer.
LEMMA SubmitKeeps == ASSUME IInv, Orderly, Submit PROVE Orderly'
<1> DEFINE q == [tx |-> job.tx, inputs |-> job.inputs, blank |-> ChangeOutputs(job.tx, job.attempt)]
<1>1. /\ UNCHANGED <<disk, mem, status, sync, visit, phase, quote, change, mintSpent>>
      /\ job.pc = "submit" /\ job'.pc = "wait" /\ job'.answer = "none" /\ net' = net \cup {q}
      /\ DOMAIN job' = DOMAIN job /\ job'.tx = job.tx /\ job'.inputs = job.inputs /\ job'.row = job.row
      /\ job'.change = job.change
    BY DEF Submit, storeVars, IInv, Shapes
<1>2. net' = {q} /\ ~Taken(job.tx) /\ job.tx \in Transfer /\ job.inputs \in SUBSET Proof
    BY <1>1 DEF Orderly, NetOrderly, JobOrderly, Typed, IInv, JobKnows
<1>3. q.tx = job.tx /\ q.inputs = job.inputs /\ q.blank \subseteq Blanks(q.tx)
    BY DEF ChangeOutputs, Blanks
<1>4. q \in [tx : Transfer, inputs : SUBSET Proof, blank : SUBSET Proof]
    BY <1>2, <1>3, BlanksAreProofs
<1> HIDE DEF q
<1>5. Typed'
    BY <1>1, <1>2, <1>4 DEF Orderly, Typed
<1>6. JobOrderly' /\ NetOrderly'
    BY <1>1, <1>2, <1>3 DEF Orderly, JobOrderly, NetOrderly, Holding, Taken, Answers, Blanks
<1> QED
    BY <1>1, <1>5, <1>6, TaskMoves, Frames DEF Orderly, Holding

\* What the task makes of an answer, or of a refusal.
LEMMA AnswerKeeps == ASSUME IInv, Orderly, TakeAnswer \/ TakeError \/ Recheck PROVE Orderly'
<1>1. /\ UNCHANGED <<disk, mem, status, sync, visit, phase, quote, change, mintSpent, net>>
      /\ job.pc \in {"wait", "recheck"} /\ job'.pc \in {"settle", "submit", "recheck", "judge"}
      /\ job.answer # "none" /\ net = {}
      /\ DOMAIN job' = DOMAIN job /\ job'.tx = job.tx /\ job'.inputs = job.inputs /\ job'.row = job.row
    BY DEF TakeAnswer, TakeError, Recheck, mintVars, storeVars, IInv, Shapes, Orderly, JobOrderly, NetOrderly
<1>2. JobOrderly'
  <2>1. CASE TakeAnswer
      BY <1>1, <2>1 DEF TakeAnswer, IInv, Shapes, Orderly, JobOrderly, Holding, Taken, Standing, Answers
  <2>2. CASE TakeError
      BY <1>1, <2>2 DEF TakeError, IInv, Shapes, Orderly, JobOrderly, Holding, Taken, Standing, Answers
  <2>3. CASE Recheck
    <3>1. job.tx \in Transfer /\ quote[job.tx].state = "UNPAID" /\ ~Taken(job.tx) /\ change[job.tx] = {}
        BY <2>3 DEF Recheck, IInv, JobKnows, Orderly, JobOrderly, QuoteOrderly, Standing
    <3> QED
        BY <1>1, <2>3, <3>1 DEF Recheck, IInv, Shapes, Orderly, JobOrderly, Holding, Taken, Standing
  <2> QED
      BY <2>1, <2>2, <2>3
<1>3. Typed' /\ NetOrderly'
    BY <1>1 DEF Orderly, Typed, NetOrderly
<1> QED
    BY <1>1, <1>2, <1>3, TaskMoves, Frames DEF Orderly, Holding

\* The task fails: the mint has taken nothing, or has let it go.
LEMMA FailKeeps == ASSUME IInv, Orderly, Fail PROVE Orderly'
<1>1. /\ UNCHANGED <<disk, mem, sync, visit, phase, quote, change, mintSpent, net>>
      /\ job.pc = "fail" /\ job' = IdleJob /\ net = {} /\ sync = IdleSync
    BY DEF Fail, mintVars, storeVars, Orderly, NetOrderly, SyncOrderly
<1>2. \A t \in Transfer : status'[t] \in {status[t], "ERROR"}
    BY TransferAssumptions DEF Fail, SetStatus, IInv, Shapes
<1>3. Typed' /\ JobOrderly' /\ NetOrderly' /\ SyncOrderly' /\ LockOrderly'
    BY <1>1 DEF Orderly, Typed, JobOrderly, NetOrderly, SyncOrderly, LockOrderly, IdleJob, IdleSync, Holding
<1>4. \A t \in Transfer : ~Busy(t)'
    BY <1>1 DEF Busy, IdleJob, Holding
<1>5. StatusOrderly'
    BY <1>1, <1>2, <1>4 DEF Orderly, StatusOrderly, Taken, Standing
<1>6. VisitsOrderly'
    BY <1>1, <1>4, VisitsStand
<1>7. StoreOrderly'
  <2>1. \A p \in Proof : ~Own(p) /\ ~Swapping(p)
      BY <1>1 DEF Own, Swapping, Holding
  <2>2. /\ job'.pc = "idle"
        /\ \A t \in Transfer : status'[t] = "none" => status[t] = "none"
      BY <1>1, <1>2 DEF IdleJob
  <2> QED
      BY <1>1, <1>4, <2>1, <2>2 DEF Orderly, StoreOrderly, ProofOrderly, EcashOrderly, Melted, Standing
<1> QED
    BY <1>1, <1>3, <1>5, <1>6, <1>7, Frames DEF Orderly

\* A new transfer has nothing at the mint and nothing in the store.
LEMMA StartTransferKeeps == ASSUME IInv, Orderly, NEW t \in Transfer, StartTransfer(t) PROVE Orderly'
<1>1. /\ UNCHANGED <<disk, mem, sync, visit, phase, quote, change, mintSpent, net>>
      /\ job = IdleJob /\ sync = IdleSync /\ status[t] = "none" /\ status' = [status EXCEPT ![t] = "DRAFT"]
      /\ job' \in {IdleJob, [IdleJob EXCEPT !.pc = "select", !.tx = t]}
    BY DEF StartTransfer, Ready, SetStatus, mintVars, storeVars
<1>2. ~Taken(t) /\ net = {}
    BY <1>1 DEF Orderly, StatusOrderly, NetOrderly, IdleJob
<1>3. /\ job'.pc \in {"idle", "select"} /\ job'.answer = "none" /\ job'.change = {} /\ job'.inputs = {}
      /\ job'.pc = "select" => job'.tx = t
  <2>1. CASE job' = IdleJob
      BY <2>1 DEF IdleJob
  <2>2. CASE job' = [IdleJob EXCEPT !.pc = "select", !.tx = t]
      BY <2>2 DEF IdleJob
  <2> QED
      BY <1>1, <2>1, <2>2
<1>4. Typed' /\ JobOrderly' /\ NetOrderly' /\ SyncOrderly' /\ LockOrderly'
    BY <1>1, <1>2, <1>3 DEF Orderly, Typed, JobOrderly, NetOrderly, SyncOrderly, LockOrderly, IdleSync, Holding, Taken
<1>5. \A s \in Transfer : (Busy(s)' => s = t) /\ (s # t => status'[s] = status[s])
    BY <1>1, <1>3 DEF Busy, Holding
<1>6. StatusOrderly'
  <2>1. status'[t] = "DRAFT"
      BY <1>1, TransferAssumptions DEF IInv, Shapes
  <2> QED
      BY <2>1, <1>1, <1>5 DEF Orderly, StatusOrderly, Taken, Standing
<1>7. VisitsOrderly'
    BY <1>1, <1>2, <1>5, VisitsStand
<1>8. StoreOrderly'
  <2>1. \A p \in Proof : ~Own(p) /\ ~Swapping(p)
      BY <1>1 DEF Own, Swapping, IdleJob, Holding
  <2>2. ASSUME NEW s \in Transfer PROVE EcashOrderly(s)'
    <3>1. CASE s = t
      <4>0. \A r \in Role : mem[<<t, r>>] = Absent
          BY <1>1 DEF Orderly, StoreOrderly, EcashOrderly
      <4>1. \A r \in Role : mem[<<t, r>>] = Absent /\ mem[<<t, r>>].state = "none"
          BY <4>0 DEF Absent, Held
      <4>2. \A p \in Blanks(t) : mem[p].state = "none"
          BY <4>1 DEF Blanks, Role
      <4> QED
          BY <1>1, <3>1, <4>1, <4>2 DEF Orderly, StoreOrderly, EcashOrderly, Standing
    <3>2. CASE s # t
        BY <1>1, <1>3, <1>5, <3>2 DEF Orderly, StoreOrderly, EcashOrderly, Standing
    <3> QED
        BY <3>1, <3>2
  <2>3. \A p \in Proof : ProofOrderly(p)'
      BY <1>1, <2>1 DEF Orderly, StoreOrderly, ProofOrderly, Melted, Standing
  <2> QED
      BY <2>2, <2>3 DEF StoreOrderly
<1> QED
    BY <1>1, <1>4, <1>6, <1>7, <1>8, Frames DEF Orderly

\* Only the visit of w changes.
LEMMA OneVisit ==
    ASSUME IInv, Orderly, UNCHANGED <<quote, mem>>, NEW w \in Worker,
           \A u \in Worker : u # w => visit'[u] = visit[u], VisitOrderly(visit[w])',
           \A t \in Transfer : Taken(t) /\ Busy(t)' => Busy(t)
    PROVE  VisitsOrderly'
<1> SUFFICES ASSUME NEW u \in Worker, u # w PROVE VisitOrderly(visit[u])'
    BY DEF VisitsOrderly
<1> QED
    BY VisitStands

\* A visit begins: a transfer that is PENDING has been taken and left to itself by the task.
LEMMA EnterKeeps ==
    ASSUME IInv, Orderly, UNCHANGED <<quote, mem>>, NEW w \in Worker, NEW t \in Transfer, NEW mode,
           Enter(w, t, mode), \A s \in Transfer : Busy(s)' => Busy(s)
    PROVE  /\ VisitsOrderly'
           /\ \A v \in Worker : visit'[v].pending \in SUBSET Proof
<1>1. /\ visit'[w] = [NoVisit EXCEPT !.pc = EntryPc(t, mode), !.tx = t, !.mode = mode]
      /\ \A u \in Worker : u # w => visit'[u] = visit[u]
    BY DEF Enter, IInv, Shapes
<1>2. /\ visit'[w].pc = EntryPc(t, mode) /\ visit'[w].tx = t /\ visit'[w].mode = mode
      /\ visit'[w].seen = "none" /\ visit'[w].pending = {} /\ visit'[w].change = {}
    BY <1>1 DEF NoVisit
<1>3. /\ EntryPc(t, mode) \in {"ask", "returned", "threw"}
      /\ EntryPc(t, mode) = "ask" /\ mode # "recover" => InFlight(t)
    BY DEF EntryPc
<1>4. VisitOrderly(visit[w])'
    BY <1>2, <1>3 DEF VisitOrderly, Working, Orderly, StatusOrderly, Taken, InFlight
<1> QED
    BY <1>1, <1>2, <1>4, OneVisit DEF Orderly, Typed

\* A visit of the queue is over and reported.
LEMMA LeaveKeeps ==
    ASSUME IInv, Orderly, UNCHANGED <<quote, mem>>, NEW w \in Worker,
           visit' = [visit EXCEPT ![w] = NoVisit], \A s \in Transfer : Busy(s)' => Busy(s)
    PROVE  /\ VisitsOrderly'
           /\ \A v \in Worker : visit'[v].pending \in SUBSET Proof
<1>1. visit'[w] = NoVisit /\ \A u \in Worker : u # w => visit'[u] = visit[u]
    BY DEF IInv, Shapes
<1>2. VisitOrderly(visit[w])'
    BY <1>1 DEF VisitOrderly, Working, NoVisit
<1>3. VisitsOrderly'
    BY <1>1, <1>2, OneVisit
<1> QED
    BY <1>1, <1>3 DEF Orderly, Typed, NoVisit

\* The sync is back from a visit.
LEMMA DispatchedKeeps == ASSUME IInv, Orderly, Dispatched PROVE Orderly'
<1>0. /\ UNCHANGED <<disk, mem, job, phase, quote, change, mintSpent, net>>
      /\ sync.pc = "settling" /\ visit' = [visit EXCEPT ![Queue] = NoVisit]
      /\ \/ sync' = [sync EXCEPT !.pc = "settle"]
         \/ sync' = [sync EXCEPT !.pc = "settle", !.ids = @ \cup {sync.at}]
      /\ status' = status \/ status' = [status EXCEPT ![sync.at] = "ERROR"]
      /\ Queue \in Worker
    BY DEF Dispatched, SetStatus, storeVars, mintVars, Queue, Worker
<1>1. sync.at \in Transfer /\ Taken(sync.at)
    BY <1>0 DEF Orderly, SyncOrderly
<1>2. VisitsOrderly' /\ \A v \in Worker : visit'[v].pending \in SUBSET Proof
    BY <1>0, LeaveKeeps DEF Busy
<1>3. /\ DOMAIN sync' = DOMAIN sync /\ sync'.pc = "settle" /\ sync'.batch = sync.batch
      /\ sync'.from = sync.from /\ sync'.spent = sync.spent /\ sync'.pend = sync.pend
      /\ sync'.todo = sync.todo /\ sync'.short = sync.short
      /\ sync'.ids \subseteq sync.ids \cup {sync.at}
  <2>1. CASE sync' = [sync EXCEPT !.pc = "settle"]
      BY <2>1 DEF Orderly, Typed
  <2>2. CASE sync' = [sync EXCEPT !.pc = "settle", !.ids = @ \cup {sync.at}]
      BY <2>2 DEF Orderly, Typed
  <2> QED
      BY <1>0, <2>1, <2>2
<1>4. Typed'
    BY <1>0, <1>2, <1>3 DEF Orderly, Typed
<1>5. SyncOrderly'
    BY <1>0, <1>1, <1>3 DEF Orderly, SyncOrderly, Taken, Standing
<1>6. \A t \in Transfer : status'[t] \in {status[t], "ERROR"}
    BY <1>0, <1>1, TransferAssumptions DEF IInv, Shapes
<1>7. StatusOrderly'
    BY <1>0, <1>6 DEF Orderly, StatusOrderly, Taken, Standing, Busy
<1>8. StoreOrderly'
    BY <1>0, <1>6 DEF Orderly, StoreOrderly, ProofOrderly, EcashOrderly, Own, Melted, Swapping, Standing, Busy
<1> QED
    BY <1>0, <1>2, <1>4, <1>5, <1>7, <1>8, Frames DEF Orderly

\* The sync is back from a refresh.
LEMMA GoneRefreshedKeeps == ASSUME IInv, Orderly, GoneRefreshed PROVE Orderly'
<1>0. /\ UNCHANGED <<disk, mem, job, phase, quote, change, mintSpent, net>>
      /\ sync.pc = "refreshing" /\ visit' = [visit EXCEPT ![Queue] = NoVisit]
      /\ sync' = [sync EXCEPT !.pc = "refresh"]
      /\ status' = status \/ status' = [status EXCEPT ![sync.at] = "ERROR"]
      /\ Queue \in Worker
    BY DEF GoneRefreshed, SetStatus, storeVars, mintVars, Queue, Worker
<1>2. VisitsOrderly' /\ \A v \in Worker : visit'[v].pending \in SUBSET Proof
    BY <1>0, LeaveKeeps DEF Busy
<1>4. Typed'
    BY <1>0, <1>2 DEF Orderly, Typed
<1>5. SyncOrderly'
    BY <1>0 DEF Orderly, Typed, SyncOrderly, Taken, Standing
<1>6. \A t \in Transfer : status'[t] \in {status[t], "ERROR"}
    BY <1>0, TransferAssumptions DEF IInv, Shapes
<1>7. StatusOrderly'
    BY <1>0, <1>6 DEF Orderly, StatusOrderly, Taken, Standing, Busy
<1>8. StoreOrderly'
    BY <1>0, <1>6 DEF Orderly, StoreOrderly, ProofOrderly, EcashOrderly, Own, Melted, Swapping, Standing, Busy
<1> QED
    BY <1>0, <1>2, <1>4, <1>5, <1>7, <1>8, Frames DEF Orderly

\* The onchain check is back from its refresh.
LEMMA OnchainCheckedKeeps == ASSUME IInv, Orderly, OnchainChecked PROVE Orderly'
<1>0. /\ UNCHANGED <<disk, mem, status, sync, phase, quote, change, mintSpent, net>>
      /\ job.pc = "checking" /\ visit' = [visit EXCEPT ![Queue] = NoVisit] /\ job' = IdleJob
      /\ Queue \in Worker
    BY DEF OnchainChecked, storeVars, mintVars, Queue, Worker
<1>1. \A t \in Transfer : ~Busy(t) /\ ~Busy(t)'
    BY <1>0 DEF Busy, IdleJob, Holding
<1>2. VisitsOrderly' /\ \A v \in Worker : visit'[v].pending \in SUBSET Proof
    BY <1>0, <1>1, LeaveKeeps
<1>3. Typed'
    BY <1>0, <1>2 DEF Orderly, Typed, IdleJob
<1>4. /\ job'.pc \in {"idle", "checking"} /\ job'.answer = "none" /\ job'.change = {}
      /\ net = {} /\ sync.pc = "idle"
    BY <1>0 DEF Orderly, NetOrderly, SyncOrderly, IdleJob, IdleSync
<1>7. JobOrderly'
    BY <1>4 DEF JobOrderly, Holding
<1>8. NetOrderly' /\ LockOrderly'
    BY <1>0, <1>4 DEF NetOrderly, LockOrderly, Holding
<1>9. SyncOrderly'
    BY <1>0, <1>4 DEF Orderly, SyncOrderly, IdleSync
<1>5. StatusOrderly'
    BY <1>0, <1>1 DEF Orderly, StatusOrderly, Taken, Standing
<1>6. StoreOrderly'
    BY <1>0, <1>1 DEF Orderly, StoreOrderly, ProofOrderly, EcashOrderly, Own, Melted, Swapping, Standing, IdleJob, Holding
<1> QED
    BY <1>0, <1>2, <1>3, <1>7, <1>8, <1>9, <1>5, <1>6, Frames DEF Orderly

\* The sweep looks at a PENDING onchain transfer, with which the task is done.
LEMMA CheckOnchainKeeps == ASSUME IInv, Orderly, NEW t \in Transfer, CheckOnchain(t) PROVE Orderly'
<1>0. /\ UNCHANGED <<disk, mem, status, sync, phase, quote, change, mintSpent, net>>
      /\ job = IdleJob /\ sync = IdleSync /\ job' = [IdleJob EXCEPT !.pc = "checking", !.tx = t]
      /\ Enter(Queue, t, "refresh") /\ Queue \in Worker
    BY DEF CheckOnchain, Ready, storeVars, mintVars, Queue, Worker
<1>1. \A s \in Transfer : ~Busy(s) /\ ~Busy(s)'
    BY <1>0 DEF Busy, IdleJob, Holding
<1>2. VisitsOrderly' /\ \A v \in Worker : visit'[v].pending \in SUBSET Proof
  <2> HIDE <1>0
  <2>1. UNCHANGED <<quote, mem>> /\ Enter(Queue, t, "refresh") /\ Queue \in Worker
      BY <1>0
  <2> QED
      BY <2>1, <1>1, EnterKeeps
<1>3. Typed'
    BY <1>0, <1>2 DEF Orderly, Typed, IdleJob
<1>4. /\ job'.pc \in {"idle", "checking"} /\ job'.answer = "none" /\ job'.change = {}
      /\ net = {} /\ sync.pc = "idle"
    BY <1>0 DEF Orderly, NetOrderly, SyncOrderly, IdleJob, IdleSync
<1>7. JobOrderly'
    BY <1>4 DEF JobOrderly, Holding
<1>8. NetOrderly' /\ LockOrderly'
    BY <1>0, <1>4 DEF NetOrderly, LockOrderly, Holding
<1>9. SyncOrderly'
    BY <1>0, <1>4 DEF Orderly, SyncOrderly, IdleSync
<1>5. StatusOrderly'
    BY <1>0, <1>1 DEF Orderly, StatusOrderly, Taken, Standing
<1>6. StoreOrderly'
    BY <1>0, <1>1 DEF Orderly, StoreOrderly, ProofOrderly, EcashOrderly, Own, Melted, Swapping, Standing, IdleJob, Holding
<1> QED
    BY <1>0, <1>2, <1>3, <1>7, <1>8, <1>9, <1>5, <1>6, Frames DEF Orderly

\* A monitor and the recovery screen enter.
LEMMA OthersEnterKeeps ==
    ASSUME IInv, Orderly, NEW t \in Transfer, RecoverByHand(t) \/ MonitorRefreshes(t) PROVE Orderly'
<1>0. /\ UNCHANGED <<disk, mem, status, job, sync, phase, quote, change, mintSpent, net>>
      /\ \E w \in Worker : \E mode : Enter(w, t, mode)
    BY TransferAssumptions DEF RecoverByHand, MonitorRefreshes, storeVars, mintVars, queueVars, Screen, Worker
<1>1. VisitsOrderly' /\ \A v \in Worker : visit'[v].pending \in SUBSET Proof
    BY <1>0, EnterKeeps DEF Busy
<1>2. Typed'
    BY <1>0, <1>1 DEF Orderly, Typed
<1> QED
    BY <1>0, <1>1, <1>2, Frames DEF Orderly

\* The sync visits a transfer whose inputs it has written off.
LEMMA DispatchKeeps == ASSUME IInv, Orderly, NEW t \in Tx, Dispatch(t) PROVE Orderly'
<1>0. /\ UNCHANGED <<disk, mem, status, job, phase, quote, change, mintSpent, net>>
      /\ sync.pc = "settle" /\ t \in sync.todo /\ t \in Transfer
      /\ sync' = [sync EXCEPT !.todo = @ \ {t}, !.at = t, !.pc = "settling"]
      /\ Queue \in Worker /\ \E mode : Enter(Queue, t, mode)
    BY DEF Dispatch, storeVars, mintVars, Queue, Worker
<1>1. VisitsOrderly' /\ \A v \in Worker : visit'[v].pending \in SUBSET Proof
    BY <1>0, EnterKeeps DEF Busy
<1>2. Typed'
    BY <1>0, <1>1 DEF Orderly, Typed
<1>3. Taken(t)
    BY <1>0 DEF Orderly, SyncOrderly, QuoteOrderly
<1>4. SyncOrderly'
    BY <1>0, <1>3 DEF Orderly, Typed, SyncOrderly, Taken, Standing
<1> QED
    BY <1>0, <1>1, <1>2, <1>4, Frames DEF Orderly

\* The sync visits a transfer that is pending no more.
LEMMA RefreshGoneKeeps == ASSUME IInv, Orderly, NEW t \in Tx, RefreshGone(t) PROVE Orderly'
<1>0. /\ UNCHANGED <<disk, mem, status, job, phase, quote, change, mintSpent, net>>
      /\ sync.pc = "refresh" /\ t \in Transfer
      /\ sync' = [sync EXCEPT !.todo = @ \ {t}, !.at = t, !.pc = "refreshing"]
      /\ Queue \in Worker /\ Enter(Queue, t, "refresh")
    BY DEF RefreshGone, storeVars, mintVars, Queue, Worker
<1>1. VisitsOrderly' /\ \A v \in Worker : visit'[v].pending \in SUBSET Proof
    BY <1>0, EnterKeeps DEF Busy
<1>2. Typed'
    BY <1>0, <1>1 DEF Orderly, Typed
<1>4. SyncOrderly'
    BY <1>0 DEF Orderly, Typed, SyncOrderly, Taken, Standing
<1> QED
    BY <1>0, <1>1, <1>2, <1>4, Frames DEF Orderly

\* The steps in which only the sync moves.
LEMMA SyncMovesOn ==
    ASSUME IInv, Orderly, \/ Unregister \/ Synced
                          \/ \E t \in Tx : SkipSettled(t)
    PROVE  Orderly'
<1>0. UNCHANGED <<disk, mem, status, job, visit, phase, quote, change, mintSpent, net>>
    BY DEF Unregister, Synced, SkipSettled, storeVars, mintVars
<1>1. CASE Unregister
    BY <1>0, <1>1, Frames DEF Unregister, Orderly, Typed, SyncOrderly, Taken, Standing
<1>2. CASE Synced
  <2>1. sync' = IdleSync
      BY <1>2 DEF Synced
  <2>2. Typed'
      BY <1>0, <2>1 DEF Orderly, Typed, IdleSync
  <2>3. SyncOrderly'
      BY <1>0, <2>1 DEF Orderly, SyncOrderly, IdleSync
  <2> QED
      BY <1>0, <2>2, <2>3, Frames DEF Orderly
<1>3. CASE \E t \in Tx : SkipSettled(t)
  <2>1. PICK t \in Tx : SkipSettled(t)
      BY <1>3
  <2>2. t \in Transfer /\ Taken(t)
      BY <2>1 DEF SkipSettled, Orderly, SyncOrderly, QuoteOrderly
  <2>3. Typed'
      BY <1>0, <2>1 DEF SkipSettled, Orderly, Typed
  <2>4. SyncOrderly'
    <3>1. /\ sync.pc = "settle" /\ sync'.pc = "settle" /\ sync'.batch = sync.batch
          /\ sync'.from = sync.from /\ sync'.spent = sync.spent /\ sync'.pend = sync.pend
          /\ sync'.todo \subseteq sync.todo /\ sync'.short = sync.short
          /\ sync'.ids \subseteq sync.ids \cup {t}
        BY <2>1 DEF SkipSettled, Orderly, Typed
    <3> QED
        BY <1>0, <2>2, <3>1 DEF Orderly, SyncOrderly, Taken, Standing
  <2> QED
      BY <1>0, <2>3, <2>4, Frames DEF Orderly
<1> QED
    BY <1>1, <1>2, <1>3

\* A visit is over, whoever made it.
LEMMA EndKeeps ==
    ASSUME IInv, Orderly, UNCHANGED <<quote, mem>>, NEW w \in Worker, NEW outcome,
           outcome \in {"returned", "threw"},
           visit' = [visit EXCEPT ![w] = Ended(w, outcome)], \A s \in Transfer : Busy(s)' => Busy(s)
    PROVE  /\ VisitsOrderly'
           /\ \A v \in Worker : visit'[v].pending \in SUBSET Proof
<1>1. visit'[w] = Ended(w, outcome) /\ \A u \in Worker : u # w => visit'[u] = visit[u]
    BY DEF IInv, Shapes
<1>2. VisitOrderly(visit[w]) /\ visit[w].pending \in SUBSET Proof
    BY DEF Orderly, VisitsOrderly, Typed
<1>3. \/ visit'[w] = NoVisit
      \/ /\ visit'[w].pc \in {"returned", "threw"} /\ visit'[w].tx = visit[w].tx
         /\ visit'[w].mode = visit[w].mode /\ visit'[w].change = visit[w].change
         /\ visit'[w].pending = visit[w].pending
    BY <1>1 DEF Ended, IInv, Shapes
<1>4. VisitOrderly(visit[w])'
    BY <1>2, <1>3 DEF VisitOrderly, Working, NoVisit, Taken
<1>5. VisitsOrderly'
    BY <1>1, <1>4, OneVisit
<1> QED
    BY <1>1, <1>2, <1>3, <1>5 DEF Orderly, Typed, NoVisit

\* REVERTED: the mint has let the payment go.
LEMMA MarkRevertedKeeps == ASSUME IInv, Orderly, NEW w \in Worker, MarkReverted(w) PROVE Orderly'
<1> DEFINE t == visit[w].tx
<1>0. /\ UNCHANGED <<disk, mem, job, sync, phase, quote, change, mintSpent, net>>
      /\ visit[w].pc = "revert" /\ status' = [status EXCEPT ![t] = "REVERTED"]
      /\ visit' = [visit EXCEPT ![w] = Ended(w, "returned")]
    BY DEF MarkReverted, SetStatus, EndVisit, storeVars, mintVars, queueVars
<1>1. /\ t \in Transfer /\ Taken(t) /\ ~Standing(t)
    BY <1>0, Known DEF Orderly, VisitsOrderly, VisitOrderly, Working
<1>2. VisitsOrderly' /\ \A v \in Worker : visit'[v].pending \in SUBSET Proof
    BY <1>0, EndKeeps DEF Busy
<1>3. Typed'
    BY <1>0, <1>2 DEF Orderly, Typed
<1>4. \A s \in Transfer : status'[s] = IF s = t THEN "REVERTED" ELSE status[s]
    BY <1>0, <1>1, TransferAssumptions DEF IInv, Shapes
<1>5. StatusOrderly'
    BY <1>0, <1>1, <1>4 DEF Orderly, StatusOrderly, Taken, Standing, Busy
<1>6. StoreOrderly'
    BY <1>0, <1>4 DEF Orderly, StoreOrderly, ProofOrderly, EcashOrderly, Own, Melted, Swapping, Standing, Busy
<1> QED
    BY <1>0, <1>2, <1>3, <1>5, <1>6, Frames DEF Orderly

\* The sync marks what it has found at the mint.
LEMMA MarkPendingKeeps == ASSUME IInv, Orderly, MarkPending PROVE Orderly'
<1>0. /\ UNCHANGED <<disk, mem, job, visit, phase, quote, change, mintSpent, net>>
      /\ sync.pc = "mark" /\ sync' = [sync EXCEPT !.pc = "gone"]
      /\ status' = [t \in Tx |-> IF t \in sync.ids THEN "PENDING" ELSE status[t]]
    BY DEF MarkPending, storeVars, mintVars
<1>1. job.pc = "idle" /\ \A t \in sync.ids : t \in Transfer /\ Taken(t)
    BY <1>0 DEF Orderly, SyncOrderly
<1>2. \A t \in Transfer : ~Busy(t)
    BY <1>1 DEF Busy, Holding
<1>3. \A t \in Transfer : status'[t] = IF t \in sync.ids THEN "PENDING" ELSE status[t]
    BY <1>0, TransferAssumptions
<1>4. StatusOrderly'
    BY <1>0, <1>1, <1>2, <1>3 DEF Orderly, StatusOrderly, Taken, Standing, Busy
<1>5. StoreOrderly'
    BY <1>0, <1>3 DEF Orderly, StoreOrderly, ProofOrderly, EcashOrderly, Own, Melted, Swapping, Standing, Busy
<1>6. Typed'
    BY <1>0 DEF Orderly, Typed
<1>7. SyncOrderly'
    BY <1>0 DEF Orderly, Typed, SyncOrderly, Taken, Standing
<1> QED
    BY <1>0, <1>4, <1>5, <1>6, <1>7, Frames DEF Orderly

\* A visit gets its answer.
LEMMA AskQuoteKeeps == ASSUME IInv, Orderly, NEW w \in Worker, AskQuote(w) PROVE Orderly'
<1> DEFINE t == visit[w].tx
<1>0. /\ UNCHANGED <<disk, mem, status, job, sync, phase, quote, change, mintSpent, net>>
      /\ visit[w].pc = "ask"
      /\ visit' = [visit EXCEPT ![w] = [@ EXCEPT !.pc = "act", !.seen = quote[t].state, !.change = change[t]]]
    BY DEF AskQuote, storeVars, mintVars, queueVars
<1>1. t \in Transfer /\ VisitOrderly(visit[w]) /\ visit[w].pending \in SUBSET Proof
    BY <1>0, Known DEF Orderly, VisitsOrderly, Typed
<1>2. /\ visit'[w].pc = "act" /\ visit'[w].seen = quote[t].state /\ visit'[w].change = change[t]
      /\ visit'[w].tx = t /\ visit'[w].mode = visit[w].mode /\ visit'[w].pending = visit[w].pending
      /\ \A u \in Worker : u # w => visit'[u] = visit[u]
    BY <1>0 DEF IInv, Shapes
<1>3. /\ change[t] \subseteq Blanks(t) /\ quote[t].state \in Answers /\ (change[t] # {} => Taken(t))
    BY <1>1 DEF Orderly, QuoteOrderly
<1>4. VisitOrderly(visit[w])'
    BY <1>0, <1>1, <1>2, <1>3 DEF VisitOrderly, Working, Taken, Standing, Busy, Blanks
<1>5. VisitsOrderly'
    BY <1>0, <1>2, <1>4, OneVisit DEF Busy
<1>6. Typed'
    BY <1>0, <1>1, <1>2 DEF Orderly, Typed
<1> QED
    BY <1>0, <1>5, <1>6, Frames DEF Orderly

\* A visit that has seen PAID captures all that is locked for the payment.
LEMMA SeesPaidKeeps == ASSUME IInv, Orderly, NEW w \in Worker, SeesPaid(w) PROVE Orderly'
<1> DEFINE t == visit[w].tx
<1>0. /\ UNCHANGED <<disk, mem, status, job, sync, phase, quote, change, mintSpent, net>>
      /\ visit[w].pc = "act" /\ visit[w].mode # "recover" /\ visit[w].seen = "PAID"
      /\ visit' = [visit EXCEPT ![w].pc = "unblind", ![w].pending = PendingOf(t),
                                ![w].change = @ \cap recovery[t]]
    BY DEF SeesPaid, storeVars, mintVars, queueVars
<1>1. /\ t \in Transfer /\ VisitOrderly(visit[w]) /\ Standing(t)
    BY <1>0, Known DEF Orderly, VisitsOrderly, IInv, VisitKnows, Paid
<1>2. /\ visit'[w].pc = "unblind" /\ visit'[w].seen = visit[w].seen
      /\ visit'[w].change \subseteq visit[w].change /\ visit'[w].pending = PendingOf(t)
      /\ visit'[w].tx = t /\ visit'[w].mode = visit[w].mode
      /\ \A u \in Worker : u # w => visit'[u] = visit[u]
    BY <1>0 DEF IInv, Shapes
<1>3. Taken(t) /\ ~Busy(t)
    BY <1>0, <1>1 DEF VisitOrderly, Working
<1>4. /\ \A p \in PendingOf(t) : p \in Proof /\ p \in quote[t].inputs
      /\ \A p \in quote[t].inputs : mem[p].state = "PENDING" => p \in PendingOf(t)
  <2>1. ASSUME NEW p \in PendingOf(t) PROVE p \in Proof /\ p \in quote[t].inputs
    <3>1. p \in Proof /\ mem[p].state = "PENDING" /\ mem[p].tx = t
        BY DEF PendingOf, Having
    <3>2. ~Own(p)
        BY <1>3, <3>1 DEF Own, Busy, Orderly, LockOrderly, Held
    <3> QED
        BY <3>1, <3>2 DEF Orderly, StoreOrderly, ProofOrderly, Melted
  <2>2. ASSUME NEW p \in quote[t].inputs, mem[p].state = "PENDING" PROVE p \in PendingOf(t)
    <3>1. p \in Proof /\ mem[p].tx = t
        BY <1>1, Known DEF Orderly, StoreOrderly, EcashOrderly
    <3> QED
        BY <2>2, <3>1 DEF PendingOf, Having
  <2> QED
      BY <2>1, <2>2
<1>5. VisitOrderly(visit[w])'
    BY <1>0, <1>1, <1>2, <1>3, <1>4 DEF VisitOrderly, Working, Taken, Standing, Busy, Blanks
<1>6. VisitsOrderly'
    BY <1>0, <1>2, <1>5, OneVisit DEF Busy
<1>7. \A u \in Worker : visit'[u].pending \in SUBSET Proof
    BY <1>2 DEF PendingOf, Having, Orderly, Typed
<1>8. Typed'
    BY <1>0, <1>7 DEF Orderly, Typed
<1> QED
    BY <1>0, <1>6, <1>8, Frames DEF Orderly

\* A visit that has not.
LEMMA SeesUnpaidKeeps == ASSUME IInv, Orderly, NEW w \in Worker, SeesUnpaid(w) PROVE Orderly'
<1>0. /\ UNCHANGED <<disk, mem, status, job, sync, phase, quote, change, mintSpent, net>>
      /\ visit[w].pc = "act" /\ visit[w].mode # "recover" /\ visit[w].seen # "PAID"
      /\ \/ \E outcome \in {"returned", "threw"} : visit' = [visit EXCEPT ![w] = Ended(w, outcome)]
         \/ visit[w].seen # "PENDING" /\ visit' = [visit EXCEPT ![w].pc = "release"]
    BY DEF SeesUnpaid, EndVisit, GoOn, storeVars, mintVars, queueVars
<1>1. CASE \E outcome \in {"returned", "threw"} : visit' = [visit EXCEPT ![w] = Ended(w, outcome)]
  <2>1. VisitsOrderly' /\ \A v \in Worker : visit'[v].pending \in SUBSET Proof
      BY <1>0, <1>1, EndKeeps DEF Busy
  <2>2. Typed'
      BY <1>0, <2>1 DEF Orderly, Typed
  <2> QED
      BY <1>0, <2>1, <2>2, Frames DEF Orderly
<1>2. CASE visit[w].seen # "PENDING" /\ visit' = [visit EXCEPT ![w].pc = "release"]
  <2>1. VisitOrderly(visit[w]) /\ visit[w].pending \in SUBSET Proof
      BY DEF Orderly, VisitsOrderly, Typed
  <2>2. /\ visit'[w].pc = "release" /\ visit'[w].seen = visit[w].seen
        /\ visit'[w].change = visit[w].change /\ visit'[w].pending = visit[w].pending
        /\ visit'[w].tx = visit[w].tx /\ visit'[w].mode = visit[w].mode
        /\ \A u \in Worker : u # w => visit'[u] = visit[u]
      BY <1>2 DEF IInv, Shapes
  <2>3. visit[w].seen = "UNPAID"
      BY <1>0, <1>2, <2>1 DEF VisitOrderly, Answers
  <2>4. VisitOrderly(visit[w])'
      BY <1>0, <2>1, <2>2, <2>3 DEF VisitOrderly, Working, Taken, Standing, Busy, Blanks
  <2>5. VisitsOrderly'
      BY <1>0, <2>2, <2>4, OneVisit DEF Busy
  <2>6. Typed'
      BY <1>0, <2>1, <2>2 DEF Orderly, Typed
  <2> QED
      BY <1>0, <2>5, <2>6, Frames DEF Orderly
<1> QED
    BY <1>0, <1>1, <1>2

\* A visit goes on, maybe after marking its transfer as failed.
LEMMA VisitMarks ==
    ASSUME IInv, Orderly, UNCHANGED <<disk, mem, job, sync, phase, quote, change, mintSpent, net>>,
           \A s \in Transfer : \/ status'[s] \in {status[s], "ERROR"}
                               \/ InFlight(s) /\ status'[s] \in {"EXPIRING", "EXPIRED"},
           VisitsOrderly', \A v \in Worker : visit'[v].pending \in SUBSET Proof
    PROVE  Orderly'
<1>2. StatusOrderly'
    BY DEF Orderly, StatusOrderly, Taken, Standing, Busy, InFlight
<1>3. StoreOrderly'
    BY DEF InFlight, Orderly, StoreOrderly, ProofOrderly, EcashOrderly, Own, Melted, Swapping, Standing, Busy
<1>4. Typed'
    BY DEF Orderly, Typed
<1> QED
    BY <1>2, <1>3, <1>4, Frames DEF Orderly

\* The recovery screen captures the change.
LEMMA SeesForRecoveryKeeps == ASSUME IInv, Orderly, NEW w \in Worker, SeesForRecovery(w) PROVE Orderly'
<1> DEFINE t == visit[w].tx
<1>0. /\ UNCHANGED <<disk, mem, job, sync, phase, quote, change, mintSpent, net>>
      /\ visit[w].pc = "act" /\ visit[w].mode = "recover"
      /\ status' = ReadAgain({t}) \/ status' = [status EXCEPT ![t] = "ERROR"]
      /\ \/ \E outcome \in {"returned", "threw"} : visit' = [visit EXCEPT ![w] = Ended(w, outcome)]
         \/ visit' = [visit EXCEPT ![w].pc = "unblind", ![w].change = visit[w].change \cap recovery[t]]
    BY DEF SeesForRecovery, EndVisit, SetStatus, storeVars, mintVars, queueVars
<1>1. t \in Transfer /\ VisitOrderly(visit[w]) /\ visit[w].pending \in SUBSET Proof
    BY <1>0, Known DEF Orderly, VisitsOrderly, Typed
<1>2. VisitsOrderly' /\ \A v \in Worker : visit'[v].pending \in SUBSET Proof
  <2>1. CASE \E outcome \in {"returned", "threw"} : visit' = [visit EXCEPT ![w] = Ended(w, outcome)]
      BY <1>0, <2>1, EndKeeps DEF Busy
  <2>2. CASE visit' = [visit EXCEPT ![w].pc = "unblind", ![w].change = visit[w].change \cap recovery[t]]
    <3>1. /\ visit'[w].pc = "unblind" /\ visit'[w].seen = visit[w].seen
          /\ visit'[w].change \subseteq visit[w].change /\ visit'[w].pending = visit[w].pending
          /\ visit'[w].tx = visit[w].tx /\ visit'[w].mode = "recover"
          /\ \A u \in Worker : u # w => visit'[u] = visit[u]
        BY <1>0, <2>2 DEF IInv, Shapes
    <3>2. VisitOrderly(visit[w])'
        BY <1>0, <1>1, <3>1 DEF VisitOrderly, Working, Taken, Standing, Busy, Blanks
    <3>3. VisitsOrderly'
        BY <1>0, <3>1, <3>2, OneVisit DEF Busy
    <3> QED
        BY <1>1, <3>1, <3>3 DEF Orderly, Typed
  <2> QED
      BY <1>0, <2>1, <2>2
<1> HIDE DEF t
<1>3. \A s \in Transfer : \/ status'[s] \in {status[s], "ERROR"}
                          \/ InFlight(s) /\ status'[s] \in {"EXPIRING", "EXPIRED"}
  <2>1. CASE status' = ReadAgain({t})
      BY <2>1, ReadingAgain, TransferAssumptions DEF Rereads, InFlight
  <2>2. CASE status' = [status EXCEPT ![t] = "ERROR"]
      BY <2>2, TransferAssumptions DEF IInv, Shapes
  <2> QED
      BY <1>0, <2>1, <2>2
<1> QED
    BY <1>0, <1>2, <1>3, VisitMarks

\* The wallet instance is there: no change has been stored, and spent, meanwhile.
LEMMA UnblindKeeps ==
    ASSUME IInv, Orderly, NEW w \in Worker, Unblind(w), ~Overtaken(visit[w]) PROVE Orderly'
<1> DEFINE t   == visit[w].tx
           new == {p \in visit[w].change : mem[p] = Absent}
<1>0. /\ UNCHANGED <<disk, mem, job, sync, phase, quote, change, mintSpent, net>>
      /\ visit[w].pc = "unblind"
      /\ status' = status \/ status' = [status EXCEPT ![t] = "ERROR"]
      /\ \/ \E outcome \in {"returned", "threw"} : visit' = [visit EXCEPT ![w] = Ended(w, outcome)]
         \/ visit' = [visit EXCEPT ![w].pc = "settle",
                                   ![w].change = IF visit[w].mode = "recover" THEN new ELSE @]
    BY DEF Unblind, EndVisit, SetStatus, storeVars, mintVars, queueVars
<1>1. /\ t \in Transfer /\ VisitOrderly(visit[w]) /\ visit[w].pending \in SUBSET Proof
      /\ visit[w].change \subseteq Proof
    BY <1>0, Known DEF Orderly, VisitsOrderly, Typed
<1>2. VisitsOrderly' /\ \A v \in Worker : visit'[v].pending \in SUBSET Proof
  <2>1. CASE \E outcome \in {"returned", "threw"} : visit' = [visit EXCEPT ![w] = Ended(w, outcome)]
      BY <1>0, <2>1, EndKeeps DEF Busy
  <2>2. CASE visit' = [visit EXCEPT ![w].pc = "settle",
                                   ![w].change = IF visit[w].mode = "recover" THEN new ELSE @]
    <3>1. /\ visit'[w].pc = "settle" /\ visit'[w].seen = visit[w].seen
          /\ visit'[w].change = IF visit[w].mode = "recover" THEN new ELSE visit[w].change
          /\ visit'[w].pending = visit[w].pending
          /\ visit'[w].tx = visit[w].tx /\ visit'[w].mode = visit[w].mode
          /\ \A u \in Worker : u # w => visit'[u] = visit[u]
        BY <2>2 DEF IInv, Shapes
    <3>2. \A p \in visit'[w].change : p \in visit[w].change /\ mem[p].state \in {"none", "UNSPENT"}
        BY <1>1, <3>1 DEF Overtaken, Absent, Held, Orderly, Typed, MemRec, ProofState
    <3>3. VisitOrderly(visit[w])'
        BY <1>0, <1>1, <3>1, <3>2 DEF VisitOrderly, Working, Taken, Standing, Busy, Blanks
    <3>4. VisitsOrderly'
        BY <1>0, <3>1, <3>3, OneVisit DEF Busy
    <3> QED
        BY <1>1, <3>1, <3>4 DEF Orderly, Typed
  <2> QED
      BY <1>0, <2>1, <2>2
<1> HIDE DEF t
<1> QED
    BY <1>0, <1>1, <1>2, VisitMarks, TransferAssumptions DEF IInv, Shapes

\* The mint answers the sync: of a payment it has spent all inputs or none.
LEMMA CheckKeeps == ASSUME IInv, Orderly, Check PROVE Orderly'
<1>0. /\ UNCHANGED <<disk, mem, status, job, visit, phase, quote, change, mintSpent, net>>
      /\ sync.pc = "check"
      /\ sync' = [sync EXCEPT !.pc = "move", !.spent = sync.batch \cap mintSpent,
                              !.pend = sync.batch \cap HeldAtMint]
    BY DEF Check, storeVars, mintVars
<1>1. /\ sync'.pc = "move" /\ sync'.spent = sync.batch \cap mintSpent
      /\ sync'.pend = sync.batch \cap HeldAtMint
      /\ sync'.batch = sync.batch /\ sync'.from = sync.from /\ sync'.short = sync.short
      /\ sync'.ids = sync.ids /\ DOMAIN sync' = DOMAIN sync
    BY <1>0 DEF Orderly, Typed
<1>2. sync.from = "UNSPENT" => sync'.spent = {} /\ sync'.pend = {}
  <2> SUFFICES ASSUME sync.from = "UNSPENT", NEW p \in sync.batch PROVE p \notin mintSpent /\ p \notin HeldAtMint
      BY <1>1
  <2>1. p \in Proof /\ mem[p].state = "UNSPENT"
      BY DEF Orderly, Typed, SyncOrderly
  <2>2. p \notin mintSpent
      BY <2>1 DEF Orderly, StoreOrderly, ProofOrderly
  <2>3. ASSUME NEW t \in Transfer, p \in AtMint(t) PROVE FALSE
      BY <2>1, <2>3 DEF AtMint, Orderly, StoreOrderly, EcashOrderly, Standing
  <2> QED
      BY <2>2, <2>3 DEF HeldAtMint
<1>3. sync.from = "PENDING" => \A p \in sync'.spent : quote[mem[p].tx].inputs \subseteq sync'.spent
  <2> SUFFICES ASSUME sync.from = "PENDING", NEW p \in sync.batch, p \in mintSpent,
                      NEW r \in quote[mem[p].tx].inputs
               PROVE  r \in sync.batch /\ r \in mintSpent
      BY <1>1
  <2>1. p \in Proof /\ mem[p].state # "UNSPENT" /\ mem[p].tx \in Transfer
      BY DEF Orderly, Typed, SyncOrderly, StoreOrderly, ProofOrderly
  <2>2. p \in quote[mem[p].tx].inputs /\ r \in sync.batch
      BY <1>0, <2>1 DEF Orderly, SyncOrderly
  <2>3. Standing(mem[p].tx)
      BY <1>0, <2>1, <2>2 DEF Orderly, StoreOrderly, ProofOrderly, Melted, Swapping, SyncOrderly
  <2>4. r \in mintSpent
      BY <2>1, <2>2, <2>3 DEF Orderly, QuoteOrderly
  <2> QED
      BY <2>2, <2>4
<1>4. SyncOrderly'
    BY <1>0, <1>1, <1>2, <1>3 DEF Orderly, SyncOrderly, Taken, Standing
<1>5. Typed'
    BY <1>0, <1>1 DEF Orderly, Typed
<1> QED
    BY <1>0, <1>4, <1>5, Frames DEF Orderly

\* A sync takes the whole of what is PENDING, or of what is UNSPENT.
LEMMA SyncAllKeeps ==
    ASSUME IInv, Orderly, NEW from \in {"PENDING", "UNSPENT"}, SyncAll(from) PROVE Orderly'
<1> DEFINE S == Having(mem, from)
<1>0. /\ UNCHANGED <<disk, mem, status, job, visit, phase, quote, change, mintSpent, net>>
      /\ job = IdleJob /\ S # {}
      /\ sync' = [IdleSync EXCEPT !.pc = "check", !.from = from, !.batch = S]
    BY DEF SyncAll, StartSync, Ready, storeVars, mintVars
<1>1. /\ sync'.pc = "check" /\ sync'.from = from /\ sync'.batch = S /\ sync'.spent = {} /\ sync'.pend = {}
      /\ sync'.short = {} /\ sync'.ids = {} /\ DOMAIN sync' = DOMAIN IdleSync
    BY <1>0 DEF IdleSync
<1>2. job.pc = "idle"
    BY <1>0 DEF IdleJob
<1>3. \A p \in S : p \in Proof /\ mem[p].state = from
    BY DEF Having
<1>4. from = "PENDING" => \A p \in S : /\ mem[p].tx \in Transfer /\ p \in quote[mem[p].tx].inputs
                                       /\ quote[mem[p].tx].inputs \subseteq S
  <2> SUFFICES ASSUME from = "PENDING", NEW p \in S
               PROVE  /\ mem[p].tx \in Transfer /\ p \in quote[mem[p].tx].inputs
                      /\ quote[mem[p].tx].inputs \subseteq S
      OBVIOUS
  <2>1. p \in Proof /\ mem[p].state = "PENDING" /\ ~Own(p)
      BY <1>2, <1>3 DEF Own, Holding
  <2>2. mem[p].tx \in Transfer /\ p \in quote[mem[p].tx].inputs
      BY <2>1 DEF Orderly, StoreOrderly, ProofOrderly, Melted
  <2>3. mem[p] = Held("PENDING", mem[p].tx)
      BY <2>1, Records DEF Orderly
  <2>4. ASSUME NEW r \in quote[mem[p].tx].inputs PROVE r \in S
    <3>1. mem[r] = Held("PENDING", mem[p].tx) /\ r \in Proof
        BY <2>2, <2>3, Known DEF Orderly, StoreOrderly, EcashOrderly
    <3> QED
        BY <3>1 DEF Having, Held
  <2> QED
      BY <2>2, <2>4
<1> HIDE DEF S
<1>5. SyncOrderly'
    BY <1>0, <1>1, <1>2, <1>3, <1>4 DEF SyncOrderly, Taken, Standing
<1>6. Typed'
    BY <1>0, <1>1, <1>3 DEF Orderly, Typed, IdleSync
<1> QED
    BY <1>0, <1>5, <1>6, Frames DEF Orderly

\* Ecash the mint does not hold: nothing spent, nothing in a payment that stands.
LEMMA FreeIsFree ==
    ASSUME Orderly, NEW S, Free(S)
    PROVE  /\ S \cap mintSpent = {}
           /\ \A t \in Transfer : Standing(t) => S \cap quote[t].inputs = {}
<1>1. S \cap mintSpent = {} /\ S \cap HeldAtMint = {}
    BY DEF Free
<1>2. ASSUME NEW t \in Transfer, Standing(t), NEW p \in S, p \in quote[t].inputs PROVE FALSE
  <2>1. quote[t].state \in {"PENDING", "PAID"}
      BY <1>2 DEF Orderly, QuoteOrderly, Answers, Standing
  <2>2. CASE quote[t].state = "PENDING"
    <3>1. p \in AtMint(t) /\ p \notin mintSpent
        BY <1>1, <1>2, <2>2 DEF AtMint
    <3>2. p \in HeldAtMint
      <4>1. AtMint(t) \in {AtMint(s) : s \in Transfer}
          OBVIOUS
      <4> QED
          BY <3>1, <4>1 DEF HeldAtMint
    <3> QED
        BY <1>1, <3>2
  <2>3. CASE quote[t].state = "PAID"
      BY <1>1, <1>2, <2>3 DEF Orderly, QuoteOrderly
  <2> QED
      BY <2>1, <2>2, <2>3
<1> QED
    BY <1>1, <1>2

\* The mint swaps what the task has locked.
LEMMA MintSwapsKeeps == ASSUME IInv, Orderly, MintSwaps PROVE Orderly'
<1>0. /\ UNCHANGED <<disk, mem, status, sync, visit, phase, quote, change, net>>
      /\ job.pc = "swap" /\ job.answer = "none" /\ Free(job.inputs)
      /\ mintSpent' = mintSpent \cup job.inputs
      /\ job' = [job EXCEPT !.answer = "swapped"]
    BY DEF MintSwaps, storeVars
<1>1. /\ job'.pc = "swap" /\ job'.answer = "swapped" /\ job'.tx = job.tx /\ job'.inputs = job.inputs
      /\ job'.change = job.change /\ job'.row = job.row
    BY <1>0 DEF IInv, Shapes
<1>2. /\ \A t \in Transfer : Standing(t) => job.inputs \cap quote[t].inputs = {}
      /\ sync.pc = "idle" /\ net = {} /\ ~Taken(job.tx)
      /\ \A p \in job.inputs : mem[p] = Held("PENDING", job.tx) /\ mem[p].state = "PENDING" /\ mem[p].tx = job.tx
    BY <1>0, FreeIsFree DEF Orderly, SyncOrderly, NetOrderly, JobOrderly, LockOrderly, Holding, Held
<1>3. \A t \in Transfer : Busy(t)' = Busy(t)
    BY <1>0, <1>1 DEF Busy
<1>4. Typed' /\ JobOrderly' /\ NetOrderly'
    BY <1>0, <1>1, <1>2 DEF Orderly, Typed, JobOrderly, NetOrderly, Holding, Taken, Standing
<1>5. QuoteOrderly'
  <2> SUFFICES ASSUME NEW t \in Transfer, Standing(t), quote[t].inputs \cap mintSpent' # {}
               PROVE  quote[t].inputs \cap mintSpent # {}
      BY <1>0 DEF Orderly, QuoteOrderly, Taken, Standing
  <2> QED
      BY <1>0, <1>2
<1>6. StatusOrderly'
    BY <1>0, <1>3 DEF Orderly, StatusOrderly, Taken, Standing
<1>7. VisitsOrderly'
    BY <1>0, <1>3, VisitsStand
<1>8. SyncOrderly'
    BY <1>0, <1>2 DEF Orderly, SyncOrderly, IdleSync
<1>9. LockOrderly'
    BY <1>0, <1>1 DEF Orderly, LockOrderly, Holding
<1>10. ASSUME NEW p \in Proof PROVE ProofOrderly(p)'
  <2>1. ProofOrderly(p) /\ (Own(p)' = Own(p)) /\ (Melted(p)' = Melted(p))
      BY <1>0, <1>1 DEF Orderly, StoreOrderly, Own, Melted
  <2>2. p \in job.inputs => Swapping(p)'
      BY <1>1 DEF Swapping
  <2> QED
      BY <2>1, <2>2, <1>0, <1>1, <1>2 DEF ProofOrderly, Standing, Swapping
<1>11. \A t \in Transfer : EcashOrderly(t)'
    BY <1>0, <1>1, <1>3 DEF Orderly, StoreOrderly, EcashOrderly, Standing
<1> QED
    BY <1>0, <1>4, <1>5, <1>6, <1>7, <1>8, <1>9, <1>10, <1>11, Frames DEF Orderly, StoreOrderly

\* The mint takes the inputs of a request: they are locked, and nobody else has paid with them.
LEMMA TakeMeltKeeps == ASSUME IInv, Orderly, NEW q \in net, TakeMelt(q) PROVE Orderly'
<1> DEFINE t == q.tx
<1>0. /\ UNCHANGED <<disk, mem, status, job, sync, visit, phase, change, mintSpent>>
      /\ quote[t].state = "UNPAID" /\ Free(q.inputs) /\ net' = net \ {q}
      /\ quote' = [quote EXCEPT ![t] = [state |-> "PENDING", inputs |-> q.inputs, blank |-> q.blank]]
    BY DEF TakeMelt, storeVars, queueVars
<1>1. /\ t = job.tx /\ q.inputs = job.inputs /\ q.blank \subseteq Blanks(t) /\ ~Taken(t)
      /\ job.pc = "wait" /\ job.answer = "none" /\ t \in Transfer /\ q.inputs \in SUBSET Proof
      /\ \A r \in net : r = q
    BY DEF Orderly, NetOrderly, Typed
<1>2. /\ quote'[t].state = "PENDING" /\ quote'[t].inputs = job.inputs /\ quote'[t].blank = q.blank
      /\ \A s \in Transfer : s # t => quote'[s] = quote[s]
    BY <1>0, <1>1 DEF IInv, Shapes
<1>3. /\ \A s \in Transfer : Standing(s) => job.inputs \cap quote[s].inputs = {}
      /\ job.inputs \cap mintSpent = {}
      /\ \A p \in job.inputs : mem[p] = Held("PENDING", t) /\ mem[p].state = "PENDING" /\ mem[p].tx = t
      /\ sync.pc = "idle" /\ Worth(job.inputs) >= Need[t]
    BY <1>0, <1>1, FreeIsFree DEF Orderly, SyncOrderly, LockOrderly, Holding, Held
<1>4. job.inputs # {}
  <2>1. Need[t] \in Nat /\ Amount[t] \in Nat \ {0} /\ Amount[t] <= Need[t] /\ Worth({}) = 0
      BY <1>1, ValueAssumptions, WorthGrows
  <2>2. ~(Worth({}) >= Need[t])
      BY <2>1
  <2> QED
      BY <1>3, <2>2
<1>5. /\ Busy(t) /\ Taken(t)' /\ Standing(t)'
      /\ \A s \in Transfer : s # t => ~Busy(s) /\ (Taken(s)' = Taken(s)) /\ (Standing(s)' = Standing(s))
      /\ \A s \in Transfer : Busy(s)' = Busy(s)
    BY <1>0, <1>1, <1>2, <1>4 DEF Busy, Holding, Taken, Standing
<1>6. Typed'
    BY <1>0, <1>1, <1>2 DEF Orderly, Typed
<1>7. JobOrderly' /\ NetOrderly'
    BY <1>0, <1>1, <1>2, <1>5 DEF Orderly, JobOrderly, NetOrderly, Holding
<1>8. QuoteOrderly'
    BY <1>0, <1>1, <1>2, <1>3, <1>5 DEF Orderly, QuoteOrderly, Answers, Blanks
<1>9. StatusOrderly'
    BY <1>0, <1>1, <1>2, <1>5 DEF Orderly, StatusOrderly, IInv, CompletedOnlyIfPaid
<1>10. VisitsOrderly'
  <2> SUFFICES ASSUME NEW w \in Worker PROVE VisitOrderly(visit[w])'
      BY DEF VisitsOrderly
  <2>1. VisitOrderly(visit[w])
      BY DEF Orderly, VisitsOrderly
  <2>2. CASE visit[w].pc = "none"
      BY <1>0, <1>5, <2>1, <2>2 DEF VisitOrderly, Working, Blanks
  <2>3. CASE visit[w].pc # "none"
    <3>1. visit[w].tx \in Transfer
        BY <2>3, Known
    <3> QED
        BY <1>0, <1>2, <1>5, <2>1, <3>1 DEF VisitOrderly, Working, Blanks
  <2> QED
      BY <2>2, <2>3
<1>11. SyncOrderly'
    BY <1>0, <1>1, <1>3 DEF Orderly, SyncOrderly, IdleSync
<1>12. LockOrderly'
    BY <1>0 DEF Orderly, LockOrderly
<1>13. ASSUME NEW p \in Proof PROVE ProofOrderly(p)'
  <2>1. ProofOrderly(p) /\ (Own(p)' = Own(p)) /\ ~Swapping(p) /\ ~Swapping(p)'
      BY <1>0, <1>1 DEF Orderly, StoreOrderly, Own, Swapping
  <2>2. CASE mem[p].tx = t
    <3>1. ~Melted(p)
        BY <1>1, <2>2 DEF Melted, Taken
    <3>2. Melted(p)' => p \in job.inputs
        BY <1>0, <1>2, <2>2 DEF Melted
    <3> QED
        BY <1>0, <1>3, <1>5, <2>1, <2>2, <3>1, <3>2 DEF ProofOrderly
  <2>3. CASE mem[p].tx # t
    <3>1. (Melted(p)' = Melted(p)) /\ (mem[p].tx \in Transfer => (Standing(mem[p].tx)' = Standing(mem[p].tx)))
        BY <1>0, <1>2, <2>3 DEF Melted, Standing
    <3> QED
        BY <1>0, <1>2, <2>1, <2>3, <3>1 DEF ProofOrderly, Standing
  <2> QED
      BY <2>2, <2>3
<1>14. ASSUME NEW s \in Transfer PROVE EcashOrderly(s)'
  <2>1. CASE s = t
      BY <1>0, <1>1, <1>2, <1>3, <1>5, <2>1 DEF Orderly, StoreOrderly, StatusOrderly, EcashOrderly
  <2>2. CASE s # t
      BY <1>0, <1>2, <1>5, <2>2 DEF Orderly, StoreOrderly, EcashOrderly
  <2> QED
      BY <2>1, <2>2
<1> QED
    BY <1>0, <1>6, <1>7, <1>8, <1>9, <1>10, <1>11, <1>12, <1>13, <1>14, Frames DEF Orderly, StoreOrderly

\* The mint refuses a request: in order, only because its outputs are signed already.
LEMMA RefuseMeltKeeps == ASSUME IInv, Orderly, NEW q \in net, RefuseMelt(q) PROVE Orderly'
<1>1. /\ q.tx = job.tx /\ q.inputs = job.inputs /\ ~Taken(job.tx)
      /\ job.pc = "wait" /\ job.answer = "none" /\ \A r \in net : r = q
    BY DEF Orderly, NetOrderly
<1>2. /\ UNCHANGED <<disk, mem, status, sync, visit, phase, quote, change, mintSpent>>
      /\ net' = net \ {q} /\ \E a \in {"spent", "taken", "signed"} : job' = [job EXCEPT !.answer = a]
    BY <1>1 DEF RefuseMelt, Reply, storeVars
<1>3. \A p \in job.inputs : p \in Proof /\ mem[p].state = "PENDING" /\ mem[p].tx = job.tx /\ p \notin mintSpent
  <2> SUFFICES ASSUME NEW p \in job.inputs
               PROVE  p \in Proof /\ mem[p].state = "PENDING" /\ mem[p].tx = job.tx /\ p \notin mintSpent
      OBVIOUS
  <2>1. p \in Proof /\ mem[p].state = "PENDING" /\ mem[p].tx = job.tx
      BY <1>1 DEF Orderly, Typed, LockOrderly, Holding, Held
  <2>2. ~Melted(p) /\ ~Swapping(p)
      BY <1>1, <2>1 DEF Melted, Taken, Swapping
  <2> QED
      BY <2>1, <2>2 DEF Orderly, StoreOrderly, ProofOrderly
<1>4. job.inputs \cap HeldAtMint = {}
  <2> SUFFICES ASSUME NEW p \in job.inputs, NEW t \in Transfer, p \in AtMint(t) PROVE FALSE
      BY DEF HeldAtMint
  <2>1. Standing(t) /\ p \in quote[t].inputs
      BY DEF AtMint, Standing
  <2>2. mem[p].tx = t
      BY <2>1 DEF Orderly, StoreOrderly, EcashOrderly
  <2> QED
      BY <1>1, <1>3, <2>1, <2>2 DEF Taken
<1>5. job' = [job EXCEPT !.answer = "signed"]
    BY <1>1, <1>3, <1>4 DEF RefuseMelt, Reply
<1>6. /\ job'.answer = "signed" /\ job'.pc = "wait" /\ job'.tx = job.tx /\ job'.inputs = job.inputs
      /\ job'.change = job.change /\ job'.row = job.row /\ DOMAIN job' = DOMAIN job /\ net' = {}
    BY <1>1, <1>2, <1>5 DEF IInv, Shapes
<1>7. JobOrderly'
    BY <1>1, <1>2, <1>6 DEF Orderly, JobOrderly, Holding, Taken, Answers
<1>8. StatusOrderly' /\ VisitsOrderly' /\ SyncOrderly' /\ LockOrderly' /\ StoreOrderly'
    BY <1>1, <1>2, <1>6, TaskMoves DEF Holding
<1>9. Typed' /\ NetOrderly'
    BY <1>2, <1>6 DEF Orderly, Typed, NetOrderly
<1> QED
    BY <1>2, <1>7, <1>8, <1>9, Frames DEF Orderly

\* The mint answers the task.
LEMMA AnswerMeltKeeps == ASSUME IInv, Orderly, NEW t \in Transfer, AnswerMelt(t) PROVE Orderly'
<1>1. /\ UNCHANGED <<disk, mem, status, sync, visit, phase, quote, change, mintSpent, net>>
      /\ job.pc = "wait" /\ job.tx = t /\ job.answer = "none" /\ Taken(t)
      /\ job' = [job EXCEPT !.answer = IF t \in Onchain THEN "PENDING" ELSE quote[t].state,
                            !.change = change[t]]
    BY DEF AnswerMelt, Taken, storeVars, mintVars
<1>2. /\ job'.answer = (IF t \in Onchain THEN "PENDING" ELSE quote[t].state) /\ job'.pc = "wait"
      /\ job'.tx = t /\ job'.inputs = job.inputs /\ job'.change = change[t] /\ job'.row = job.row
      /\ DOMAIN job' = DOMAIN job
    BY <1>1 DEF IInv, Shapes
<1>3. net = {}
    BY <1>1 DEF Orderly, NetOrderly
<1>4. JobOrderly'
    BY <1>1, <1>2 DEF Orderly, JobOrderly, QuoteOrderly, Holding, Taken, Standing, Answers
<1>5. StatusOrderly' /\ VisitsOrderly' /\ SyncOrderly' /\ LockOrderly' /\ StoreOrderly'
    BY <1>1, <1>2, TaskMoves DEF Holding
<1>6. Typed' /\ NetOrderly'
    BY <1>1, <1>2, <1>3 DEF Orderly, Typed, NetOrderly
<1> QED
    BY <1>1, <1>4, <1>5, <1>6, Frames DEF Orderly

\* The mint pays: all inputs are spent, and what it signs are the blank outputs it was given.
LEMMA MintPays ==
    ASSUME IInv, Orderly, NEW t \in Transfer,
           UNCHANGED <<disk, mem, status, job, sync, visit, phase, net>>,
           quote[t].state = "PENDING", SignChange(t),
           mintSpent' = mintSpent \cup quote[t].inputs,
           \/ quote' = quote /\ t \in Onchain
           \/ /\ quote' = [quote EXCEPT ![t].state = "PAID"]
              /\ t \in Onchain => quote[t].inputs \subseteq mintSpent
    PROVE  Orderly'
<1>0. /\ \A s \in Transfer : quote'[s].inputs = quote[s].inputs /\ quote'[s].blank = quote[s].blank
      /\ \A s \in Transfer : s # t => quote'[s].state = quote[s].state
      /\ quote'[t].state \in {"PENDING", "PAID"}
      /\ quote'[t].state = "PENDING" => t \in Onchain
      /\ quote'[t].state = "PAID" /\ t \in Onchain => quote[t].inputs \subseteq mintSpent
      /\ quote[t].state = "PENDING"
    BY DEF IInv, Shapes, Bolt
<1>1. /\ \A s \in Transfer : (Taken(s)' <=> Taken(s)) /\ (Standing(s)' <=> Standing(s)) /\ (Busy(s)' <=> Busy(s))
      /\ Standing(t) /\ Taken(t)
    BY <1>0 DEF Taken, Standing, Busy, Orderly, QuoteOrderly
<1>2. /\ DOMAIN change' = Transfer
      /\ \A s \in Transfer : change'[s] \in {change[s], IF s = t THEN quote[t].blank ELSE {}}
      /\ \A s \in Transfer : s # t => change'[s] = change[s]
      /\ change'[t] \in {change[t], {}, quote[t].blank}
    BY DEF SignChange, Orderly, Typed
<1>3. /\ quote[t].inputs \subseteq Proof
      /\ \A p \in quote[t].inputs : mem[p].tx = t /\ mem[p].state \in {"PENDING", "SPENT"}
    BY <1>1, Known DEF Orderly, StoreOrderly, EcashOrderly
<1>4. \A s \in Transfer : Standing(s) /\ s # t => quote[s].inputs \cap quote[t].inputs = {}
    BY <1>3 DEF Orderly, StoreOrderly, EcashOrderly
<1>5. Typed'
    BY <1>0, <1>2 DEF Orderly, Typed
<1>6. job.tx \in Transfer \/ job.pc = "idle"
    BY DEF IInv, JobKnows
<1>7. JobOrderly'
    BY <1>0, <1>1, <1>6 DEF Orderly, JobOrderly, Holding
<1>8. NetOrderly'
    BY <1>0, <1>1, <1>6 DEF Orderly, NetOrderly
<1>9. QuoteOrderly'
  <2> SUFFICES ASSUME NEW s \in Transfer
               PROVE  /\ quote'[s].state \in Answers
                      /\ Standing(s)' => Taken(s)'
                      /\ Taken(s)' => Worth(quote'[s].inputs) >= Need[s]
                      /\ quote'[s].blank \subseteq Blanks(s)
                      /\ change'[s] \subseteq Blanks(s)
                      /\ change'[s] # {} => Taken(s)'
                      /\ Standing(s)' /\ quote'[s].inputs \cap mintSpent' # {} =>
                          quote'[s].inputs \subseteq mintSpent' /\ (s \in Bolt => quote'[s].state = "PAID")
                      /\ quote'[s].state = "PAID" => quote'[s].inputs \subseteq mintSpent'
      BY DEF QuoteOrderly, Blanks
  <2>1. CASE s = t
      BY <1>0, <1>1, <1>2, <2>1 DEF Orderly, QuoteOrderly, Answers, Bolt
  <2>2. CASE s # t
    <3>1. Standing(s) => quote[s].inputs \cap mintSpent' = quote[s].inputs \cap mintSpent
        BY <1>4, <2>2
    <3> QED
        BY <1>0, <1>1, <1>2, <2>2, <3>1 DEF Orderly, QuoteOrderly
  <2> QED
      BY <2>1, <2>2
<1>10. StatusOrderly'
    BY <1>0, <1>1 DEF Orderly, StatusOrderly
<1>11. VisitsOrderly'
  <2> SUFFICES ASSUME NEW w \in Worker PROVE VisitOrderly(visit[w])'
      BY DEF VisitsOrderly
  <2>1. VisitOrderly(visit[w])
      BY DEF Orderly, VisitsOrderly
  <2>2. CASE visit[w].pc = "none"
      BY <2>1, <2>2 DEF VisitOrderly, Working, Blanks
  <2>3. CASE visit[w].pc # "none"
    <3>1. visit[w].tx \in Transfer
        BY <2>3, Known
    <3> QED
        BY <1>0, <1>1, <2>1, <3>1 DEF VisitOrderly, Working, Blanks
  <2> QED
      BY <2>2, <2>3
<1>12. SyncOrderly'
  <2>1. \A p \in sync.batch : sync.from = "PENDING" => mem[p].tx \in Transfer
      BY DEF Orderly, SyncOrderly
  <2>2. sync.spent \subseteq sync.batch
      BY DEF Orderly, SyncOrderly
  <2>3. sync.from = "UNSPENT" => sync.spent = {}
      BY DEF Orderly, SyncOrderly
  <2>4. sync.from \in {"PENDING", "UNSPENT"}
      BY DEF Orderly, SyncOrderly
  <2>5. \A p \in sync.spent : quote'[mem'[p].tx].inputs = quote[mem[p].tx].inputs
      BY <1>0, <2>1, <2>2, <2>3, <2>4
  <2>6. \A s \in sync.todo : sync.pc \in {"settle", "settling"} => s \in Transfer /\ quote[s].inputs \subseteq mintSpent
                                 /\ (s \in Bolt => quote[s].state = "PAID") /\ Standing(s)
      BY DEF Orderly, SyncOrderly
  <2>7. \A s \in sync.todo : sync.pc \in {"settle", "settling"} =>
            s \in Transfer /\ Standing(s)' /\ quote'[s].inputs \subseteq mintSpent' /\ (s \in Bolt => quote'[s].state = "PAID")
      BY <2>6, <1>0, <1>1
  <2>8. \A p \in sync.batch : sync.from = "PENDING" =>
            Taken(mem[p].tx)' /\ quote'[mem[p].tx].inputs = quote[mem[p].tx].inputs
      BY <1>0, <1>1, <2>1 DEF Orderly, SyncOrderly
  <2>9. sync.ids \subseteq {s \in Transfer : Taken(s)'} /\ (sync.pc = "settling" => sync.at \in Transfer /\ Taken(sync.at)')
      BY <1>1 DEF Orderly, SyncOrderly
  <2> QED
      BY <2>1, <2>2, <2>5, <2>7, <2>8, <2>9 DEF Orderly, SyncOrderly
<1>13. LockOrderly'
    BY DEF Orderly, LockOrderly
<1>14. ASSUME NEW p \in Proof PROVE ProofOrderly(p)'
  <2>1. ProofOrderly(p) /\ (Own(p)' <=> Own(p)) /\ (Swapping(p)' <=> Swapping(p)) /\ (Melted(p)' <=> Melted(p))
      BY <1>0 DEF Orderly, StoreOrderly, Own, Melted, Swapping
  <2>2. mem[p].tx \in Transfer => (Standing(mem[p].tx)' <=> Standing(mem[p].tx))
      BY <1>1 DEF Standing
  <2>3. p \in quote[t].inputs => Melted(p) /\ Standing(mem[p].tx)
      BY <1>1, <1>3 DEF Melted
  <2>4. Melted(p) => mem[p].tx \in Transfer
      BY DEF Melted
  <2>5. mem[p].state = "SPENT" => p \in mintSpent' /\ mem[p].tx \in Transfer
      BY <2>1 DEF ProofOrderly
  <2>6. mem[p].state = "SPENT" /\ Melted(p) => Standing(mem[p].tx)'
      BY <2>1, <2>2, <2>4 DEF ProofOrderly
  <2>7. p \in mintSpent' => mem[p].state \in {"PENDING", "SPENT"}
      BY <1>3, <2>1 DEF ProofOrderly
  <2>8. p \in mintSpent' /\ mem[p].state = "PENDING" => Swapping(p) \/ (Melted(p) /\ Standing(mem[p].tx)')
      BY <2>1, <2>2, <2>3, <2>4 DEF ProofOrderly
  <2>9. mem[p].state = "PENDING" => Own(p) \/ Melted(p)
      BY <2>1 DEF ProofOrderly
  <2> QED
      BY <2>1, <2>5, <2>6, <2>7, <2>8, <2>9 DEF ProofOrderly
<1>15. ASSUME NEW s \in Transfer PROVE EcashOrderly(s)'
    BY <1>0, <1>1 DEF Orderly, StoreOrderly, EcashOrderly, Blanks
<1> QED
    BY <1>5, <1>7, <1>8, <1>9, <1>10, <1>11, <1>12, <1>13, <1>14, <1>15 DEF Orderly, StoreOrderly

\* Broadcast, or settlement.
LEMMA MintPaysKeeps ==
    ASSUME IInv, Orderly, NEW t \in Transfer, Broadcast(t) \/ PaymentSucceeds(t) PROVE Orderly'
<1>1. CASE Broadcast(t)
    BY <1>1, MintPays DEF Broadcast, storeVars, queueVars
<1>2. CASE PaymentSucceeds(t)
    BY <1>2, MintPays DEF PaymentSucceeds, storeVars, queueVars
<1> QED
    BY <1>1, <1>2

\* The network gives up, and the mint lets the inputs go: none of them has been spent.
LEMMA PaymentFailsKeeps == ASSUME IInv, Orderly, NEW t \in Transfer, PaymentFails(t) PROVE Orderly'
<1>0. /\ UNCHANGED <<disk, mem, status, job, sync, visit, phase, net, change, mintSpent>>
      /\ quote[t].state = "PENDING" /\ quote[t].inputs \cap mintSpent = {}
      /\ quote' = [quote EXCEPT ![t].state = "UNPAID"]
    BY DEF PaymentFails, storeVars, queueVars
<1>1. /\ \A s \in Transfer : quote'[s].inputs = quote[s].inputs /\ quote'[s].blank = quote[s].blank
      /\ \A s \in Transfer : s # t => quote'[s].state = quote[s].state
      /\ quote'[t].state = "UNPAID"
    BY <1>0 DEF IInv, Shapes
<1>2. /\ \A s \in Transfer : (Taken(s)' <=> Taken(s)) /\ (Busy(s)' <=> Busy(s))
      /\ \A s \in Transfer : Standing(s)' => Standing(s) /\ s # t
      /\ \A s \in Transfer : s # t => (Standing(s)' <=> Standing(s))
      /\ Standing(t) /\ Taken(t) /\ ~Standing(t)'
    BY <1>0, <1>1 DEF Taken, Standing, Busy, Orderly, QuoteOrderly
<1>3. /\ quote[t].inputs \subseteq Proof
      /\ \A p \in quote[t].inputs : mem[p].tx = t /\ mem[p].state = "PENDING"
  <2> SUFFICES ASSUME NEW p \in quote[t].inputs PROVE p \in Proof /\ mem[p].tx = t /\ mem[p].state = "PENDING"
      OBVIOUS
  <2>1. p \in Proof /\ mem[p].tx = t /\ mem[p].state \in {"PENDING", "SPENT"}
      BY <1>2, Known DEF Orderly, StoreOrderly, EcashOrderly
  <2> QED
      BY <1>0, <2>1 DEF Orderly, StoreOrderly, ProofOrderly
<1>5. Typed'
    BY <1>0, <1>1 DEF Orderly, Typed
<1>6. job.tx \in Transfer \/ job.pc = "idle"
    BY DEF IInv, JobKnows
<1>7. JobOrderly'
    BY <1>0, <1>1, <1>2, <1>6 DEF Orderly, JobOrderly, Holding
<1>8. NetOrderly'
    BY <1>0, <1>1, <1>2, <1>6 DEF Orderly, NetOrderly
<1>9. QuoteOrderly'
  <2> SUFFICES ASSUME NEW s \in Transfer
               PROVE  /\ quote'[s].state \in Answers
                      /\ Standing(s)' => Taken(s)'
                      /\ Taken(s)' => Worth(quote'[s].inputs) >= Need[s]
                      /\ quote'[s].blank \subseteq Blanks(s)
                      /\ change'[s] \subseteq Blanks(s)
                      /\ change'[s] # {} => Taken(s)'
                      /\ Standing(s)' /\ quote'[s].inputs \cap mintSpent' # {} =>
                          quote'[s].inputs \subseteq mintSpent' /\ (s \in Bolt => quote'[s].state = "PAID")
                      /\ quote'[s].state = "PAID" => quote'[s].inputs \subseteq mintSpent'
      BY DEF QuoteOrderly, Blanks
  <2>1. CASE s = t
      BY <1>0, <1>1, <1>2, <2>1 DEF Orderly, QuoteOrderly, Answers
  <2>2. CASE s # t
      BY <1>0, <1>1, <1>2, <2>2 DEF Orderly, QuoteOrderly
  <2> QED
      BY <2>1, <2>2
<1>10. StatusOrderly'
    BY <1>0, <1>1, <1>2 DEF Orderly, StatusOrderly
<1>11. VisitsOrderly'
  <2> SUFFICES ASSUME NEW w \in Worker PROVE VisitOrderly(visit[w])'
      BY DEF VisitsOrderly
  <2>1. VisitOrderly(visit[w])
      BY DEF Orderly, VisitsOrderly
  <2>2. CASE visit[w].pc = "none"
      BY <1>0, <2>1, <2>2 DEF VisitOrderly, Working, Blanks
  <2>3. CASE visit[w].pc # "none"
    <3>1. visit[w].tx \in Transfer
        BY <2>3, Known
    <3> QED
        BY <1>0, <1>1, <1>2, <2>1, <3>1 DEF VisitOrderly, Working, Blanks
  <2> QED
      BY <2>2, <2>3
<1>12. SyncOrderly'
  <2>1. \A p \in sync.batch : sync.from = "PENDING" =>
            mem[p].tx \in Transfer /\ Taken(mem[p].tx)' /\ quote'[mem[p].tx].inputs = quote[mem[p].tx].inputs
      BY <1>0, <1>1, <1>2 DEF Orderly, SyncOrderly
  <2>2. \A p \in sync.spent : p \in sync.batch /\ sync.from = "PENDING"
      BY DEF Orderly, SyncOrderly
  <2>3. \A s \in sync.todo : sync.pc \in {"settle", "settling"} => s \in Transfer /\ s # t
    <3> SUFFICES ASSUME NEW s \in sync.todo, sync.pc \in {"settle", "settling"} PROVE s \in Transfer /\ s # t
        OBVIOUS
    <3>1. s \in Transfer /\ quote[s].inputs \subseteq mintSpent
        BY DEF Orderly, SyncOrderly
    <3> QED
        BY <3>1, <1>0, <1>2 DEF Taken
  <2>4. \A s \in sync.todo : sync.pc \in {"settle", "settling"} =>
            s \in Transfer /\ Standing(s)' /\ quote'[s].inputs \subseteq mintSpent /\ (s \in Bolt => quote'[s].state = "PAID")
      BY <2>3, <1>1, <1>2 DEF Orderly, SyncOrderly
  <2>5. sync.ids \subseteq {s \in Transfer : Taken(s)'} /\ (sync.pc = "settling" => sync.at \in Transfer /\ Taken(sync.at)')
      BY <1>0, <1>2 DEF Orderly, SyncOrderly
  <2> QED
      BY <1>0, <2>1, <2>2, <2>4, <2>5 DEF Orderly, SyncOrderly
<1>13. LockOrderly'
    BY <1>0 DEF Orderly, LockOrderly
<1>14. ASSUME NEW p \in Proof PROVE ProofOrderly(p)'
  <2>1. ProofOrderly(p) /\ (Own(p)' <=> Own(p)) /\ (Swapping(p)' <=> Swapping(p)) /\ (Melted(p)' <=> Melted(p))
      BY <1>0, <1>1 DEF Orderly, StoreOrderly, Own, Melted, Swapping
  <2>2. mem[p].tx \in Transfer /\ mem[p].tx # t => (Standing(mem[p].tx)' <=> Standing(mem[p].tx))
      BY <1>0, <1>2 DEF Standing
  <2>3. p \in mintSpent \/ mem[p].state = "SPENT" => ~(Melted(p) /\ mem[p].tx = t)
      BY <1>0, <1>3 DEF Melted
  <2>4. Melted(p) => mem[p].tx \in Transfer
      BY DEF Melted
  <2>6. mem[p].state = "SPENT" /\ Melted(p) => Standing(mem[p].tx)'
      BY <2>1, <2>2, <2>3, <2>4 DEF ProofOrderly
  <2>8. p \in mintSpent /\ mem[p].state = "PENDING" => Swapping(p) \/ (Melted(p) /\ Standing(mem[p].tx)')
      BY <2>1, <2>2, <2>3, <2>4 DEF ProofOrderly
  <2> QED
      BY <1>0, <2>1, <2>6, <2>8 DEF ProofOrderly
<1>15. ASSUME NEW s \in Transfer PROVE EcashOrderly(s)'
    BY <1>0, <1>1, <1>2 DEF Orderly, StoreOrderly, EcashOrderly, Blanks
<1> QED
    BY <1>5, <1>7, <1>8, <1>9, <1>10, <1>11, <1>12, <1>13, <1>14, <1>15 DEF Orderly, StoreOrderly

\* The record of mishaps only grows, by the one that happens.
LEMMA Suffered ==
    ASSUME faults \in Seq(Mishap), NEW kind, Suffer(kind)
    PROVE  /\ faults' \in Seq(Mishap)
           /\ \A kinds : OnlyMishaps(kinds)' => kind \in kinds /\ OnlyMishaps(kinds)
<1>1. kind \in Mishap /\ faults' = Append(faults, kind)
    BY DEF Suffer
<1>2. /\ faults' \in Seq(Mishap) /\ Len(faults') = Len(faults) + 1 /\ Len(faults) \in Nat
      /\ \A i \in 1..Len(faults) : faults'[i] = faults[i]
      /\ faults'[Len(faults) + 1] = kind
    BY <1>1, AppendProperties
<1>3. ASSUME NEW kinds, OnlyMishaps(kinds)' PROVE kind \in kinds /\ OnlyMishaps(kinds)
    BY <1>2, <1>3 DEF OnlyMishaps
<1> QED
    BY <1>2, <1>3

NoLoss == {"signed", "byhand"}

LInv == faults \in Seq(Mishap) /\ OrderlyIfNoLoss

\* The steps of the queue and of the visits that lead from order to order.
LEMMA RunningKeeps == ASSUME IInv, Orderly, Running PROVE Orderly'
<1>1. CASE JobRuns
  <2>1. ~Rescued
      BY DEF Rescued, Orderly, JobOrderly, Holding
  <2> QED
      BY <1>1, <2>1, LockKeeps, PreparedKeeps, SettlePaidKeeps, SettlePendingKeeps, SettleUnpaidKeeps,
         FailKeeps, OnchainCheckedKeeps DEF JobRuns
<1>2. CASE SyncRuns
  <2>1. \A t \in Tx : ~SettleShort(t)
      BY DEF SettleShort, Orderly, SyncOrderly
  <2> QED
      BY <1>2, <2>1, DispatchedKeeps, RegisterKeeps, GoneRefreshedKeeps, SyncMovesOn, DispatchKeeps,
         RefreshGoneKeeps DEF SyncRuns
<1>3. CASE VisitRuns
    BY <1>3, ReleaseFailedKeeps, MarkRevertedKeeps, SettleVisitKeeps DEF VisitRuns
<1> QED
    BY <1>1, <1>2, <1>3 DEF Running

\* Those that follow an await.
LEMMA ResumingKeeps ==
    ASSUME IInv, Orderly, AtAwait, Resuming, \A w \in Worker : Unblind(w) => ~Overtaken(visit[w])
    PROVE  Orderly'
<1>1. CASE JobResumes
  <2>1. ~JudgePaid /\ ~JudgePending /\ ~NestedDone
      BY DEF JudgePaid, JudgePending, NestedDone, Orderly, JobOrderly, Holding
  <2> QED
      BY <1>1, <2>1, SelectKeeps, CommitSwapKeeps, SubmitKeeps, AnswerKeeps, JudgeUnpaidKeeps DEF JobResumes
<1>2. CASE SyncResumes
    BY <1>2, CheckKeeps, WriteOffKeeps, MarkPendingKeeps DEF SyncResumes
<1>3. CASE VisitResumes
    BY <1>3, AskQuoteKeeps, SeesPaidKeeps, SeesUnpaidKeeps, SeesForRecoveryKeeps, UnblindKeeps DEF VisitResumes
<1> QED
    BY <1>1, <1>2, <1>3 DEF Resuming

\* Those of the user, of the sweeps, of the mint and of the network.
LEMMA OthersKeep == ASSUME IInv, Orderly, Starts \/ MintSteps \/ NetworkSteps PROVE Orderly'
<1>1. CASE Starts
  <2>1. ASSUME NEW t \in Dated, ExpireTransfer(t) \/ ReloadTransfer(t) PROVE Orderly'
    <3>1. /\ UNCHANGED <<disk, mem, job, sync, visit, phase, quote, change, mintSpent, net>>
          /\ \A s \in Transfer : \/ status'[s] \in {status[s], "ERROR"}
                                 \/ InFlight(s) /\ status'[s] \in {"EXPIRING", "EXPIRED"}
        BY <2>1, ReadingAgain, TransferAssumptions DEF ExpireTransfer, ReloadTransfer, SetStatus, Rereads, InFlight,
           storeVars, queueVars, mintVars, IInv, Shapes
    <3> QED
        BY <3>1, Frames, VisitMarks DEF Orderly, Typed
  <2> QED
      BY <1>1, <2>1, StartTransferKeeps, CheckOnchainKeeps, OthersEnterKeeps, SyncAllKeeps DEF Starts
<1>2. CASE MintSteps
    BY <1>2, MintSwapsKeeps, TakeMeltKeeps, RefuseMeltKeeps, AnswerMeltKeeps DEF MintSteps
<1>3. CASE NetworkSteps
    BY <1>3, MintPaysKeeps, PaymentFailsKeeps DEF NetworkSteps
<1> QED
    BY <1>1, <1>2, <1>3

\* In order, nothing fails unless a call is lost: the mint swaps what the task has locked, and a
\* re-check follows only on a refusal.
LEMMA FailuresAreLosses == ASSUME IInv, Orderly, Failures PROVE TimeOut
<1>1. CASE SwapFails
  <2>1. job.pc = "swap" /\ (TimeOut \/ (job.answer = "none" /\ ~Free(job.inputs)))
      BY <1>1 DEF SwapFails
  <2>2. job.answer = "none" => Free(job.inputs)
    <3> SUFFICES ASSUME job.answer = "none", NEW p \in job.inputs
                 PROVE  p \notin mintSpent /\ p \notin HeldAtMint
        BY DEF Free
    <3>1. p \in Proof /\ mem[p].state = "PENDING" /\ mem[p].tx = job.tx /\ ~Taken(job.tx) /\ ~Swapping(p)
        BY <2>1 DEF Orderly, Typed, LockOrderly, JobOrderly, Holding, Held, Swapping
    <3>2. p \notin mintSpent
        BY <3>1 DEF Orderly, StoreOrderly, ProofOrderly, Melted, Taken
    <3>3. ASSUME NEW t \in Transfer, p \in AtMint(t) PROVE FALSE
      <4>1. Standing(t) /\ p \in quote[t].inputs
          BY <3>3 DEF AtMint, Standing
      <4>2. mem[p].tx = t
          BY <4>1 DEF Orderly, StoreOrderly, EcashOrderly
      <4> QED
          BY <3>1, <4>1, <4>2 DEF Taken
    <3>4. p \notin HeldAtMint
        BY <3>3 DEF HeldAtMint
    <3> QED
        BY <3>2, <3>4
  <2> QED
      BY <2>1, <2>2
<1>2. CASE LoseAnswer \/ CheckFails
    BY <1>2 DEF LoseAnswer, CheckFails
<1>3. CASE RecheckFails
    BY <1>3 DEF RecheckFails, Orderly, JobOrderly
<1>4. CASE \E w \in Worker : AskFails(w) \/ UnblindFails(w)
    BY <1>4 DEF AskFails, UnblindFails
<1> QED
    BY <1>1, <1>2, <1>3, <1>4 DEF Failures

\* The steps that leave the record of mishaps alone, those aside that may add to it.
LEMMA FaultsStand ==
    ASSUME NEW kinds, OnlyMishaps(kinds)', UNCHANGED faults
    PROVE  OnlyMishaps(kinds)
BY DEF OnlyMishaps

\* What a step adds to the record of mishaps, and when.
LEMMA RecordGrows ==
    ASSUME Next
    PROVE  \/ UNCHANGED faults
           \/ \E kind \in {"timeout", "signed", "byhand", "crash", "late"} : Suffer(kind)
<1> USE DEF mintVars, queueVars, transferVars
<1>1. CASE Running
    BY <1>1 DEF Running, JobRuns, SyncRuns, VisitRuns, Lock, Prepared, Execute, SettlePaid, SettlePending,
       SettleUnpaid, Fail, Rescued, OnchainChecked, Dispatched, Register, Unregister, GoneRefreshed, Synced,
       SettleShort, SkipSettled, Dispatch, RefreshGone, ReleaseFailed, MarkReverted, SettleVisit
<1>2. CASE Resuming
    BY <1>2 DEF Resuming, JobResumes, SyncResumes, VisitResumes, Select, CommitSwap, Submit, TakeAnswer,
       TakeError, Recheck, JudgePaid, JudgePending, JudgeUnpaid, NestedDone, Check, WriteOff, MarkPending,
       AskQuote, SeesPaid, SeesUnpaid, SeesForRecovery, Unblind
<1>3. CASE Failures
    BY <1>3 DEF Failures, SwapFails, LoseAnswer, RecheckFails, CheckFails, AskFails, UnblindFails, TimeOut
<1>4. CASE Starts
    BY <1>4 DEF Starts, StartTransfer, CheckOnchain, RecoverByHand, MonitorRefreshes, ExpireTransfer, ReloadTransfer, SyncAll
<1>5. CASE MintSteps
    BY <1>5 DEF MintSteps, MintSwaps, TakeMelt, RefuseMelt, AnswerMelt
<1>6. CASE NetworkSteps
    BY <1>6 DEF NetworkSteps, Broadcast, PaymentSucceeds, PaymentFails
<1>7. CASE Crash \/ Restart
    BY <1>7 DEF Crash, Restart, Load, Recovered, RecoverOrphan
<1> QED
    BY <1>1, <1>2, <1>3, <1>4, <1>5, <1>6, <1>7 DEF Next

\* The order is kept as long as no call is lost, nobody dies, and no instance is late.
LEMMA OrderStep == IInv /\ LInv /\ [Next]_vars => LInv'
<1> SUFFICES ASSUME IInv, LInv, [Next]_vars PROVE LInv'
    OBVIOUS
<1>1. faults \in Seq(Mishap) /\ (OnlyMishaps(NoLoss) => Orderly)
    BY DEF LInv, OrderlyIfNoLoss, NoLoss
<1>2. CASE UNCHANGED vars
  <2>1. UNCHANGED <<disk, mem, status, job, sync, visit, phase, quote, change, mintSpent, net, faults>>
      BY <1>2 DEF vars, storeVars, transferVars, mintVars, queueVars
  <2>2. ASSUME OnlyMishaps(NoLoss)' PROVE Orderly'
    <3>1. Orderly
        BY <1>1, <2>1, <2>2 DEF OnlyMishaps
    <3> QED
        BY <2>1, <3>1, Frames DEF Orderly
  <2> QED
      BY <1>1, <2>1, <2>2 DEF LInv, OrderlyIfNoLoss, NoLoss
<1>3. CASE Next
  <2>1. faults' \in Seq(Mishap) /\ (OnlyMishaps(NoLoss)' => OnlyMishaps(NoLoss))
      BY <1>1, <1>3, RecordGrows, Suffered, FaultsStand
  <2>2. ASSUME OnlyMishaps(NoLoss)' PROVE Orderly'
    <3>1. Orderly
        BY <1>1, <2>1, <2>2
    <3>2. \A kind : Suffer(kind) => kind \in NoLoss
        BY <1>1, <2>2, Suffered
    <3>3. ~TimeOut /\ ~Crash
        BY <3>2 DEF TimeOut, Crash, NoLoss
    <3>4. ~Restart
        BY <3>1 DEF Restart, Load, Recovered, RecoverOrphan, Orderly, Typed
    <3>5. \A w \in Worker : Unblind(w) => ~Overtaken(visit[w])
        BY <3>2 DEF Unblind, NoLoss
    <3>6. Running \/ (AtAwait /\ Resuming) \/ Starts \/ MintSteps \/ NetworkSteps
        BY <1>3, <3>1, <3>3, <3>4, FailuresAreLosses DEF Next
    <3> QED
        BY <3>1, <3>5, <3>6, RunningKeeps, ResumingKeeps, OthersKeep
  <2> QED
      BY <2>1, <2>2 DEF LInv, OrderlyIfNoLoss, NoLoss
<1> QED
    BY <1>2, <1>3

\* All is in order at the start.
LEMMA OrderInit == Init => LInv
<1> SUFFICES ASSUME Init PROVE faults \in Seq(Mishap) /\ Orderly
    BY DEF LInv, OrderlyIfNoLoss
<1>1. faults \in Seq(Mishap)
    BY DEF Init
<1>2. /\ mem \in [Proof -> MemRec]
      /\ \A p \in Proof : /\ mem[p].state \in {"none", "UNSPENT"}
                          /\ IF mem[p].state = "none" THEN mem[p] = Absent ELSE mem[p].tx \in Tx
  <2>1. mem = [p \in Proof |-> IF p \in Base THEN Held("UNSPENT", Genesis) ELSE Absent]
      BY DEF Init
  <2>2. /\ Absent \in MemRec /\ Held("UNSPENT", Genesis) \in MemRec
        /\ Absent.state = "none" /\ Held("UNSPENT", Genesis).state = "UNSPENT"
        /\ Held("UNSPENT", Genesis).tx \in Tx
      BY TransferAssumptions DEF MemRec, ProofState, Held, Absent
  <2> QED
      BY <2>1, <2>2
<1>3. \A t \in Transfer : /\ ~Taken(t) /\ ~Standing(t) /\ quote[t].inputs = {} /\ quote[t].blank = {} /\ change[t] = {}
                          /\ quote[t].state = "UNPAID" /\ status[t] = "none"
                          /\ \A r \in Role : mem[<<t, r>>] = Absent
    BY TransferAssumptions DEF Init, Taken, Standing
<1>4. Typed
    BY <1>2, <1>3 DEF Init, Typed, IdleJob, IdleSync, NoVisit
<1>5. JobOrderly /\ NetOrderly /\ LockOrderly /\ SyncOrderly
    BY DEF Init, JobOrderly, NetOrderly, LockOrderly, SyncOrderly, IdleJob, IdleSync, Holding
<1>6. QuoteOrderly
    BY <1>3 DEF QuoteOrderly, Answers
<1>7. \A t \in Transfer : ~Busy(t)
    BY DEF Init, Busy, IdleJob, Holding
<1>8. StatusOrderly
    BY <1>3, <1>7 DEF StatusOrderly
<1>9. VisitsOrderly
    BY DEF Init, VisitsOrderly, VisitOrderly, NoVisit, Working
<1>10. \A p \in Proof : ProofOrderly(p)
    BY <1>2 DEF Init, ProofOrderly
<1>11. \A t \in Transfer : EcashOrderly(t)
    BY <1>3, <1>7 DEF EcashOrderly
<1> QED
    BY <1>1, <1>4, <1>5, <1>6, <1>8, <1>9, <1>10, <1>11 DEF Orderly, StoreOrderly

\* Ecash the mint holds or has taken for a payment is never offered for another (Select, release, rollback),
\* whichever of the queue, the monitors, the sync and the recovery screen settle past each other.
THEOREM HeldIsNotOffered == Spec => []PaidNotSpendable
<1>1. LInv => PaidNotSpendable
  <2> SUFFICES ASSUME Orderly, NEW t \in Transfer, Standing(t), NEW p \in quote[t].inputs
               PROVE  mem[p].state # "UNSPENT"
      BY DEF LInv, OrderlyIfNoLoss, PaidNotSpendable, Standing
  <2> QED
      BY DEF Orderly, StoreOrderly, EcashOrderly
<1> QED
    BY <1>1, InitStep, NextStep, OrderInit, OrderStep, PTL DEF Spec

------------------------------------------------------------------------------
(* AllTold: nor a recovery by hand.                                        *)

\* What an expiry may make of a payment: EXPIRED, and ERROR once it is paid.
Outdated(t) == t \in Dated /\ (status[t] \in {"EXPIRING", "EXPIRED"} \/ (status[t] = "ERROR" /\ Paid(t)))

\* If the user recovers nothing by hand, a status also tells where the ecash is: ERROR only if nothing
\* was paid, and a payment that stands, once the task is done with it, is PENDING or COMPLETED; unless
\* its invoice expired.
Told(t) ==
    /\ status[t] = "ERROR" => ~Busy(t) /\ (Standing(t) => Outdated(t))
    /\ Busy(t) => status[t] \in {"DRAFT", "PREPARED", "EXECUTING"}
    /\ status[t] \in {"EXPIRING", "EXPIRED"} => Outdated(t)
    /\ Standing(t) /\ ~Busy(t) => status[t] \in {"PENDING", "COMPLETED"} \/ Outdated(t)

Open(p) == mem[p].state = "PENDING" => Own(p) \/ Outstanding(mem[p].tx)

\* The sync finalizes only what is PAID; a visit throws only on a status, EXPIRED or what came of it.
VisitTold(v) ==
    /\ v.mode # "recover"
    /\ v.pc = "threw" => v.mode = "finalize" /\ v.tx \in Dated
    /\ v.mode = "finalize" => v.tx \in Transfer /\ quote[v.tx].state = "PAID"
    /\ v.mode = "finalize" /\ v.pc = "act" => v.seen = "PAID"
    /\ v.pc = "revert" => PendingOf(v.tx) = {}

AllTold ==
    /\ \A t \in Transfer : Told(t)
    /\ \A p \in Proof : Open(p)
    /\ \A w \in Worker : VisitTold(visit[w])

\* What the sync settles, it has written off, and it takes the outcome of that visit for its own.
Written(t) == \A p \in quote[t].inputs : mem[p].state = "SPENT"
SyncTold ==
    /\ sync.pc \in {"settle", "settling"} => \A t \in sync.todo : Written(t)
    /\ sync.pc = "settling" => Written(sync.at) /\ visit[Queue].tx = sync.at
    /\ sync.pc = "refreshing" => visit[Queue].mode = "refresh"

ToldIfNotByHand == OnlyMishaps({"signed"}) => AllTold /\ SyncTold

\* The parts of AllTold, each with the state it is about.
LEMMA ToldFrames ==
    ASSUME AllTold
    PROVE  /\ (UNCHANGED <<status, quote, job>> => \A t \in Transfer : Told(t)')
           /\ (UNCHANGED <<mem, job, status>> => \A p \in Proof : Open(p)')
           /\ (UNCHANGED <<visit, quote, mem>> => \A w \in Worker : VisitTold(visit[w])')
BY DEF AllTold, Told, Outdated, Paid, Outstanding, Open, VisitTold, Standing, Busy, Own, PendingOf, Having

\* A visit that stands still, where no proof becomes PENDING.
LEMMA VisitStandsTold ==
    ASSUME AllTold, NEW w \in Worker, visit'[w] = visit[w],
           \A p \in Proof : mem'[p].state = "PENDING" => mem'[p] = mem[p],
           visit[w].mode = "finalize" /\ quote[visit[w].tx].state = "PAID" => quote'[visit[w].tx].state = "PAID"
    PROVE  VisitTold(visit[w])'
BY DEF AllTold, VisitTold, PendingOf, Having

\* A commit of S makes nothing PENDING, and S is PENDING no more.
LEMMA CommitRecedes ==
    ASSUME Typed, NEW r, NEW S, NEW C, NEW t, Commit(r, S, {}, Unspent(C, t))
    PROVE  \A p \in Proof : mem'[p].state = "PENDING" => mem'[p] = mem[p] /\ p \notin S
<1> SUFFICES ASSUME NEW p \in Proof, mem'[p].state = "PENDING"
             PROVE  mem'[p] = mem[p] /\ p \notin S
    OBVIOUS
<1> DEFINE moved == Move(Move(mem, S, "SPENT"), {}, "UNSPENT")
<1>1. DOMAIN Unspent(C, t) = C /\ \A q \in C : Unspent(C, t)[q].state = "UNSPENT"
    BY DEF Unspent, Held
<1>2. moved[p] = IF p \in S /\ mem[p] # Absent THEN [mem[p] EXCEPT !.state = "SPENT"] ELSE mem[p]
    BY DEF Move
<1>3. mem'[p] = IF p \in C /\ moved[p].state # "SPENT" THEN Unspent(C, t)[p] ELSE moved[p]
    BY <1>1 DEF Commit
<1> HIDE DEF moved
<1>4. moved[p].state = "PENDING" /\ mem'[p] = moved[p]
    BY <1>1, <1>3
<1>5. [mem[p] EXCEPT !.state = "SPENT"].state = "SPENT"
    BY DEF Typed, MemRec
<1>6. Absent.state = "none"
    BY DEF Absent, Held
<1> QED
    BY <1>2, <1>4, <1>5, <1>6

\* The task marks t0, with which it is done, and what it had locked has moved or is t0's.
LEMMA TaskEnds ==
    ASSUME IInv, Orderly, AllTold, UNCHANGED <<visit, quote>>, job.pc \in Holding \cup {"fail"},
           job' = IdleJob, NEW s, status' = [status EXCEPT ![job.tx] = s],
           s \in {"PENDING", "COMPLETED"} \/ (s = "ERROR" /\ ~Standing(job.tx)),
           \A p \in Proof : mem'[p].state = "PENDING" => mem'[p] = mem[p] /\ (Own(p) => s = "PENDING")
    PROVE  AllTold'
<1>1. /\ job.tx \in Transfer /\ Busy(job.tx) /\ \A t \in Transfer : ~Busy(t)' /\ (t # job.tx => ~Busy(t))
      /\ status'[job.tx] = s /\ \A t \in Transfer : t # job.tx => status'[t] = status[t]
    BY TransferAssumptions DEF IInv, JobKnows, Shapes, Busy, IdleJob, Holding
<1>2. ASSUME NEW t \in Transfer PROVE Told(t)'
    BY <1>1 DEF AllTold, Told, Outdated, Paid, Standing
<1>3. ASSUME NEW p \in Proof PROVE Open(p)'
  <2> SUFFICES ASSUME mem'[p].state = "PENDING" PROVE Outstanding(mem[p].tx)'
      BY DEF Open
  <2>1. mem'[p] = mem[p] /\ mem[p].tx \in Tx /\ (Own(p) => s = "PENDING" /\ mem[p].tx = job.tx)
      BY DEF Orderly, Typed, LockOrderly, Own, Held
  <2>2. CASE Own(p)
      BY <1>1, <2>1, <2>2 DEF Outstanding
  <2>3. CASE ~Own(p)
    <3>1. Outstanding(mem[p].tx)
        BY <2>1, <2>3 DEF AllTold, Open
    <3>2. mem[p].tx # job.tx
        BY <1>1, <3>1 DEF AllTold, Told, Outstanding
    <3> QED
        BY <2>1, <3>1, <3>2 DEF Outstanding, IInv, Shapes
  <2> QED
      BY <2>2, <2>3
<1>4. ASSUME NEW w \in Worker PROVE VisitTold(visit[w])'
    BY VisitStandsTold
<1> QED
    BY <1>2, <1>3, <1>4 DEF AllTold

\* The three ends of a task.
LEMMA TaskEndsTells == ASSUME IInv, Orderly, AllTold, SettlePaid \/ SettlePending \/ Fail PROVE AllTold'
<1>1. CASE SettlePaid
  <2>1. /\ UNCHANGED <<visit, quote>> /\ job.pc \in Holding /\ job' = IdleJob
        /\ status' = [status EXCEPT ![job.tx] = "COMPLETED"]
      BY <1>1 DEF SettlePaid, SetStatus, mintVars, Holding
  <2>2. \A p \in Proof : mem'[p].state = "PENDING" => mem'[p] = mem[p] /\ p \notin job.inputs
      BY <1>1, CommitRecedes DEF SettlePaid, Orderly
  <2> QED
      BY <2>1, <2>2, TaskEnds DEF Own
<1>2. CASE SettlePending
  <2>1. /\ UNCHANGED <<visit, quote>> /\ job.pc \in Holding /\ job' = IdleJob
        /\ status' = [status EXCEPT ![job.tx] = "PENDING"]
      BY <1>2 DEF SettlePending, SetStatus, mintVars, Holding
  <2>2. \A p \in Proof : mem'[p].state = "PENDING" => mem'[p] = mem[p]
      BY <1>2, CommitRecedes DEF SettlePending, Orderly
  <2> QED
      BY <2>1, <2>2, TaskEnds
<1>3. CASE Fail
  <2>1. job.pc = "fail" /\ job.tx \in Transfer /\ ~Standing(job.tx) /\ Busy(job.tx)
      BY <1>3 DEF Fail, Orderly, JobOrderly, IInv, JobKnows, Busy
  <2>2. status[job.tx] \in {"DRAFT", "PREPARED", "EXECUTING"}
      BY <2>1 DEF AllTold, Told
  <2>3. /\ UNCHANGED <<visit, quote, mem>> /\ job' = IdleJob
        /\ status' = [status EXCEPT ![job.tx] = "ERROR"]
      BY <1>3, <2>2 DEF Fail, InFlight, SetStatus, mintVars, storeVars
  <2>4. \A p \in Proof : ~Own(p)
      BY <2>1 DEF Own, Holding
  <2> QED
      BY <2>1, <2>3, <2>4, TaskEnds
<1> QED
    BY <1>1, <1>2, <1>3

\* The task goes on with what it has locked.
LEMMA TaskGoesOn ==
    ASSUME IInv, Orderly, AllTold, UNCHANGED <<visit, quote, mem>>, {job.pc, job'.pc} \subseteq Holding,
           job'.tx = job.tx, job'.inputs = job.inputs,
           \A t \in Tx \ {job.tx} : status'[t] = status[t],
           status'[job.tx] \in {status[job.tx], "PREPARED", "EXECUTING"}
    PROVE  AllTold'
<1>1. job.tx \in Transfer /\ Busy(job.tx) /\ \A t \in Transfer : Busy(t)' <=> Busy(t)
    BY DEF IInv, JobKnows, Busy, Holding
<1>2. ASSUME NEW t \in Transfer PROVE Told(t)'
    BY <1>1, TransferAssumptions DEF AllTold, Told, Outdated, Paid, Standing
<1>3. ASSUME NEW p \in Proof PROVE Open(p)'
  <2>1. Outstanding(mem[p].tx) => mem[p].tx # job.tx
      BY <1>1 DEF AllTold, Told, Outstanding
  <2>2. mem[p].state = "PENDING" => mem[p].tx \in Tx
      BY DEF Orderly, Typed
  <2> QED
      BY <2>1, <2>2 DEF AllTold, Open, Own, Outstanding
<1> QED
    BY <1>2, <1>3, ToldFrames DEF AllTold

\* The steps of the task in between, and the answers of the mint.
LEMMA TaskTells ==
    ASSUME IInv, Orderly, AllTold,
           \/ Lock \/ Prepared \/ Execute \/ Submit \/ TakeAnswer \/ TakeError \/ Recheck \/ MintSwaps
           \/ \E q \in net : RefuseMelt(q)
           \/ \E t \in Transfer : AnswerMelt(t)
    PROVE  AllTold'
<1>1. job.tx \in Transfer \/ job.pc = "idle"
    BY DEF IInv, JobKnows
<1>2. CASE Lock
  <2>1. \A p \in job.inputs : mem[p] = Held("PENDING", job.tx) /\ p \in Proof
      BY <1>2 DEF Lock, Orderly, LockOrderly, Holding, Typed
  <2>2. UNCHANGED mem
      BY <1>2, <2>1 DEF Lock, Orderly, Typed, Reserve
  <2> QED
      BY <1>2, <2>2, TaskGoesOn DEF Lock, mintVars, Holding, IInv, Shapes
<1>3. CASE Prepared \/ Execute
  <2>1. /\ UNCHANGED <<visit, quote, mem>> /\ {job.pc, job'.pc} \subseteq Holding
        /\ job'.tx = job.tx /\ job'.inputs = job.inputs
      BY <1>3 DEF Prepared, Execute, mintVars, storeVars, Holding, IInv, Shapes
  <2>2. PICK s \in {"PREPARED", "EXECUTING"} : status' = [status EXCEPT ![job.tx] = s]
      BY <1>3 DEF Prepared, Execute, SetStatus
  <2>3. job.tx \in Tx /\ DOMAIN status = Tx
      BY <1>1, <2>1, TransferAssumptions DEF IInv, Shapes, Holding
  <2>4. /\ \A t \in Tx \ {job.tx} : status'[t] = status[t]
        /\ status'[job.tx] \in {status[job.tx], "PREPARED", "EXECUTING"}
      BY <2>2, <2>3
  <2> QED
      BY <2>1, <2>4, TaskGoesOn
<1>4. CASE Submit \/ TakeAnswer \/ TakeError \/ Recheck \/ MintSwaps
  <2>1. /\ UNCHANGED <<visit, quote, mem, status>> /\ {job.pc, job'.pc} \subseteq Holding
        /\ job'.tx = job.tx /\ job'.inputs = job.inputs
      BY <1>4 DEF Submit, TakeAnswer, TakeError, Recheck, MintSwaps, mintVars, storeVars, Holding, IInv, Shapes
  <2> QED
      BY <2>1, TaskGoesOn
<1>5. CASE (\E q \in net : RefuseMelt(q)) \/ (\E t \in Transfer : AnswerMelt(t))
  <2>1. job.pc = "wait"
      BY <1>5 DEF RefuseMelt, AnswerMelt, Orderly, NetOrderly
  <2>2. /\ UNCHANGED <<visit, quote, mem, status>> /\ job'.pc = "wait"
        /\ job'.tx = job.tx /\ job'.inputs = job.inputs
      BY <1>5, <2>1 DEF RefuseMelt, Reply, AnswerMelt, mintVars, storeVars, IInv, Shapes
  <2> QED
      BY <2>1, <2>2, TaskGoesOn DEF Holding
<1> QED
    BY <1>2, <1>3, <1>4, <1>5

\* The ecash is given back, and the task is about to fail.
LEMMA GivenUpTells == ASSUME IInv, Orderly, AllTold, SettleUnpaid \/ JudgeUnpaid PROVE AllTold'
<1>1. /\ UNCHANGED <<visit, quote, status>> /\ job.pc \in {"settle", "judge"} /\ job'.pc = "fail" /\ job'.tx = job.tx
      /\ Rollback(job.row)
    BY DEF SettleUnpaid, JudgeUnpaid, mintVars, IInv, Shapes, Orderly, JobOrderly
<1>2. /\ DOMAIN job.row.locked = job.inputs /\ job.inputs \subseteq Proof
      /\ \A p \in job.inputs : job.row.locked[p].state = "UNSPENT" /\ mem[p] # Absent
    BY <1>1 DEF Orderly, Typed, LockOrderly, Holding, Held, Absent
<1>3. ASSUME NEW p \in Proof, mem'[p].state = "PENDING" PROVE mem'[p] = mem[p] /\ p \notin job.inputs
  <2>1. mem'[p] = IF p \in DOMAIN job.row.locked /\ mem[p] # Absent /\ mem[p].state # "SPENT"
                  THEN Held(job.row.locked[p].state,
                            IF job.row.locked[p].tx = NoTx THEN mem[p].tx ELSE job.row.locked[p].tx)
                  ELSE mem[p]
      BY <1>1 DEF Rollback
  <2>2. p \in job.inputs => mem[p].state = "PENDING"
      BY <1>1 DEF Orderly, LockOrderly, Holding, Held
  <2>3. \A t : Held("UNSPENT", t).state = "UNSPENT"
      BY DEF Held
  <2> QED
      BY <1>2, <1>3, <2>1, <2>2, <2>3
<1>4. \A t \in Transfer : Busy(t)' <=> Busy(t)
    BY <1>1 DEF Busy, Holding
<1>5. ASSUME NEW t \in Transfer PROVE Told(t)'
    BY <1>1, <1>4 DEF AllTold, Told, Outdated, Paid, Standing
<1>6. ASSUME NEW p \in Proof PROVE Open(p)'
    BY <1>1, <1>3 DEF AllTold, Open, Own, Outstanding
<1>7. ASSUME NEW w \in Worker PROVE VisitTold(visit[w])'
    BY <1>1, <1>3, VisitStandsTold
<1> QED
    BY <1>5, <1>6, <1>7 DEF AllTold

\* A draft.
LEMMA StartTells == ASSUME IInv, Orderly, AllTold, NEW t \in Transfer, StartTransfer(t) PROVE AllTold'
<1>1. /\ UNCHANGED <<mem, visit, quote>> /\ job = IdleJob /\ status[t] = "none" /\ ~Taken(t)
      /\ job' = job \/ job' = [IdleJob EXCEPT !.pc = "select", !.tx = t]
      /\ status' = [status EXCEPT ![t] = "DRAFT"]
    BY DEF StartTransfer, Ready, SetStatus, storeVars, mintVars, Orderly, StatusOrderly
<1>2. ~Standing(t) /\ status'[t] = "DRAFT" /\ \A s \in Tx : s # t => status'[s] = status[s]
    BY <1>1, TransferAssumptions DEF IInv, Shapes, Orderly, QuoteOrderly
<1>3. \A s \in Transfer : ~Busy(s)
    BY <1>1 DEF Busy, IdleJob, Holding
<1>4. \A s \in Transfer : Busy(s)' => s = t
    BY <1>1, <1>3 DEF Busy, IdleJob
<1>5. ASSUME NEW s \in Transfer PROVE Told(s)'
    BY <1>1, <1>2, <1>3, <1>4, TransferAssumptions DEF AllTold, Told, Outdated, Paid, Standing
<1>6. ASSUME NEW p \in Proof PROVE Open(p)'
  <2>1. mem[p].state = "PENDING" => mem[p].tx \in Tx /\ Outstanding(mem[p].tx)
      BY <1>1 DEF Orderly, Typed, AllTold, Open, Own, IdleJob, Holding
  <2> QED
      BY <1>1, <1>2, <2>1 DEF Open, Outstanding
<1> QED
    BY <1>1, <1>5, <1>6, ToldFrames DEF AllTold

\* The task takes its inputs.
LEMMA SelectTells == ASSUME IInv, Orderly, AllTold, AtAwait, Select PROVE AllTold'
<1>1. PICK S \in SUBSET Spendable :
          LET swap == Overshoots(job.tx, S)
              op   == IF swap THEN "transfer-swap" ELSE "transfer-melt"
          IN  /\ Reserve(job.tx, op, S, "UNSPENT")
              /\ job' = [job EXCEPT !.pc = IF swap THEN "swap" ELSE "locked", !.inputs = S,
                                    !.row = RowFor(job.tx, op, S, "UNSPENT")]
    BY DEF Select
<1>2. /\ UNCHANGED <<visit, quote, status>> /\ job.pc = "select"
      /\ \A w \in Worker : visit[w].pc # "revert"
    BY DEF Select, mintVars, AtAwait
<1>8. job'.pc \in {"swap", "locked"} /\ job'.tx = job.tx /\ job'.inputs = S
    BY <1>1 DEF IInv, Shapes
<1>3. \A p \in Proof : p \in S \/ mem'[p] = mem[p]
    BY <1>1 DEF Reserve
<1>4. \A t \in Transfer : Busy(t)' <=> Busy(t)
    BY <1>2, <1>8 DEF Busy, Holding
<1>5. ASSUME NEW t \in Transfer PROVE Told(t)'
    BY <1>2, <1>4 DEF AllTold, Told, Outdated, Paid, Standing
<1>6. ASSUME NEW p \in Proof PROVE Open(p)'
    BY <1>2, <1>3, <1>8 DEF AllTold, Open, Own, Holding, Outstanding
<1>7. ASSUME NEW w \in Worker PROVE VisitTold(visit[w])'
    BY <1>2 DEF AllTold, VisitTold
<1> QED
    BY <1>5, <1>6, <1>7 DEF AllTold

\* The task takes the outputs of the swap instead.
LEMMA CommitSwapTells == ASSUME IInv, Orderly, AllTold, AtAwait, CommitSwap PROVE AllTold'
<1> DEFINE swap == <<job.tx, "swap">>
           rest == <<job.tx, "rest">>
<1>1. /\ UNCHANGED <<visit, quote, status>> /\ job.pc = "swap" /\ job'.pc = "lock"
      /\ job'.tx = job.tx /\ job'.inputs = {swap} /\ \A w \in Worker : visit[w].pc # "revert"
      /\ Commit(job.row, job.inputs, {}, SwapOutputs(job.tx))
    BY DEF CommitSwap, mintVars, IInv, Shapes, AtAwait
<1>2. DOMAIN SwapOutputs(job.tx) = {swap, rest} /\ SwapOutputs(job.tx)[rest].state = "UNSPENT"
    BY DEF SwapOutputs, Held
<1>3. ASSUME NEW p \in Proof, p # swap, mem'[p].state = "PENDING" PROVE mem'[p] = mem[p] /\ p \notin job.inputs
  <2> DEFINE moved == Move(Move(mem, job.inputs, "SPENT"), {}, "UNSPENT")
  <2>1. moved[p] = IF p \in job.inputs /\ mem[p] # Absent THEN [mem[p] EXCEPT !.state = "SPENT"] ELSE mem[p]
      BY DEF Move
  <2>2. mem'[p] = IF p \in {swap, rest} /\ moved[p].state # "SPENT" THEN SwapOutputs(job.tx)[p] ELSE moved[p]
      BY <1>1, <1>2 DEF Commit
  <2> HIDE DEF moved
  <2>3. moved[p].state = "PENDING" /\ mem'[p] = moved[p]
      BY <1>2, <1>3, <2>2
  <2>4. [mem[p] EXCEPT !.state = "SPENT"].state = "SPENT"
      BY DEF Orderly, Typed, MemRec
  <2>5. Absent.state = "none"
      BY DEF Absent, Held
  <2> QED
      BY <2>1, <2>3, <2>4, <2>5
<1>4. \A t \in Transfer : Busy(t)' <=> Busy(t)
    BY <1>1 DEF Busy, Holding
<1>5. ASSUME NEW t \in Transfer PROVE Told(t)'
    BY <1>1, <1>4 DEF AllTold, Told, Outdated, Paid, Standing
<1>6. ASSUME NEW p \in Proof PROVE Open(p)'
  <2>1. p = swap => Own(p)'
      BY <1>1 DEF Own, Holding
  <2>2. p # swap => (mem'[p].state = "PENDING" => mem'[p] = mem[p] /\ ~Own(p))
      BY <1>3 DEF Own
  <2> QED
      BY <1>1, <2>1, <2>2 DEF AllTold, Open, Outstanding
<1>7. ASSUME NEW w \in Worker PROVE VisitTold(visit[w])'
    BY <1>1 DEF AllTold, VisitTold
<1> QED
    BY <1>5, <1>6, <1>7 DEF AllTold

\* A visit, by w, that moves nothing and tells nothing.
LEMMA VisitMovesTells ==
    ASSUME IInv, Orderly, AllTold, UNCHANGED <<status, quote, mem>>,
           UNCHANGED job \/ {job.pc, job'.pc} \subseteq {"idle", "checking"},
           NEW w \in Worker, NEW v, visit' = [visit EXCEPT ![w] = v], VisitTold(v)
    PROVE  AllTold'
<1>1. (\A t \in Transfer : Busy(t)' <=> Busy(t)) /\ \A p \in Proof : Own(p)' <=> Own(p)
    BY DEF Busy, Own, Holding
<1>2. \A t \in Transfer : Told(t)'
    BY <1>1 DEF AllTold, Told, Outdated, Paid, Standing
<1>3. \A p \in Proof : Open(p)'
    BY <1>1 DEF AllTold, Open, Outstanding
<1>4. ASSUME NEW u \in Worker PROVE VisitTold(visit[u])'
  <2>1. visit'[u] = IF u = w THEN v ELSE visit[u]
      BY DEF IInv, Shapes
  <2>2. VisitTold(visit'[u])
      BY <2>1 DEF AllTold
  <2> QED
      BY <2>2 DEF VisitTold, PendingOf, Having
<1> QED
    BY <1>2, <1>3, <1>4 DEF AllTold

\* Entering a visit: a refresh never throws at once, nor a finalize of what has not expired.
LEMMA EntryTold ==
    ASSUME NEW t, NEW mode \in {"refresh", "finalize"},
           mode = "finalize" => t \in Transfer /\ quote[t].state = "PAID" /\ (t \in Dated \/ status[t] \in {"PENDING", "COMPLETED"})
    PROVE  VisitTold([NoVisit EXCEPT !.pc = EntryPc(t, mode), !.tx = t, !.mode = mode])
<1> DEFINE v == [NoVisit EXCEPT !.pc = EntryPc(t, mode), !.tx = t, !.mode = mode]
<1>1. v.pc = EntryPc(t, mode) /\ v.tx = t /\ v.mode = mode
    BY DEF NoVisit
<1>2. EntryPc(t, mode) \in {"ask", "returned"} \/ (EntryPc(t, mode) = "threw" /\ mode = "finalize" /\ t \in Dated)
    BY DEF EntryPc, InFlight
<1> HIDE DEF v
<1>3. VisitTold(v)
    BY <1>1, <1>2 DEF VisitTold
<1> QED
    BY <1>3 DEF v

\* A visit that is over, reported or not.
LEMMA EndedTold ==
    ASSUME IInv, AllTold, NEW w \in Worker PROVE VisitTold(Ended(w, "returned")) /\ VisitTold(NoVisit)
<1>1. VisitTold(NoVisit)
    BY DEF VisitTold, NoVisit
<1>2. VisitTold([visit[w] EXCEPT !.pc = "returned"])
    BY DEF AllTold, VisitTold, IInv, Shapes
<1> QED
    BY <1>1, <1>2 DEF Ended

\* Who enters a visit.
LEMMA EntersTell ==
    ASSUME IInv, Orderly, AllTold, NEW t \in Tx,
           \/ (t \in Transfer /\ CheckOnchain(t)) \/ (t \in Transfer /\ MonitorRefreshes(t))
           \/ Dispatch(t) \/ RefreshGone(t)
    PROVE  AllTold'
<1> USE DEF mintVars, storeVars, queueVars
<1>1. Queue \in Worker /\ t \in Worker
    BY DEF Queue, Worker
<1>2. CASE CheckOnchain(t)
  <2>1. /\ UNCHANGED <<status, quote, mem>> /\ Enter(Queue, t, "refresh")
        /\ {job.pc, job'.pc} \subseteq {"idle", "checking"}
      BY <1>2 DEF CheckOnchain, Ready, IdleJob
  <2> QED
      BY <1>1, <2>1, EntryTold, VisitMovesTells DEF Enter
<1>3. CASE MonitorRefreshes(t) \/ RefreshGone(t)
  <2>1. PICK w \in {Queue, t} : UNCHANGED <<status, quote, mem, job>> /\ Enter(w, t, "refresh")
      BY <1>3 DEF MonitorRefreshes, ExpireTransfer, ReloadTransfer, RefreshGone
  <2> QED
      BY <1>1, <2>1, EntryTold, VisitMovesTells DEF Enter
<1>4. CASE Dispatch(t)
  <2>1. /\ UNCHANGED <<status, quote, mem, job>> /\ t \in Transfer /\ t \in sync.todo /\ sync.pc = "settle"
        /\ Enter(Queue, t, IF t \in Onchain THEN "refresh" ELSE "finalize")
      BY <1>4 DEF Dispatch
  <2>2. Standing(t) /\ (t \in Bolt => quote[t].state = "PAID") /\ ~Busy(t)
      BY <2>1 DEF Orderly, SyncOrderly, Busy, Holding
  <2>3. t \in Dated \/ status[t] \in {"PENDING", "COMPLETED"}
      BY <2>1, <2>2 DEF AllTold, Told, Outdated
  <2>4. PICK m \in {"refresh", "finalize"} :
            Enter(Queue, t, m) /\ (m = "finalize" => quote[t].state = "PAID")
      BY <2>1, <2>2 DEF Bolt
  <2> QED
      BY <1>1, <2>1, <2>3, <2>4, EntryTold, VisitMovesTells DEF Enter
<1> QED
    BY <1>2, <1>3, <1>4

\* What a visit makes of its answer: refresh never throws, and finalize meets PAID only.
LEMMA VisitAnswersTell ==
    ASSUME IInv, Orderly, AllTold, NEW w \in Worker, AskQuote(w) \/ SeesPaid(w) \/ SeesUnpaid(w)
    PROVE  AllTold'
<1>0. UNCHANGED <<status, quote, mem, job>> /\ VisitTold(visit[w])
    BY DEF AskQuote, SeesPaid, SeesUnpaid, storeVars, mintVars, queueVars, AllTold
<1>1. CASE AskQuote(w)
  <2> DEFINE v == [visit[w] EXCEPT !.pc = "act", !.seen = quote[visit[w].tx].state,
                                   !.change = change[visit[w].tx]]
  <2>1. /\ v.pc = "act" /\ v.seen = quote[visit[w].tx].state /\ v.tx = visit[w].tx /\ v.mode = visit[w].mode
      BY DEF IInv, Shapes
  <2>2. visit' = [visit EXCEPT ![w] = v]
      BY <1>1 DEF AskQuote
  <2> HIDE DEF v
  <2>3. VisitTold(v)
      BY <1>0, <2>1 DEF VisitTold
  <2> QED
      BY <1>0, <2>2, <2>3, VisitMovesTells
<1>2. CASE SeesPaid(w)
  <2> DEFINE v == [visit[w] EXCEPT !.pc = "unblind", !.pending = PendingOf(visit[w].tx),
                                   !.change = @ \cap recovery[visit[w].tx]]
  <2>1. v.pc = "unblind" /\ v.seen = visit[w].seen /\ v.tx = visit[w].tx /\ v.mode = visit[w].mode
      BY DEF IInv, Shapes
  <2>2. visit' = [visit EXCEPT ![w] = v]
      BY <1>2 DEF SeesPaid, IInv, Shapes
  <2> HIDE DEF v
  <2>3. VisitTold(v)
      BY <1>0, <2>1 DEF VisitTold
  <2> QED
      BY <1>0, <2>2, <2>3, VisitMovesTells
<1>3. CASE SeesUnpaid(w)
  <2>1. visit[w].mode # "finalize"
      BY <1>0, <1>3 DEF SeesUnpaid, VisitTold
  <2>2. EndVisit(w, "returned") \/ GoOn(w, "release")
      BY <1>3, <2>1 DEF SeesUnpaid
  <2>3. VisitTold([visit[w] EXCEPT !.pc = "release"])
      BY <1>0, <2>1 DEF VisitTold, IInv, Shapes
  <2>4. GoOn(w, "release") => visit' = [visit EXCEPT ![w] = [visit[w] EXCEPT !.pc = "release"]]
      BY DEF GoOn
  <2> QED
      BY <1>0, <2>2, <2>3, <2>4, EndedTold, VisitMovesTells DEF EndVisit
<1> QED
    BY <1>1, <1>2, <1>3

\* The queue takes notice that its visit is over; if that has thrown, it was the finalize of a payment
\* that expired and is paid.
LEMMA NoticedTells ==
    ASSUME IInv, Orderly, AllTold, SyncTold, Dispatched \/ GoneRefreshed \/ OnchainChecked PROVE AllTold'
<1>1. Queue \in Worker
    BY DEF Queue, Worker
<1>2. /\ UNCHANGED <<quote, mem>> /\ visit' = [visit EXCEPT ![Queue] = NoVisit]
      /\ UNCHANGED job \/ {job.pc, job'.pc} \subseteq {"idle", "checking"}
    BY DEF Dispatched, GoneRefreshed, OnchainChecked, IdleJob, storeVars, mintVars
<1>3. CASE UNCHANGED status
    BY <1>1, <1>2, <1>3, EndedTold, VisitMovesTells
<1>4. CASE status' # status
  <2>1. visit[Queue].pc = "threw" => visit[Queue].mode = "finalize" /\ visit[Queue].tx \in Dated /\ Paid(visit[Queue].tx)
      BY <1>1 DEF AllTold, VisitTold, Paid
  <2>2. ~GoneRefreshed /\ ~OnchainChecked
      BY <1>4, <2>1 DEF GoneRefreshed, OnchainChecked, SyncTold
  <2>3. /\ sync.pc = "settling" /\ visit[Queue].pc = "threw" /\ status' = [status EXCEPT ![sync.at] = "ERROR"]
        /\ UNCHANGED job
      BY <1>4, <2>2 DEF Dispatched, SetStatus
  <2>4. /\ sync.at \in Dated /\ Paid(sync.at) /\ Written(sync.at) /\ job.pc = "idle"
      BY <2>1, <2>3 DEF SyncTold, Orderly, SyncOrderly
  <2>5. /\ DOMAIN status = Tx /\ sync.at \in Tx
        /\ status'[sync.at] = "ERROR" /\ \A t \in Tx : t # sync.at => status'[t] = status[t]
      BY <2>3, <2>4, TransferAssumptions DEF Paid, IInv, Shapes
  <2>6. ASSUME NEW t \in Transfer PROVE Told(t)'
      BY <1>2, <2>3, <2>4, <2>5, TransferAssumptions DEF AllTold, Told, Outdated, Paid, Standing, Busy, Holding
  <2>7. ASSUME NEW p \in Proof PROVE Open(p)'
    <3>1. mem[p].state = "PENDING" => mem[p].tx \in Tx /\ Melted(p) /\ Outstanding(mem[p].tx)
        BY <2>4 DEF Orderly, Typed, StoreOrderly, ProofOrderly, Own, Holding, AllTold, Open
    <3>2. mem[p].state = "PENDING" => mem[p].tx # sync.at
        BY <2>4, <3>1 DEF Melted, Written
    <3> QED
        BY <1>2, <2>5, <3>1, <3>2 DEF Open, Outstanding
  <2>8. ASSUME NEW w \in Worker PROVE VisitTold(visit[w])'
    <3>1. VisitTold(visit'[w])
        BY <1>1, <1>2, EndedTold DEF AllTold, IInv, Shapes
    <3> QED
        BY <1>2, <3>1 DEF VisitTold, PendingOf, Having
  <2> QED
      BY <2>6, <2>7, <2>8 DEF AllTold
<1> QED
    BY <1>3, <1>4

\* Steps of the sync, and of the network, that touch nothing of this.
LEMMA OthersTell ==
    ASSUME IInv, Orderly, AllTold,
           \/ Check \/ Unregister \/ Synced \/ \E s \in {"PENDING", "UNSPENT"} : SyncAll(s)
           \/ \E t \in Tx : SkipSettled(t)
           \/ \E t \in Transfer : Broadcast(t)
    PROVE  AllTold'
<1>1. UNCHANGED <<status, quote, job, visit, mem>>
    BY DEF Check, Unregister, Synced, SyncAll, SkipSettled, Broadcast, storeVars, mintVars, queueVars
<1> QED
    BY <1>1, ToldFrames DEF AllTold
\* What is moved on or let go stays with its transaction, and nothing becomes PENDING.
LEMMA MovedTells ==
    ASSUME IInv, Orderly, AllTold, WriteOff \/ \E w \in Worker : ReleaseFailed(w)
    PROVE  AllTold'
<1>1. PICK S, s : Overwrite(S, s) /\ s # "PENDING"
    BY DEF WriteOff, MoveToSpent, ReleaseFailed, RevertToSpendable
<1>2. UNCHANGED <<status, quote, job>>
    BY DEF WriteOff, ReleaseFailed, mintVars, queueVars
<1>3. ASSUME NEW p \in Proof, mem'[p].state = "PENDING" PROVE mem'[p] = mem[p] /\ p \notin S
  <2>1. mem'[p] = IF p \in S THEN [mem[p] EXCEPT !.state = s] ELSE mem[p]
      BY <1>1 DEF Overwrite
  <2>2. [mem[p] EXCEPT !.state = s].state = s
      BY DEF Orderly, Typed, MemRec
  <2> QED
      BY <1>1, <1>3, <2>1, <2>2
<1>4. \A t \in Transfer : Told(t)'
    BY <1>2, ToldFrames
<1>5. \A p \in Proof : Open(p)'
    BY <1>2, <1>3 DEF AllTold, Open, Own, Outstanding
<1>6. ASSUME NEW u \in Worker PROVE VisitTold(visit[u])'
  <2>1. CASE visit'[u] = visit[u]
      BY <1>2, <1>3, <2>1, VisitStandsTold
  <2>2. CASE visit'[u] # visit[u]
    <3>1. ReleaseFailed(u) /\ VisitTold(visit[u])
        BY <2>2 DEF WriteOff, ReleaseFailed, GoOn, IInv, Shapes, AllTold
    <3>2. /\ visit'[u].pc = "revert" /\ visit'[u].mode = visit[u].mode /\ visit'[u].tx = visit[u].tx
        BY <3>1 DEF ReleaseFailed, GoOn, IInv, Shapes
    <3>3. \A p \in Proof : p \in PendingOf(visit[u].tx) => mem'[p].state = "UNSPENT"
      <4>1. ASSUME NEW p \in PendingOf(visit[u].tx) PROVE mem'[p].state = "UNSPENT"
        <5>1. p \in Proof
            BY DEF PendingOf, Having
        <5>2. mem'[p] = [mem[p] EXCEPT !.state = "UNSPENT"]
            BY <3>1, <5>1 DEF ReleaseFailed, RevertToSpendable, Overwrite
        <5> QED
            BY <5>1, <5>2 DEF Orderly, Typed, MemRec
      <4> QED
          BY <4>1
    <3>4. \A p \in Proof : ~(mem'[p].state = "PENDING" /\ mem'[p].tx = visit[u].tx)
        BY <1>3, <3>3 DEF PendingOf, Having
    <3>5. PendingOf(visit[u].tx)' = {}
        BY <3>2, <3>4 DEF PendingOf, Having
    <3> QED
        BY <1>2, <3>1, <3>2, <3>5 DEF VisitTold
  <2> QED
      BY <2>1, <2>2
<1> QED
    BY <1>4, <1>5, <1>6 DEF AllTold

\* In order, the sync locks nothing.
LEMMA RegisterStays == ASSUME Orderly, Register PROVE UNCHANGED mem
<1>1. CASE sync.from = "PENDING"
    BY <1>1 DEF Register, storeVars
<1>2. CASE sync.from = "UNSPENT"
  <2>1. sync.pend \ registry = {}
      BY <1>2 DEF Orderly, SyncOrderly
  <2> QED
      BY <2>1, <1>2 DEF Register, MoveToPending, Overwrite, Orderly, Typed
<1> QED
    BY <1>1, <1>2 DEF Orderly, SyncOrderly

LEMMA RegisterTells == ASSUME IInv, Orderly, AllTold, Register PROVE AllTold'
<1>1. UNCHANGED <<status, quote, job, visit>>
    BY DEF Register, mintVars
<1> QED
    BY <1>1, RegisterStays, ToldFrames DEF AllTold

\* REVERTED, and nothing of it is locked.
LEMMA MarkRevertedTells == ASSUME IInv, Orderly, AllTold, NEW w \in Worker, MarkReverted(w) PROVE AllTold'
<1> DEFINE t == visit[w].tx
<1>1. /\ UNCHANGED <<mem, quote, job>> /\ visit' = [visit EXCEPT ![w] = Ended(w, "returned")]
      /\ status' = [status EXCEPT ![t] = "REVERTED"] /\ visit[w].pc = "revert"
    BY DEF MarkReverted, EndVisit, SetStatus, storeVars, mintVars, queueVars
<1>2. PendingOf(t) = {} /\ ~Standing(t) /\ ~Busy(t)
    BY <1>1 DEF AllTold, VisitTold, Orderly, VisitsOrderly, VisitOrderly, Working
<1>3. ASSUME NEW s \in Transfer PROVE Told(s)'
    BY <1>1, <1>2, TransferAssumptions DEF AllTold, Told, Outdated, Paid, Standing, Busy, IInv, Shapes
<1>4. ASSUME NEW p \in Proof PROVE Open(p)'
  <2>1. mem[p].state = "PENDING" => mem[p].tx # t /\ mem[p].tx \in Tx
      BY <1>2 DEF PendingOf, Having, Orderly, Typed
  <2> QED
      BY <1>1, <2>1 DEF AllTold, Open, Own, Outstanding, IInv, Shapes
<1>5. ASSUME NEW u \in Worker PROVE VisitTold(visit[u])'
  <2>1. VisitTold(visit'[u])
      BY <1>1, EndedTold DEF AllTold, IInv, Shapes
  <2> QED
      BY <1>1, <2>1 DEF VisitTold, PendingOf, Having
<1> QED
    BY <1>3, <1>4, <1>5 DEF AllTold

\* COMPLETED: the visit has captured all of it that was still locked.
LEMMA SettleVisitTells == ASSUME IInv, Orderly, AllTold, NEW w \in Worker, SettleVisit(w) PROVE AllTold'
<1> DEFINE t == visit[w].tx
<1>1. /\ UNCHANGED <<quote, job>> /\ visit' = [visit EXCEPT ![w] = Ended(w, "returned")]
      /\ visit[w].pc = "settle" /\ visit[w].mode # "recover"
      /\ status' = [status EXCEPT ![t] = "COMPLETED"]
      /\ \E r : Commit(r, visit[w].pending, {}, Unspent(visit[w].change, t))
    BY DEF SettleVisit, EndVisit, SetStatus, mintVars, queueVars, AllTold, VisitTold
<1>2. /\ ~Busy(t) /\ \A p \in quote[t].inputs : mem[p].state = "PENDING" => p \in visit[w].pending
    BY <1>1 DEF Orderly, VisitsOrderly, VisitOrderly, Working
<1>3. \A p \in Proof : mem'[p].state = "PENDING" => mem'[p] = mem[p] /\ p \notin visit[w].pending
    BY <1>1, CommitRecedes DEF Orderly
<1>4. ASSUME NEW s \in Transfer PROVE Told(s)'
    BY <1>1, <1>2, TransferAssumptions DEF AllTold, Told, Outdated, Paid, Standing, Busy, IInv, Shapes
<1>5. ASSUME NEW p \in Proof PROVE Open(p)'
  <2> SUFFICES ASSUME mem'[p].state = "PENDING", ~Own(p) PROVE Outstanding(mem[p].tx)'
      BY <1>1 DEF Open, Own
  <2>1. mem'[p] = mem[p] /\ p \notin visit[w].pending /\ mem[p].tx \in Tx /\ Melted(p)
      BY <1>3 DEF Orderly, Typed, StoreOrderly, ProofOrderly
  <2>2. mem[p].tx # t
      BY <1>2, <2>1 DEF Melted
  <2>3. Outstanding(mem[p].tx)
      BY <2>1 DEF AllTold, Open
  <2> QED
      BY <1>1, <2>1, <2>2, <2>3 DEF Outstanding, IInv, Shapes
<1>6. ASSUME NEW u \in Worker PROVE VisitTold(visit[u])'
  <2>1. visit'[u] = IF u = w THEN Ended(w, "returned") ELSE visit[u]
      BY <1>1 DEF IInv, Shapes
  <2>2. u # w => VisitTold(visit[u])'
      BY <1>1, <1>3, <2>1, VisitStandsTold
  <2>3. /\ Ended(w, "returned").mode \in {visit[w].mode, "none"} /\ Ended(w, "returned").pc \in {"returned", "none"}
        /\ Ended(w, "returned").mode = "finalize" => Ended(w, "returned").tx = visit[w].tx /\ visit[w].mode = "finalize"
      BY DEF Ended, NoVisit, IInv, Shapes
  <2>4. u = w => VisitTold(visit[u])'
      BY <1>1, <2>1, <2>3 DEF VisitTold, AllTold
  <2> QED
      BY <2>2, <2>4
<1> QED
    BY <1>4, <1>5, <1>6 DEF AllTold

\* The wallet instance is there.
LEMMA UnblindTells == ASSUME IInv, Orderly, AllTold, NEW w \in Worker, Unblind(w) PROVE AllTold'
<1>1. visit[w].mode # "recover"
    BY DEF AllTold, VisitTold
<1>2. /\ UNCHANGED <<status, quote, mem, job>>
      /\ visit' = [visit EXCEPT ![w].pc = "settle", ![w].change = visit[w].change]
    BY <1>1 DEF Unblind, storeVars, mintVars, queueVars, IInv, Shapes
<1> DEFINE v == [visit[w] EXCEPT !.pc = "settle", !.change = visit[w].change]
<1>3. v.pc = "settle" /\ v.tx = visit[w].tx /\ v.mode = visit[w].mode
    BY DEF IInv, Shapes
<1>4. visit' = [visit EXCEPT ![w] = v]
    BY <1>2 DEF IInv, Shapes
<1> HIDE DEF v
<1>5. VisitTold(v)
    BY <1>3 DEF AllTold, VisitTold
<1> QED
    BY <1>2, <1>4, <1>5, VisitMovesTells

\* PENDING is never wrong of what the mint has taken.
LEMMA MarkPendingTells == ASSUME IInv, Orderly, AllTold, MarkPending PROVE AllTold'
<1>1. /\ UNCHANGED <<quote, mem, job, visit>> /\ job.pc = "idle"
      /\ status' = [t \in Tx |-> IF t \in sync.ids THEN "PENDING" ELSE status[t]]
    BY DEF MarkPending, storeVars, mintVars, Orderly, SyncOrderly
<1>2. ASSUME NEW t \in Transfer PROVE Told(t)'
    BY <1>1, TransferAssumptions DEF AllTold, Told, Outdated, Paid, Standing, Busy, Holding
<1>3. ASSUME NEW p \in Proof PROVE Open(p)'
  <2>1. mem[p].state = "PENDING" => mem[p].tx \in Tx
      BY DEF Orderly, Typed
  <2> QED
      BY <1>1, <2>1 DEF AllTold, Open, Own, Outstanding
<1> QED
    BY <1>1, <1>2, <1>3, ToldFrames DEF AllTold

\* The mint: what it takes is the task's; what it settles was taken before.
LEMMA MintTells ==
    ASSUME IInv, Orderly, AllTold,
           \/ \E q \in net : TakeMelt(q)
           \/ \E t \in Transfer : PaymentSucceeds(t) \/ PaymentFails(t)
    PROVE  AllTold'
<1>1. UNCHANGED <<status, mem, job, visit>>
    BY DEF TakeMelt, PaymentSucceeds, PaymentFails, storeVars, queueVars
<1>2. ASSUME NEW t \in Transfer
      PROVE  /\ Standing(t)' => Standing(t) \/ Busy(t)
             /\ quote[t].state = "PAID" => quote'[t].state = "PAID"
  <2>1. ASSUME NEW q \in net, TakeMelt(q)
        PROVE  /\ Standing(t)' => Standing(t) \/ Busy(t)
               /\ quote[t].state = "PAID" => quote'[t].state = "PAID"
    <3>1. Busy(q.tx)
        BY DEF Orderly, NetOrderly, Busy, Holding
    <3> QED
        BY <2>1, <3>1 DEF TakeMelt, Standing, IInv, Shapes
  <2>2. ASSUME NEW s \in Transfer, PaymentSucceeds(s) \/ PaymentFails(s)
        PROVE  /\ Standing(t)' => Standing(t) \/ Busy(t)
               /\ quote[t].state = "PAID" => quote'[t].state = "PAID"
      BY <2>2 DEF PaymentSucceeds, PaymentFails, Standing, IInv, Shapes
  <2> QED
      BY <2>1, <2>2
<1>3. ASSUME NEW t \in Transfer PROVE Told(t)'
    BY <1>1, <1>2 DEF AllTold, Told, Outdated, Paid, Busy
<1>4. ASSUME NEW w \in Worker PROVE VisitTold(visit[w])'
    BY <1>1, <1>2 DEF AllTold, VisitTold, PendingOf, Having, IInv, VisitKnows
<1> QED
    BY <1>1, <1>3, <1>4, ToldFrames DEF AllTold
\* An expiry, and what makes it known.
LEMMA ExpiryTells ==
    ASSUME IInv, Orderly, AllTold, NEW t \in Dated, ExpireTransfer(t) \/ ReloadTransfer(t) PROVE AllTold'
<1>1. /\ UNCHANGED <<mem, job, visit, quote>> /\ t \in Transfer /\ t \in Tx /\ DOMAIN status = Tx
      /\ Outstanding(t) /\ status[t] \in {"PENDING", "EXPIRING"} /\ status'[t] \in {"EXPIRING", "EXPIRED"}
      /\ \A s \in Tx : s # t => status'[s] = status[s]
    BY TransferAssumptions
       DEF ExpireTransfer, ReloadTransfer, ReadAgain, SetStatus, Outstanding, storeVars, queueVars, mintVars, IInv, Shapes
<1>2. ASSUME NEW s \in Transfer PROVE Told(s)'
    BY <1>1, TransferAssumptions DEF AllTold, Told, Outdated, Paid, Standing, Busy
<1>3. ASSUME NEW p \in Proof PROVE Open(p)'
  <2>1. mem[p].state = "PENDING" => mem[p].tx \in Tx
      BY DEF Orderly, Typed
  <2> QED
      BY <1>1, <2>1 DEF AllTold, Open, Own, Outstanding
<1> QED
    BY <1>1, <1>2, <1>3, ToldFrames DEF AllTold

\* AllTold is kept, if the mint loses nothing and the user recovers nothing by hand.
LEMMA ToldKept ==
    ASSUME IInv, Orderly, AllTold, SyncTold, Running \/ (AtAwait /\ (Resuming \/ Starts \/ MintSteps \/ NetworkSteps)),
           \A t \in Transfer : ~RecoverByHand(t)
    PROVE  AllTold'
<1>1. CASE JobRuns
  <2>1. ~Rescued
      BY DEF Rescued, Orderly, JobOrderly, Holding
  <2> QED
      BY <1>1, <2>1, TaskTells, TaskEndsTells, GivenUpTells, NoticedTells DEF JobRuns
<1>2. CASE SyncRuns
  <2>1. \A t \in Tx : ~SettleShort(t)
      BY DEF SettleShort, Orderly, SyncOrderly
  <2> QED
      BY <1>2, <2>1, NoticedTells, RegisterTells, OthersTell, EntersTell DEF SyncRuns
<1>3. CASE VisitRuns
    BY <1>3, MovedTells, MarkRevertedTells, SettleVisitTells DEF VisitRuns
<1>4. CASE AtAwait /\ JobResumes
  <2>1. ~JudgePaid /\ ~JudgePending /\ ~NestedDone
      BY DEF JudgePaid, JudgePending, NestedDone, Orderly, JobOrderly, Holding
  <2> QED
      BY <1>4, <2>1, SelectTells, CommitSwapTells, TaskTells, GivenUpTells DEF JobResumes
<1>5. CASE SyncResumes
    BY <1>5, OthersTell, MovedTells, MarkPendingTells DEF SyncResumes
<1>6. CASE VisitResumes
  <2>1. \A w \in Worker : ~SeesForRecovery(w)
      BY DEF SeesForRecovery, AllTold, VisitTold
  <2> QED
      BY <1>6, <2>1, VisitAnswersTell, UnblindTells DEF VisitResumes
<1>7. CASE Starts
    BY <1>7, StartTells, EntersTell, OthersTell, ExpiryTells, TransferAssumptions DEF Starts
<1>8. CASE MintSteps
    BY <1>8, TaskTells, MintTells DEF MintSteps
<1>9. CASE NetworkSteps
    BY <1>9, OthersTell, MintTells DEF NetworkSteps
<1> QED
    BY <1>1, <1>2, <1>3, <1>4, <1>5, <1>6, <1>7, <1>8, <1>9 DEF Running, Resuming

\* In order, what is written off stays so.
LEMMA SpentStays ==
    ASSUME IInv, Orderly, Running \/ (AtAwait /\ (Resuming \/ Starts \/ MintSteps \/ NetworkSteps))
    PROVE  \A p \in Proof : mem[p].state = "SPENT" => mem'[p].state = "SPENT"
<1> DEFINE Stays == \A p \in Proof : mem[p].state = "SPENT" => mem'[p].state = "SPENT"
<1> SUFFICES Stays
    OBVIOUS
<1>0. \A p \in Proof : \A s : [mem[p] EXCEPT !.state = s].state = s
    BY DEF Orderly, Typed, MemRec
<1>1. ASSUME NEW r, NEW S, NEW new, Commit(r, S, {}, new) PROVE Stays
  <2> SUFFICES ASSUME NEW p \in Proof, mem[p].state = "SPENT" PROVE mem'[p].state = "SPENT"
      OBVIOUS
  <2> DEFINE moved == Move(Move(mem, S, "SPENT"), {}, "UNSPENT")
  <2>1. moved[p] = IF p \in S /\ mem[p] # Absent THEN [mem[p] EXCEPT !.state = "SPENT"] ELSE mem[p]
      BY DEF Move
  <2>2. mem'[p] = IF p \in DOMAIN new /\ moved[p].state # "SPENT" THEN new[p] ELSE moved[p]
      BY <1>1 DEF Commit
  <2> HIDE DEF moved
  <2> QED
      BY <1>0, <2>1, <2>2
<1>2. ASSUME NEW r, Rollback(r) PROVE Stays
    BY <1>2 DEF Rollback
<1>3. ASSUME NEW t, NEW op, NEW S, Reserve(t, op, S, "UNSPENT") PROVE Stays
    BY <1>3 DEF Reserve
<1>4. ASSUME NEW S, NEW s, Overwrite(S, s), s = "SPENT" \/ \A p \in S : mem[p].state # "SPENT" PROVE Stays
    BY <1>0, <1>4 DEF Overwrite
<1>5. ASSUME UNCHANGED mem PROVE Stays
    BY <1>5
<1> USE DEF storeVars, queueVars, mintVars
<1>6. CASE JobRuns
  <2>1. ~Rescued
      BY DEF Rescued, Orderly, JobOrderly, Holding
  <2>2. CASE Prepared \/ Execute \/ Fail \/ OnchainChecked
      BY <1>5, <2>2 DEF Prepared, Execute, Fail, OnchainChecked
  <2>3. CASE Lock
      BY <1>3, <2>3 DEF Lock
  <2>4. CASE SettlePaid \/ SettlePending \/ SettleUnpaid
      BY <1>1, <1>2, <2>4 DEF SettlePaid, SettlePending, SettleUnpaid
  <2> QED
      BY <1>6, <2>1, <2>2, <2>3, <2>4 DEF JobRuns
<1>7. CASE SyncRuns
  <2>1. \A t \in Tx : ~SettleShort(t)
      BY DEF SettleShort, Orderly, SyncOrderly
  <2>2. CASE Register
      BY <2>2, <1>5, RegisterStays
  <2> QED
      BY <1>5, <1>7, <2>1, <2>2
         DEF SyncRuns, Dispatched, Unregister, GoneRefreshed, Synced, SkipSettled, Dispatch, RefreshGone
<1>8. CASE VisitRuns
  <2>1. ASSUME NEW w \in Worker, ReleaseFailed(w) PROVE Stays
    <3>1. \A p \in PendingOf(visit[w].tx) : mem[p].state # "SPENT"
        BY DEF PendingOf, Having
    <3> QED
        BY <1>4, <2>1, <3>1 DEF ReleaseFailed, RevertToSpendable
  <2>2. ASSUME NEW w \in Worker, MarkReverted(w) \/ SettleVisit(w) PROVE Stays
      BY <1>1, <1>5, <2>2 DEF MarkReverted, SettleVisit
  <2> QED
      BY <1>8, <2>1, <2>2 DEF VisitRuns
<1>9. CASE JobResumes
  <2>1. ~JudgePaid /\ ~JudgePending /\ ~NestedDone
      BY DEF JudgePaid, JudgePending, NestedDone, Orderly, JobOrderly, Holding
  <2>2. CASE Submit \/ TakeAnswer \/ TakeError \/ Recheck
      BY <1>5, <2>2 DEF Submit, TakeAnswer, TakeError, Recheck
  <2>3. CASE Select
      BY <1>3, <2>3 DEF Select
  <2>4. CASE CommitSwap \/ JudgeUnpaid
      BY <1>1, <1>2, <2>4 DEF CommitSwap, JudgeUnpaid
  <2> QED
      BY <1>9, <2>1, <2>2, <2>3, <2>4 DEF JobResumes
<1>10. CASE SyncResumes
  <2>1. WriteOff => Overwrite(sync.spent, "SPENT")
      BY DEF WriteOff, MoveToSpent
  <2> QED
      BY <1>4, <1>5, <1>10, <2>1 DEF SyncResumes, Check, MarkPending
<1>11. CASE VisitResumes
    BY <1>5, <1>11 DEF VisitResumes, AskQuote, SeesPaid, SeesUnpaid, SeesForRecovery, Unblind
<1>12. CASE Starts
    BY <1>5, <1>12 DEF Starts, StartTransfer, CheckOnchain, RecoverByHand, MonitorRefreshes, ExpireTransfer, ReloadTransfer, SyncAll
<1>13. CASE MintSteps \/ NetworkSteps
    BY <1>5, <1>13 DEF MintSteps, NetworkSteps, MintSwaps, TakeMelt, RefuseMelt, AnswerMelt, Broadcast, PaymentSucceeds, PaymentFails
<1> QED
    BY <1>6, <1>7, <1>8, <1>9, <1>10, <1>11, <1>12, <1>13 DEF Running, Resuming

\* What the mint has taken for a payment stays what it has taken.
LEMMA InputsStay ==
    ASSUME IInv, Running \/ (AtAwait /\ (Resuming \/ Starts \/ MintSteps \/ NetworkSteps)), NEW t \in Transfer, Taken(t)
    PROVE  quote'[t].inputs = quote[t].inputs
<1> USE DEF storeVars, queueVars, mintVars
<1>1. CASE Running
    BY <1>1 DEF Running, JobRuns, SyncRuns, VisitRuns, Lock, Prepared, Execute, SettlePaid, SettlePending, SettleUnpaid, Fail,
       Rescued, OnchainChecked, Dispatched, Register, Unregister, GoneRefreshed, Synced, SettleShort, SkipSettled,
       Dispatch, RefreshGone, ReleaseFailed, MarkReverted, SettleVisit
<1>2. CASE Resuming
    BY <1>2 DEF Resuming, JobResumes, SyncResumes, VisitResumes, Select, CommitSwap, Submit, TakeAnswer, TakeError, Recheck,
       JudgePaid, JudgePending, JudgeUnpaid, NestedDone, Check, WriteOff, MarkPending, AskQuote, SeesPaid, SeesUnpaid,
       SeesForRecovery, Unblind
<1>3. CASE Starts
    BY <1>3 DEF Starts, StartTransfer, CheckOnchain, RecoverByHand, MonitorRefreshes, ExpireTransfer, ReloadTransfer, SyncAll
<1>4. CASE MintSteps
    BY <1>4 DEF MintSteps, MintSwaps, TakeMelt, RefuseMelt, AnswerMelt, Taken, IInv, Shapes
<1>5. CASE NetworkSteps
    BY <1>5 DEF NetworkSteps, Broadcast, PaymentSucceeds, PaymentFails, IInv, Shapes
<1> QED
    BY <1>1, <1>2, <1>3, <1>4, <1>5

\* While the sync waits for its visit, that visit keeps its transfer and its purpose.
LEMMA QueueVisitStays ==
    ASSUME IInv, Orderly, AllTold, Running \/ (AtAwait /\ (Resuming \/ Starts \/ MintSteps \/ NetworkSteps)),
           UNCHANGED sync, sync.pc \in {"settling", "refreshing"}
    PROVE  visit'[Queue].tx = visit[Queue].tx /\ visit'[Queue].mode = visit[Queue].mode
<1> DEFINE Stays == visit'[Queue].tx = visit[Queue].tx /\ visit'[Queue].mode = visit[Queue].mode
<1>0. /\ Queue \in Worker /\ Queue \notin Transfer /\ job.pc = "idle"
      /\ \A w \in Worker : visit[w].mode # "recover"
    BY NoTxAssumption, TransferAssumptions DEF Queue, Worker, Orderly, SyncOrderly, AllTold, VisitTold
<1> USE DEF storeVars, queueVars, mintVars
<1>1. CASE Running
  <2>1. ~JobRuns
      BY <1>0 DEF JobRuns, Lock, Prepared, Execute, SettlePaid, SettlePending, SettleUnpaid, Fail, Rescued, OnchainChecked
  <2>2. CASE SyncRuns
    <3>1. ~Dispatched
        BY DEF Orderly, Typed, Dispatched
    <3>2. ~GoneRefreshed
        BY DEF Orderly, Typed, GoneRefreshed
    <3> QED
        BY <2>2, <3>1, <3>2 DEF SyncRuns, Register, Unregister, Synced, SettleShort, SkipSettled, Dispatch, RefreshGone
  <2>3. ASSUME NEW w \in Worker, ReleaseFailed(w) \/ MarkReverted(w) \/ SettleVisit(w) PROVE Stays
      BY <1>0, <2>3 DEF ReleaseFailed, MarkReverted, SettleVisit, GoOn, EndVisit, Ended, IInv, Shapes
  <2> QED
      BY <1>1, <2>1, <2>2, <2>3 DEF Running, VisitRuns
<1>2. CASE Resuming
  <2>1. ~JobResumes
      BY <1>0 DEF JobResumes, Select, CommitSwap, Submit, TakeAnswer, TakeError, Recheck, JudgePaid, JudgePending,
         JudgeUnpaid, NestedDone
  <2>2. CASE SyncResumes
      BY <2>2 DEF SyncResumes, Check, WriteOff, MarkPending
  <2>3. ASSUME NEW w \in Worker, AskQuote(w) \/ SeesPaid(w) PROVE Stays
    <3>1. visit'[w].tx = visit[w].tx /\ visit'[w].mode = visit[w].mode /\ \A v \in Worker : v # w => visit'[v] = visit[v]
        BY ZenonT(30), <2>3 DEF AskQuote, SeesPaid, IInv, Shapes
    <3> QED
        BY <1>0, <3>1
  <2>4. ASSUME NEW w \in Worker, SeesUnpaid(w) PROVE Stays
      BY <1>0, <2>4 DEF SeesUnpaid, GoOn, EndVisit, Ended, IInv, Shapes
  <2>5. ASSUME NEW w \in Worker, Unblind(w) PROVE Stays
      BY <1>0, <2>5 DEF Unblind, IInv, Shapes
  <2> QED
      BY <1>0, <1>2, <2>1, <2>2, <2>3, <2>4, <2>5 DEF Resuming, VisitResumes, SeesForRecovery
<1>3. CASE Starts
  <2>1. ASSUME NEW t \in Transfer, MonitorRefreshes(t) PROVE Stays
      BY <1>0, <2>1 DEF MonitorRefreshes, Enter
  <2>2. ASSUME NEW t \in Transfer, RecoverByHand(t) PROVE Stays
      BY <1>0, <2>2, TransferAssumptions, NoTxAssumption DEF RecoverByHand, Enter, Screen, Queue
  <2>3. ASSUME NEW t \in Dated, ExpireTransfer(t) \/ ReloadTransfer(t) PROVE Stays
      BY <2>3 DEF ExpireTransfer, ReloadTransfer
  <2>4. ~Ready
      BY DEF Ready, IdleSync
  <2> QED
      BY <1>3, <2>1, <2>2, <2>3, <2>4 DEF Starts, StartTransfer, CheckOnchain, SyncAll
<1>4. CASE MintSteps \/ NetworkSteps
    BY <1>4 DEF MintSteps, NetworkSteps, MintSwaps, TakeMelt, RefuseMelt, AnswerMelt, Broadcast, PaymentSucceeds, PaymentFails
<1> QED
    BY <1>1, <1>2, <1>3, <1>4

\* The sync knows what it settles.
LEMMA SyncToldKept ==
    ASSUME IInv, Orderly, AllTold, SyncTold, Running \/ (AtAwait /\ (Resuming \/ Starts \/ MintSteps \/ NetworkSteps))
    PROVE  SyncTold'
<1>1. ASSUME NEW t \in Transfer, Taken(t), Written(t) PROVE Written(t)'
    BY <1>1, InputsStay, SpentStays DEF Written, Orderly, Typed
<1>2. /\ sync.pc \in {"settle", "settling"} => \A t \in sync.todo : t \in Transfer /\ Taken(t)
      /\ sync.pc = "settling" => sync.at \in Transfer /\ Taken(sync.at)
    BY DEF Orderly, SyncOrderly, QuoteOrderly
<1>3. CASE UNCHANGED sync
    BY <1>1, <1>2, <1>3, QueueVisitStays DEF SyncTold
<1> USE DEF storeVars, queueVars, mintVars
<1>4. CASE WriteOff
  <2>1. sync'.pc = "settle" /\ sync'.todo = OwnersOf(sync.spent) /\ UNCHANGED quote
      BY <1>4 DEF WriteOff, Orderly, Typed
  <2>2. ASSUME NEW t \in OwnersOf(sync.spent) PROVE Written(t)'
    <3>1. PICK p \in sync.spent : t = mem[p].tx
        BY DEF OwnersOf
    <3>2. quote[t].inputs \subseteq sync.spent /\ sync.spent \subseteq Proof
        BY <1>4, <3>1 DEF WriteOff, Orderly, SyncOrderly, Typed
    <3>3. \A q \in sync.spent : mem'[q].state = "SPENT"
        BY <1>4, <3>2 DEF WriteOff, MoveToSpent, Overwrite, Orderly, Typed, MemRec
    <3> QED
        BY <2>1, <3>2, <3>3 DEF Written
  <2> QED
      BY <2>1, <2>2 DEF SyncTold
<1>5. ASSUME NEW t \in Tx, Dispatch(t) PROVE SyncTold'
  <2>1. /\ sync'.pc = "settling" /\ sync'.todo = sync.todo \ {t} /\ sync'.at = t /\ t \in sync.todo
        /\ sync.pc = "settle" /\ visit'[Queue].tx = t
      BY <1>5 DEF Dispatch, Enter, NoVisit, Orderly, Typed, Queue, Worker, IInv, Shapes
  <2> QED
      BY <1>1, <1>2, <2>1 DEF SyncTold
<1>6. ASSUME NEW t \in Tx, RefreshGone(t) PROVE SyncTold'
  <2>1. sync'.pc = "refreshing" /\ visit'[Queue].mode = "refresh"
      BY <1>6 DEF RefreshGone, Enter, NoVisit, Orderly, Typed, Queue, Worker, IInv, Shapes
  <2> QED
      BY <2>1 DEF SyncTold
<1>7. ASSUME (\E t \in Tx : SkipSettled(t)) \/ Dispatched PROVE SyncTold'
  <2>1. sync'.pc = "settle" /\ sync'.todo \subseteq sync.todo /\ sync.pc \in {"settle", "settling"}
    <3>1. CASE Dispatched
        BY <3>1 DEF Dispatched, Typed, Orderly
    <3>2. ASSUME NEW t \in Tx, SkipSettled(t) PROVE <2>1!:
        BY <3>2 DEF SkipSettled, Typed, Orderly
    <3> QED
        BY <1>7, <3>1, <3>2
  <2> QED
      BY <1>1, <1>2, <2>1 DEF SyncTold
<1>8. ASSUME sync'.pc \notin {"settle", "settling", "refreshing"} PROVE SyncTold'
    BY <1>8 DEF SyncTold
<1>9. CASE Running
  <2>1. JobRuns \/ VisitRuns => UNCHANGED sync
      BY DEF JobRuns, VisitRuns, Lock, Prepared, Execute, SettlePaid, SettlePending, SettleUnpaid, Fail, Rescued, OnchainChecked,
         ReleaseFailed, MarkReverted, SettleVisit
  <2>2. \A t \in Tx : ~SettleShort(t)
      BY DEF SettleShort, Orderly, SyncOrderly
  <2>3. /\ Register => sync'.pc \in {"gone", "mark"}
        /\ Synced => sync'.pc \notin {"settle", "settling", "refreshing"}
    <3>1. Register => sync'.pc \in {"gone", "mark"}
        BY DEF Register, Orderly, Typed
    <3> QED
        BY <3>1 DEF Synced, IdleSync
  <2>4. Unregister \/ GoneRefreshed => sync'.pc \notin {"settle", "settling", "refreshing"}
      BY DEF Unregister, GoneRefreshed, Orderly, Typed
  <2> QED
      BY <1>3, <1>5, <1>6, <1>7, <1>8, <1>9, <2>1, <2>2, <2>3, <2>4 DEF Running, SyncRuns
<1>10. CASE Resuming
  <2>1. VisitResumes => UNCHANGED sync
      BY DEF VisitResumes, AskQuote, SeesPaid, SeesUnpaid, SeesForRecovery, Unblind
  <2>2. ~NestedDone /\ (JudgeUnpaid => UNCHANGED sync)
      BY DEF NestedDone, JudgeUnpaid, Orderly, JobOrderly, Holding
  <2>3. JobResumes => UNCHANGED sync
      BY <2>2 DEF JobResumes, Select, CommitSwap, Submit, TakeAnswer, TakeError, Recheck, JudgePaid, JudgePending
  <2>4. Check \/ MarkPending => sync'.pc \notin {"settle", "settling", "refreshing"}
      BY DEF Check, MarkPending, Orderly, Typed
  <2> QED
      BY <1>3, <1>4, <1>8, <1>10, <2>1, <2>3, <2>4 DEF Resuming, SyncResumes
<1>11. CASE Starts
  <2>1. \A s : SyncAll(s) => UNCHANGED sync \/ sync'.pc \notin {"settle", "settling", "refreshing"}
      BY DEF SyncAll, StartSync, IdleSync
  <2> QED
      BY <1>3, <1>8, <1>11, <2>1 DEF Starts, StartTransfer, CheckOnchain, RecoverByHand, MonitorRefreshes, ExpireTransfer, ReloadTransfer
<1>12. CASE MintSteps \/ NetworkSteps
    BY <1>3, <1>12 DEF MintSteps, NetworkSteps, MintSwaps, TakeMelt, RefuseMelt, AnswerMelt, Broadcast, PaymentSucceeds, PaymentFails
<1> QED
    BY <1>9, <1>10, <1>11, <1>12

\* The statuses tell where the ecash is, as long as no call is lost and the user recovers nothing.
LEMMA ToldStep == IInv /\ LInv /\ ToldIfNotByHand /\ [Next]_vars => ToldIfNotByHand'
<1> SUFFICES ASSUME IInv, LInv, ToldIfNotByHand, [Next]_vars, OnlyMishaps({"signed"})' PROVE AllTold' /\ SyncTold'
    BY DEF ToldIfNotByHand
<1>1. CASE UNCHANGED vars
  <2>1. UNCHANGED <<mem, status, job, sync, visit, quote, faults>>
      BY <1>1 DEF vars, storeVars, transferVars, mintVars, queueVars
  <2>2. AllTold /\ SyncTold
      BY <2>1 DEF ToldIfNotByHand, OnlyMishaps
  <2> QED
      BY <2>1, <2>2, ToldFrames DEF AllTold, SyncTold, Written
<1>2. CASE Next
  <2>0. faults \in Seq(Mishap)
      BY DEF LInv
  <2>1. OnlyMishaps({"signed"})
      BY <1>2, <2>0, RecordGrows, Suffered, FaultsStand
  <2>2. \A kind : Suffer(kind) => kind = "signed"
      BY <2>0, Suffered
  <2>3. OnlyMishaps(NoLoss)
      BY <2>1 DEF OnlyMishaps, NoLoss
  <2>4. AllTold /\ SyncTold
      BY <2>1 DEF ToldIfNotByHand
  <2>5. Orderly
      BY <2>3 DEF LInv, OrderlyIfNoLoss, NoLoss
  <2>6. ~TimeOut /\ ~Crash /\ \A t \in Transfer : ~RecoverByHand(t)
      BY <2>2 DEF TimeOut, Crash, RecoverByHand
  <2>7. ~Restart
      BY <2>5 DEF Restart, Load, Recovered, RecoverOrphan, Orderly, Typed
  <2>8. ~Failures
      BY <2>5, <2>6, FailuresAreLosses
  <2> QED
      BY <1>2, <2>4, <2>5, <2>6, <2>7, <2>8, ToldKept, SyncToldKept DEF Next
<1> QED
    BY <1>1, <1>2

\* There is nothing to tell at the start.
LEMMA ToldInit == Init => ToldIfNotByHand
<1> SUFFICES ASSUME Init PROVE AllTold /\ SyncTold
    BY DEF ToldIfNotByHand
<1>1. \A t \in Transfer : ~Busy(t) /\ ~Standing(t) /\ status[t] = "none"
    BY TransferAssumptions DEF Init, Busy, IdleJob, Holding, Standing
<1>2. \A p \in Proof : mem[p].state # "PENDING"
    BY DEF Init, Held, Absent
<1>3. \A w \in Worker : VisitTold(visit[w])
    BY DEF Init, VisitTold, NoVisit
<1> QED
    BY <1>1, <1>2, <1>3 DEF AllTold, Told, Open, SyncTold, Init, IdleSync

\* A transfer is REVERTED only if the mint has let its ecash go, and ERROR only if nothing was paid
\* (transferTask: "never stamp it ERROR, that would hide a real payment"), or if its invoice expired
\* while it was in flight and it is paid since.
THEOREM FailuresAreTrue == Spec => []FailureIsTrue
<1>1. LInv /\ ToldIfNotByHand => FailureIsTrue
  <2> SUFFICES ASSUME LInv, ToldIfNotByHand, NEW t \in Transfer
               PROVE  /\ status[t] = "REVERTED" /\ OnlyMishaps({"signed", "byhand"}) => ~Standing(t)
                      /\ status[t] = "ERROR" /\ OnlyMishaps({"signed"}) => ~Standing(t) \/ (t \in Dated /\ Paid(t))
      BY DEF FailureIsTrue, Standing, Paid
  <2> QED
      BY DEF LInv, OrderlyIfNoLoss, Orderly, StatusOrderly, ToldIfNotByHand, AllTold, Told, Outdated
<1> QED
    BY <1>1, InitStep, NextStep, OrderInit, OrderStep, ToldInit, ToldStep, PTL DEF Spec

\* At rest the inputs of a completed transfer are written off on disk, and locked ecash belongs to a
\* transfer that is PENDING, so that the sweeps go on looking at it, or that expired while it was.
THEOREM NothingIsStranded == Spec => []NothingStranded
<1>1. LInv /\ ToldIfNotByHand => NothingStranded
  <2> SUFFICES ASSUME LInv, ToldIfNotByHand, Quiet
               PROVE  /\ OnlyMishaps({"signed", "byhand"}) => WrittenOffIfCompleted
                      /\ OnlyMishaps({"signed"}) =>
                             \A p \in Having(mem, "PENDING") : Outstanding(mem[p].tx)
      BY DEF NothingStranded
  <2>1. ASSUME Orderly PROVE WrittenOffIfCompleted
      BY <2>1 DEF Orderly, Typed, StatusOrderly, WrittenOffIfCompleted
  <2>2. ASSUME AllTold, NEW p \in Having(mem, "PENDING") PROVE Outstanding(mem[p].tx)
      BY <2>2 DEF AllTold, Open, Own, Having, Quiet, IdleJob, Holding
  <2> QED
      BY <2>1, <2>2 DEF LInv, OrderlyIfNoLoss, ToldIfNotByHand
<1> QED
    BY <1>1, InitStep, NextStep, OrderInit, OrderStep, ToldInit, ToldStep, PTL DEF Spec

------------------------------------------------------------------------------
(* ChangeOrderly: calls may be lost.                                       *)

\* Records of the store have their two fields; what is in memory is on disk.
StoreShaped ==
    \A p \in Proof :
        /\ disk[p] = Held(disk[p].state, disk[p].tx) /\ mem[p] = Held(mem[p].state, mem[p].tx)
        /\ mem[p] # Absent => disk[p] # Absent

\* What the task would put back is spendable.
RowShaped ==
    job.pc \in {"swap", "locked", "prepared", "submit", "wait", "settle", "recheck", "judge"} =>
        \A p \in DOMAIN job.row.locked : job.row.locked[p] = Held("UNSPENT", job.row.locked[p].tx)

\* The mint has not seen t, and no request for it is on its way.
Fresh(t)     == quote[t].state = "UNPAID" /\ quote[t].inputs = {} /\ change[t] = {}
NoRequest(t) == \A q \in net : q.tx # t

\* A request can be answered while its blank outputs are stored.
NetKept ==
    /\ \A q, r \in net : q.tx = r.tx => q = r
    /\ \A q \in net : /\ q.tx \in Transfer /\ Fresh(q.tx)
                      /\ q.blank \subseteq Proof /\ q.blank \subseteq recovery[q.tx]

QuoteKept(t) ==
    /\ quote[t].state \in Answers
    /\ change[t] \subseteq quote[t].blank /\ quote[t].blank \subseteq Proof
    /\ status[t] = "none" => recovery[t] = {} /\ Fresh(t) /\ NoRequest(t)

JobKept ==
    /\ job.pc # "idle" => status[job.tx] # "none"
    /\ job.pc \in {"select", "swap", "lock", "locked", "prepared", "submit"} =>
        recovery[job.tx] = {} /\ Fresh(job.tx) /\ NoRequest(job.tx)
    /\ job.pc = "wait" /\ job.answer \in {"spent", "taken", "signed"} => Fresh(job.tx) /\ NoRequest(job.tx)
    /\ job.pc \in {"wait", "settle"} /\ job.answer \in Answers =>
        /\ NoRequest(job.tx)
        /\ job.answer = "UNPAID" => quote[job.tx].state = "UNPAID"
        /\ job.change # {} \/ job.answer = "PAID" => job.change = change[job.tx]
    /\ job.pc = "settle" => job.answer \in Answers
    /\ job.pc = "judge" /\ job.seen = "PAID" => job.change = change[job.tx]

\* About to be stored, by a visit or by the task.
Coming(p, t) ==
    \/ \E w \in Worker : visit[w].pc = "settle" /\ visit[w].tx = t /\ p \in visit[w].change
    \/ job.pc = "settle" /\ job.tx = t /\ p \in job.change

\* The mint signs no more change for t, and what it has signed is stored or about to be.
Secured(t) ==
    /\ quote[t].state = "PAID" \/ change[t] # {}
    /\ \A p \in change[t] : disk[p] # Absent \/ Coming(p, t)

Kept(t) == quote[t].state = "UNPAID" \/ quote[t].blank \subseteq recovery[t] \/ Secured(t)

VisitKept(v) ==
    /\ v.mode = "recover" => v.seen = "PAID"
    /\ v.pc = "act" /\ v.seen = "PAID" => v.change = change[v.tx]
    /\ v.pc = "unblind" => v.change = change[v.tx] \/ Secured(v.tx)

ChangeOrderly ==
    /\ phase = "up" /\ DOMAIN change = Transfer /\ DOMAIN recovery = Transfer
    /\ StoreShaped /\ RowShaped /\ NetKept /\ JobKept
    /\ \A t \in Transfer : QuoteKept(t) /\ Kept(t)
    /\ \A w \in Worker : VisitKept(visit[w])
    /\ visit[Queue].pc = "settle" => sync.pc \notin {"settle", "gone", "refresh"}

ChangeOrderlyIfLive == OnlyMishaps({"signed", "timeout"}) => ChangeOrderly

\* What is on disk stays there, in one way or another.
Grows == \A p \in Proof : disk[p] # Absent => disk'[p] # Absent

\* A record of the store is its state and its owner.
LEMMA HeldIsShaped ==
    \A s, t : /\ Held(s, t) = Held(Held(s, t).state, Held(s, t).tx)
              /\ Held(s, t).state = s /\ Held(s, t).tx = t
              /\ s # "none" => Held(s, t) # Absent
BY DEF Held, Absent

\* And so is one whose state has changed.
LEMMA MarkedIsShaped ==
    ASSUME NEW r, r = Held(r.state, r.tx), NEW s
    PROVE  [r EXCEPT !.state = s] = Held(s, r.tx)
<1>1. [Held(r.state, r.tx) EXCEPT !.state = s] = Held(s, r.tx)
    BY DEF Held
<1> QED
    BY <1>1

\* Each primitive of the store leaves the records in shape, and what is there on disk.
LEMMA ReserveGrows ==
    ASSUME StoreShaped, NEW t, NEW op, NEW S, NEW s, Reserve(t, op, S, s)
    PROVE  StoreShaped' /\ Grows
<1> SUFFICES ASSUME NEW p \in Proof
             PROVE  /\ disk'[p] = Held(disk'[p].state, disk'[p].tx) /\ mem'[p] = Held(mem'[p].state, mem'[p].tx)
                    /\ mem'[p] # Absent => disk'[p] # Absent
                    /\ disk[p] # Absent => disk'[p] # Absent
    BY DEF StoreShaped, Grows
<1>1. /\ disk'[p] = IF p \in S THEN Held("PENDING", t) ELSE disk[p]
      /\ mem'[p] = IF p \in S /\ mem[p].state # "SPENT" THEN Held("PENDING", t) ELSE mem[p]
    BY DEF Reserve
<1> QED
    BY <1>1, HeldIsShaped DEF StoreShaped

\* A commit also puts the new proofs on disk.
LEMMA CommitGrows ==
    ASSUME StoreShaped, NEW r, NEW S, NEW new, Commit(r, S, {}, new),
           \A p \in DOMAIN new : new[p] = Held(new[p].state, new[p].tx) /\ new[p] # Absent
    PROVE  StoreShaped' /\ Grows /\ \A p \in Proof : p \in DOMAIN new => disk'[p] # Absent
<1> SUFFICES ASSUME NEW p \in Proof
             PROVE  /\ disk'[p] = Held(disk'[p].state, disk'[p].tx) /\ mem'[p] = Held(mem'[p].state, mem'[p].tx)
                    /\ mem'[p] # Absent => disk'[p] # Absent
                    /\ disk[p] # Absent => disk'[p] # Absent
                    /\ p \in DOMAIN new => disk'[p] # Absent
    BY DEF StoreShaped, Grows
<1> DEFINE moved(table) == Move(Move(table, S, "SPENT"), {}, "UNSPENT")
<1>1. \A table : table[p] = Held(table[p].state, table[p].tx) =>
          moved(table)[p] = IF p \in S /\ table[p] # Absent THEN Held("SPENT", table[p].tx) ELSE table[p]
    BY MarkedIsShaped DEF Move
<1>2. /\ disk'[p] = IF p \in DOMAIN new THEN new[p] ELSE moved(disk)[p]
      /\ mem'[p] = IF p \in DOMAIN new /\ moved(mem)[p].state # "SPENT" THEN new[p] ELSE moved(mem)[p]
    BY DEF Commit
<1> HIDE DEF moved
<1>3. /\ disk[p] = Held(disk[p].state, disk[p].tx) /\ mem[p] = Held(mem[p].state, mem[p].tx)
      /\ mem[p] # Absent => disk[p] # Absent
    BY DEF StoreShaped
<1>4. /\ moved(disk)[p] = IF p \in S /\ disk[p] # Absent THEN Held("SPENT", disk[p].tx) ELSE disk[p]
      /\ moved(mem)[p] = IF p \in S /\ mem[p] # Absent THEN Held("SPENT", mem[p].tx) ELSE mem[p]
    BY <1>1, <1>3
<1>5. /\ moved(disk)[p] = Held(moved(disk)[p].state, moved(disk)[p].tx)
      /\ moved(mem)[p] = Held(moved(mem)[p].state, moved(mem)[p].tx)
      /\ disk[p] # Absent => moved(disk)[p] # Absent
      /\ moved(mem)[p] # Absent => mem[p] # Absent
    BY <1>3, <1>4, HeldIsShaped
<1> QED
    BY <1>2, <1>3, <1>5

\* A rollback puts back what is there only.
LEMMA RollbackGrows ==
    ASSUME StoreShaped, NEW r, Rollback(r),
           \A p \in DOMAIN r.locked : r.locked[p] = Held("UNSPENT", r.locked[p].tx)
    PROVE  StoreShaped' /\ Grows
<1> SUFFICES ASSUME NEW p \in Proof
             PROVE  /\ disk'[p] = Held(disk'[p].state, disk'[p].tx) /\ mem'[p] = Held(mem'[p].state, mem'[p].tx)
                    /\ mem'[p] # Absent => disk'[p] # Absent
                    /\ disk[p] # Absent => disk'[p] # Absent
    BY DEF StoreShaped, Grows
<1>1. /\ disk'[p] = IF p \in DOMAIN r.locked /\ disk[p] # Absent THEN r.locked[p] ELSE disk[p]
      /\ \/ mem'[p] = mem[p]
         \/ mem[p] # Absent /\ \E s, t : mem'[p] = Held(s, t)
    BY DEF Rollback
<1> QED
    BY <1>1, HeldIsShaped DEF StoreShaped

\* addOrUpdateProofs.
LEMMA OverwriteGrows ==
    ASSUME StoreShaped, NEW S, NEW s, Overwrite(S, s), s # "none"
    PROVE  StoreShaped' /\ Grows
<1> SUFFICES ASSUME NEW p \in Proof
             PROVE  /\ disk'[p] = Held(disk'[p].state, disk'[p].tx) /\ mem'[p] = Held(mem'[p].state, mem'[p].tx)
                    /\ mem'[p] # Absent => disk'[p] # Absent
                    /\ disk[p] # Absent => disk'[p] # Absent
    BY DEF StoreShaped, Grows
<1>1. /\ disk'[p] = IF p \in S THEN [mem[p] EXCEPT !.state = s] ELSE disk[p]
      /\ mem'[p] = IF p \in S THEN [mem[p] EXCEPT !.state = s] ELSE mem[p]
    BY DEF Overwrite
<1>2. [mem[p] EXCEPT !.state = s] = Held(s, mem[p].tx)
    BY MarkedIsShaped DEF StoreShaped
<1> QED
    BY <1>1, <1>2, HeldIsShaped DEF StoreShaped

\* What commits store.
LEMMA OutputsShaped ==
    /\ \A C, t : \A p \in DOMAIN Unspent(C, t) :
           Unspent(C, t)[p] = Held(Unspent(C, t)[p].state, Unspent(C, t)[p].tx) /\ Unspent(C, t)[p] # Absent
    /\ \A t : \A p \in DOMAIN SwapOutputs(t) :
           SwapOutputs(t)[p] = Held(SwapOutputs(t)[p].state, SwapOutputs(t)[p].tx) /\ SwapOutputs(t)[p] # Absent
    /\ DOMAIN <<>> = {}
<1>1. ASSUME NEW C, NEW t, NEW p \in DOMAIN Unspent(C, t)
      PROVE  Unspent(C, t)[p] = Held(Unspent(C, t)[p].state, Unspent(C, t)[p].tx) /\ Unspent(C, t)[p] # Absent
    BY HeldIsShaped DEF Unspent
<1>2. ASSUME NEW t, NEW p \in DOMAIN SwapOutputs(t)
      PROVE  SwapOutputs(t)[p] = Held(SwapOutputs(t)[p].state, SwapOutputs(t)[p].tx) /\ SwapOutputs(t)[p] # Absent
  <2>1. p \in {<<t, "swap">>, <<t, "rest">>}
      BY DEF SwapOutputs
  <2>2. SwapOutputs(t)[p] = Held(IF p = <<t, "swap">> THEN "PENDING" ELSE "UNSPENT", t)
      BY <2>1 DEF SwapOutputs
  <2> QED
      BY <2>2, HeldIsShaped
<1>3. DOMAIN <<>> = {}
    OBVIOUS
<1> QED
    BY <1>1, <1>2, <1>3

\* Every step of a process that lives keeps the store in shape, and what is on disk there.
Lives == Running \/ (AtAwait /\ (Resuming \/ Failures \/ Starts \/ MintSteps \/ NetworkSteps))

\* Every step of a process that lives keeps the store in shape, and what is on disk there.
LEMMA StoreKept == ASSUME IInv, StoreShaped, RowShaped, phase = "up", Lives PROVE StoreShaped' /\ Grows
<1>1. CASE UNCHANGED <<disk, mem>>
    BY <1>1 DEF StoreShaped, Grows
<1>2. CASE CommitSwap \/ JudgePaid \/ JudgePending
  <2>1. PICK r, S, new : Commit(r, S, {}, new) /\ (new = <<>> \/ \E t : new = SwapOutputs(t))
      BY <1>2 DEF CommitSwap, JudgePaid, JudgePending
  <2>2. \A p \in DOMAIN new : new[p] = Held(new[p].state, new[p].tx) /\ new[p] # Absent
      BY <2>1, OutputsShaped
  <2> QED
      BY <2>1, <2>2, CommitGrows
<1>3. CASE SettlePaid \/ SettlePending \/ \E w \in Worker : SettleVisit(w)
  <2>1. PICK r, S, C, t : Commit(r, S, {}, Unspent(C, t))
      BY <1>3 DEF SettlePaid, SettlePending, SettleVisit
  <2> QED
      BY <2>1, OutputsShaped, CommitGrows
<1>4. CASE Select
  <2>1. PICK op, S : Reserve(job.tx, op, S, "UNSPENT")
      BY <1>4 DEF Select
  <2> QED
      BY <2>1, ReserveGrows
<1>5. CASE Lock
    BY <1>5, ReserveGrows DEF Lock
<1>6. CASE SwapFails \/ SettleUnpaid
  <2>1. Rollback(job.row) /\ job.pc \in {"swap", "settle"}
      BY <1>6 DEF SwapFails, SettleUnpaid
  <2> QED
      BY <2>1, RollbackGrows DEF RowShaped
<1>7. CASE JudgeUnpaid
  <2>1. CASE Rollback(job.row)
      BY <1>7, <2>1, RollbackGrows DEF RowShaped, JudgeUnpaid
  <2>2. CASE Commit(job.row, {}, {}, <<>>)
      BY <2>2, OutputsShaped, CommitGrows
  <2> QED
      BY <1>7, <2>1, <2>2 DEF JudgeUnpaid
<1>8. CASE WriteOff \/ Register \/ (\E w \in Worker : ReleaseFailed(w)) \/ (\E t \in Tx : SettleShort(t))
  <2>1. UNCHANGED <<disk, mem>> \/ \E S, s : Overwrite(S, s) /\ s # "none"
      BY <1>8 DEF WriteOff, Register, ReleaseFailed, SettleShort, MoveToSpent, MoveToPending,
         RevertToSpendable, storeVars
  <2> QED
      BY <1>1, <2>1, OverwriteGrows
<1> USE DEF storeVars
<1>9. CASE JobRuns
    BY <1>9, <1>1, <1>3, <1>5, <1>6 DEF JobRuns, Prepared, Execute, Fail, Rescued, OnchainChecked
<1>10. CASE SyncRuns
    BY <1>10, <1>1, <1>8 DEF SyncRuns, Dispatched, Unregister, GoneRefreshed, Synced, SkipSettled,
       Dispatch, RefreshGone
<1>11. CASE VisitRuns
    BY <1>11, <1>1, <1>3, <1>8 DEF VisitRuns, MarkReverted
<1>12. CASE JobResumes
    BY <1>12, <1>1, <1>2, <1>4, <1>7 DEF JobResumes, Submit, TakeAnswer, TakeError, Recheck, NestedDone
<1>13. CASE SyncResumes
    BY <1>13, <1>1, <1>8 DEF SyncResumes, Check, MarkPending
<1>14. CASE VisitResumes
    BY <1>14, <1>1 DEF VisitResumes, AskQuote, SeesPaid, SeesUnpaid, SeesForRecovery, Unblind
<1>15. CASE Failures
    BY <1>15, <1>1, <1>6 DEF Failures, LoseAnswer, RecheckFails, CheckFails, AskFails, UnblindFails
<1>16. CASE Starts
    BY <1>16, <1>1 DEF Starts, StartTransfer, CheckOnchain, RecoverByHand, MonitorRefreshes, ExpireTransfer, ReloadTransfer, SyncAll
<1>17. CASE MintSteps \/ NetworkSteps
    BY <1>17, <1>1 DEF MintSteps, NetworkSteps, MintSwaps, TakeMelt, RefuseMelt, AnswerMelt,
       Broadcast, PaymentSucceeds, PaymentFails
<1> QED
    BY <1>9, <1>10, <1>11, <1>12, <1>13, <1>14, <1>15, <1>16, <1>17 DEF Lives, Running, Resuming

\* What a reservation of spendable proofs would put back.
LEMMA RowIsShaped ==
    ASSUME NEW t, NEW op, NEW S
    PROVE  \A p \in DOMAIN RowFor(t, op, S, "UNSPENT").locked :
               RowFor(t, op, S, "UNSPENT").locked[p] = Held("UNSPENT", RowFor(t, op, S, "UNSPENT").locked[p].tx)
<1>1. RowFor(t, op, S, "UNSPENT").locked = [p \in S |-> Snapshot(p, "UNSPENT")]
    BY DEF RowFor
<1>2. \A p : Snapshot(p, "UNSPENT") = Held("UNSPENT", Snapshot(p, "UNSPENT").tx)
    BY HeldIsShaped DEF Snapshot
<1> QED
    BY <1>1, <1>2

\* The row of the task is written when it locks, and kept until it is resolved.
LEMMA RowKept == ASSUME IInv, RowShaped, Lives PROVE RowShaped'
<1> DEFINE WithRow == {"swap", "locked", "prepared", "submit", "wait", "settle", "recheck", "judge"}
<1>1. CASE job'.pc \in WithRow => job.pc \in WithRow /\ job'.row = job.row
    BY <1>1 DEF RowShaped
<1>2. CASE Select \/ Lock
  <2>1. ASSUME Select PROVE \E op, S : job'.row = RowFor(job.tx, op, S, "UNSPENT")
    <3>1. PICK S : LET swap == Overshoots(job.tx, S)
                       op   == IF swap THEN "transfer-swap" ELSE "transfer-melt"
                   IN  job' = [job EXCEPT !.pc = IF swap THEN "swap" ELSE "locked", !.inputs = S,
                                          !.row = RowFor(job.tx, op, S, "UNSPENT")]
        BY <2>1 DEF Select
    <3> DEFINE op == IF Overshoots(job.tx, S) THEN "transfer-swap" ELSE "transfer-melt"
    <3>2. job'.row = RowFor(job.tx, op, S, "UNSPENT")
        BY <3>1 DEF IInv, Shapes
    <3> QED
        BY <3>2
  <2>2. ASSUME Lock PROVE job'.row = RowFor(job.tx, "transfer-melt", job.inputs, "UNSPENT")
      BY <2>2 DEF Lock, IInv, Shapes
  <2>3. PICK op, S : job'.row = RowFor(job.tx, op, S, "UNSPENT")
      BY <1>2, <2>1, <2>2
  <2> QED
      BY <2>3, RowIsShaped DEF RowShaped
<1> USE DEF IInv, Shapes, mintVars, queueVars
<1>3. CASE UNCHANGED job
    BY <1>1, <1>3
<1>12. CASE job' = IdleJob
  <2>1. job'.pc = "idle"
      BY <1>12 DEF IdleJob
  <2> QED
      BY <1>1, <2>1
<1>4. CASE JobRuns
  <2>1. CASE Prepared \/ Execute \/ SettleUnpaid \/ Rescued
      BY <2>1, <1>1 DEF Prepared, Execute, SettleUnpaid, Rescued
  <2> QED
      BY <1>4, <1>2, <1>12, <2>1 DEF JobRuns, SettlePaid, SettlePending, Fail, OnchainChecked
<1>5. CASE SyncRuns
    BY <1>5, <1>3 DEF SyncRuns, Dispatched, Register, Unregister, GoneRefreshed, Synced, SettleShort, SkipSettled,
       Dispatch, RefreshGone
<1>6. CASE VisitRuns
    BY <1>6, <1>3 DEF VisitRuns, ReleaseFailed, MarkReverted, SettleVisit
<1>7. CASE JobResumes
    BY <1>7, <1>1, <1>2 DEF JobResumes, CommitSwap, Submit, TakeAnswer, TakeError, Recheck, JudgePaid, JudgePending,
       JudgeUnpaid, NestedDone
<1>8. CASE SyncResumes \/ VisitResumes
    BY <1>8, <1>3 DEF SyncResumes, Check, WriteOff, MarkPending, VisitResumes, AskQuote, SeesPaid, SeesUnpaid,
       SeesForRecovery, Unblind
<1>9. CASE Failures
    BY <1>9, <1>1 DEF Failures, SwapFails, LoseAnswer, RecheckFails, CheckFails, AskFails, UnblindFails
<1>10. CASE Starts
  <2>1. job'.pc \in {"select", "checking"} \/ UNCHANGED job
      BY <1>10 DEF Starts, StartTransfer, CheckOnchain, RecoverByHand, MonitorRefreshes, ExpireTransfer, ReloadTransfer, SyncAll, IdleJob
  <2> QED
      BY <1>1, <1>3, <2>1
<1>11. CASE MintSteps \/ NetworkSteps
    BY <1>11, <1>1 DEF MintSteps, NetworkSteps, MintSwaps, TakeMelt, RefuseMelt, AnswerMelt, Reply,
       Broadcast, PaymentSucceeds, PaymentFails
<1> QED
    BY <1>4, <1>5, <1>6, <1>7, <1>8, <1>9, <1>10, <1>11 DEF Lives, Running, Resuming

QueueAlone == visit[Queue].pc = "settle" => sync.pc \notin {"settle", "gone", "refresh"}

\* What a visit or the task is about to store is stored, or it is still about to.
LEMMA ComingArrives ==
    ASSUME IInv, StoreShaped, JobKept, QueueAlone, Lives, NEW t \in Transfer, quote[t].state # "UNPAID",
           NEW p \in Proof, Coming(p, t)
    PROVE  Coming(p, t)' \/ disk'[p] # Absent
<1>0. Running
    BY DEF Coming, Lives, AtAwait
<1>1. CASE \E w \in Worker : visit[w].pc = "settle" /\ visit[w].tx = t /\ p \in visit[w].change
  <2>1. PICK w \in Worker : visit[w].pc = "settle" /\ visit[w].tx = t /\ p \in visit[w].change
      BY <1>1
  <2>2. CASE visit'[w] = visit[w]
      BY <2>1, <2>2 DEF Coming
  <2>3. CASE SettleVisit(w)
    <3>1. \E r : Commit(r, visit[w].pending, {}, Unspent(visit[w].change, visit[w].tx))
        BY <2>3 DEF SettleVisit
    <3>2. p \in DOMAIN Unspent(visit[w].change, visit[w].tx)
        BY <2>1 DEF Unspent
    <3> QED
        BY <3>1, <3>2, OutputsShaped, CommitGrows
  <2>4. SettleVisit(w) \/ visit'[w] = visit[w]
    <3>1. CASE JobRuns
        BY <3>1, <2>1 DEF JobRuns, Lock, Prepared, Execute, SettlePaid, SettlePending, SettleUnpaid, Fail, Rescued,
           OnchainChecked, IInv, Shapes
    <3>2. CASE SyncRuns
      <4>1. UNCHANGED visit \/ ((\A v \in Worker : v # Queue => visit'[v] = visit[v]) /\ visit[Queue].pc # "settle")
          BY <3>2 DEF SyncRuns, Dispatched, Register, Unregister, GoneRefreshed, Synced, SettleShort, SkipSettled,
             Dispatch, RefreshGone, Enter, QueueAlone, IInv, Shapes
      <4> QED
          BY <4>1, <2>1
    <3>3. CASE VisitRuns
        BY <3>3, <2>1 DEF VisitRuns, ReleaseFailed, MarkReverted, SettleVisit, GoOn, EndVisit, IInv, Shapes
    <3> QED
        BY <1>0, <3>1, <3>2, <3>3 DEF Running
  <2> QED
      BY <2>2, <2>3, <2>4
<1>2. CASE job.pc = "settle" /\ job.tx = t /\ p \in job.change
  <2>1. CASE UNCHANGED job
      BY <1>2, <2>1 DEF Coming
  <2>2. CASE SettlePaid \/ SettlePending
    <3>1. \E r, S : Commit(r, S, {}, Unspent(job.change, job.tx))
        BY <2>2 DEF SettlePaid, SettlePending
    <3>2. p \in DOMAIN Unspent(job.change, job.tx)
        BY <1>2 DEF Unspent
    <3> QED
        BY <3>1, <3>2, OutputsShaped, CommitGrows
  <2>3. ~SettleUnpaid
      BY <1>2 DEF SettleUnpaid, JobKept, Answers
  <2>4. UNCHANGED job \/ SettlePaid \/ SettlePending
    <3>1. CASE JobRuns
        BY <3>1, <1>2, <2>3 DEF JobRuns, Lock, Prepared, Execute, Fail, Rescued, OnchainChecked
    <3>2. CASE SyncRuns \/ VisitRuns
        BY <3>2 DEF SyncRuns, Dispatched, Register, Unregister, GoneRefreshed, Synced, SettleShort, SkipSettled,
           Dispatch, RefreshGone, VisitRuns, ReleaseFailed, MarkReverted, SettleVisit, queueVars
    <3> QED
        BY <1>0, <3>1, <3>2 DEF Running
  <2> QED
      BY <2>1, <2>2, <2>4
<1> QED
    BY <1>1, <1>2 DEF Coming

\* What a step does at the mint, and to the requests under way.
MintMoves ==
    \/ UNCHANGED <<quote, change, net>>
    \/ UNCHANGED <<quote, change>> /\ (Submit \/ \E q \in net : net' = net \ {q} /\ RefuseMelt(q))
    \/ \E q \in net : TakeMelt(q)
    \/ \E t \in Transfer : Broadcast(t) \/ PaymentSucceeds(t) \/ PaymentFails(t)

\* No other step touches the mint.
LEMMA MintMovesSo == Lives => MintMoves
<1> SUFFICES ASSUME Lives PROVE MintMoves
    OBVIOUS
<1> USE DEF MintMoves, mintVars
<1>1. CASE Running
    BY <1>1 DEF Running, JobRuns, SyncRuns, VisitRuns, Lock, Prepared, Execute, SettlePaid, SettlePending,
       SettleUnpaid, Fail, Rescued, OnchainChecked, Dispatched, Register, Unregister, GoneRefreshed, Synced,
       SettleShort, SkipSettled, Dispatch, RefreshGone, ReleaseFailed, MarkReverted, SettleVisit
<1>2. CASE Resuming
    BY <1>2 DEF Resuming, JobResumes, SyncResumes, VisitResumes, Select, CommitSwap, Submit, TakeAnswer,
       TakeError, Recheck, JudgePaid, JudgePending, JudgeUnpaid, NestedDone, Check, WriteOff, MarkPending,
       AskQuote, SeesPaid, SeesUnpaid, SeesForRecovery, Unblind
<1>3. CASE Failures
    BY <1>3 DEF Failures, SwapFails, LoseAnswer, RecheckFails, CheckFails, AskFails, UnblindFails
<1>4. CASE Starts
    BY <1>4 DEF Starts, StartTransfer, CheckOnchain, RecoverByHand, MonitorRefreshes, ExpireTransfer, ReloadTransfer, SyncAll
<1>5. CASE MintSteps
    BY <1>5 DEF MintSteps, MintSwaps, RefuseMelt, AnswerMelt
<1>6. CASE NetworkSteps
    BY <1>6 DEF NetworkSteps
<1> QED
    BY <1>1, <1>2, <1>3, <1>4, <1>5, <1>6 DEF Lives

\* Change that is fixed stays as it is, and a transfer that has not been taken may only be taken.
LEMMA ChangeStands ==
    ASSUME IInv, NetKept, DOMAIN change = Transfer, MintMoves, NEW t \in Transfer
    PROVE  /\ quote[t].state = "PAID" => quote'[t].state = "PAID"
           /\ (quote[t].state = "PAID" \/ change[t] # {}) => change'[t] = change[t]
           /\ quote[t].state = "UNPAID" => \/ quote'[t].state = "UNPAID" /\ quote'[t] = quote[t] /\ change'[t] = change[t]
                                           \/ \E q \in net : q.tx = t /\ quote'[t].blank = q.blank /\ TakeMelt(q)
           /\ ~(\E q \in net : TakeMelt(q) /\ q.tx = t) => quote'[t].blank = quote[t].blank /\ quote'[t].inputs = quote[t].inputs
<1> USE DEF IInv, Shapes
<1>1. CASE UNCHANGED <<quote, change>>
    BY <1>1
<1>2. ASSUME NEW q \in net, TakeMelt(q) PROVE q.tx = t \/ (quote'[t] = quote[t] /\ change'[t] = change[t])
    BY <1>2 DEF TakeMelt, NetKept
<1>3. ASSUME NEW q \in net, TakeMelt(q), q.tx = t
      PROVE  quote[t].state = "UNPAID" /\ quote'[t].blank = q.blank /\ change'[t] = change[t]
    BY <1>3 DEF TakeMelt, NetKept
<1>4. ASSUME NEW s \in Transfer, Broadcast(s) \/ PaymentSucceeds(s) \/ PaymentFails(s)
      PROVE  /\ quote'[t].blank = quote[t].blank /\ quote'[t].inputs = quote[t].inputs
             /\ quote[t].state \in {"UNPAID", "PAID"} => quote'[t] = quote[t] /\ change'[t] = change[t]
             /\ change[t] # {} => change'[t] = change[t]
    BY <1>4 DEF Broadcast, PaymentSucceeds, PaymentFails, SignChange
<1> QED
    BY <1>1, <1>2, <1>3, <1>4 DEF MintMoves

\* Change that is secured stays so: the mint signs no other, and what is in hand gets stored.
LEMMA SecuredKept ==
    ASSUME IInv, ChangeOrderly, Lives, NEW t \in Transfer, Secured(t), quote[t].state # "UNPAID"
    PROVE  Secured(t)'
<1>1. MintMoves /\ StoreShaped' /\ Grows
    BY MintMovesSo, StoreKept DEF ChangeOrderly
<1>2. change'[t] = change[t] /\ (quote[t].state = "PAID" => quote'[t].state = "PAID")
    BY <1>1, ChangeStands DEF ChangeOrderly, Secured
<1>3. \A p \in Proof : Coming(p, t) => Coming(p, t)' \/ disk'[p] # Absent
    BY ComingArrives DEF ChangeOrderly, QueueAlone
<1>4. change[t] \subseteq Proof
    BY DEF ChangeOrderly, QuoteKept
<1> QED
    BY <1>1, <1>2, <1>3, <1>4 DEF Secured, Grows

\* A step that leaves the stored blank outputs of t alone.
LEMMA KeptStands ==
    ASSUME IInv, ChangeOrderly, Lives, NEW t \in Transfer, recovery[t] \subseteq recovery'[t]
    PROVE  Kept(t)'
<1>1. MintMoves
    BY MintMovesSo
<1>2. CASE quote[t].state = "UNPAID"
  <2>1. ASSUME NEW q \in net, q.tx = t, quote'[t].blank = q.blank PROVE Kept(t)'
      BY <2>1 DEF ChangeOrderly, NetKept, Kept
  <2> QED
      BY <1>1, <1>2, <2>1, ChangeStands DEF ChangeOrderly, Kept
<1>3. CASE quote[t].state # "UNPAID" /\ quote[t].blank \subseteq recovery[t]
  <2>1. ~(\E q \in net : TakeMelt(q) /\ q.tx = t)
      BY <1>3 DEF TakeMelt
  <2> QED
      BY <1>1, <1>3, <2>1, ChangeStands DEF ChangeOrderly, Kept
<1>4. CASE quote[t].state # "UNPAID" /\ Secured(t)
    BY <1>4, SecuredKept DEF Kept
<1> QED
    BY <1>2, <1>3, <1>4 DEF ChangeOrderly, Kept

\* What a step does to the stored blank outputs.
LEMMA RecoveryMoves ==
    ASSUME IInv, ChangeOrderly, Lives
    PROVE  \/ \A t \in Transfer : recovery'[t] = recovery[t]
           \/ Submit \/ TakeAnswer \/ TakeError \/ \E w \in Worker : Unblind(w)
<1>1. ASSUME NEW w \in Worker, SeesForRecovery(w)
      PROVE  \A t \in Transfer : recovery'[t] = recovery[t]
    BY <1>1 DEF SeesForRecovery, ChangeOrderly, VisitKept
<1>2. CASE Running
    BY <1>2 DEF Running, JobRuns, SyncRuns, VisitRuns, Lock, Prepared, Execute, SettlePaid, SettlePending,
       SettleUnpaid, Fail, Rescued, OnchainChecked, Dispatched, Register, Unregister, GoneRefreshed, Synced,
       SettleShort, SkipSettled, Dispatch, RefreshGone, ReleaseFailed, MarkReverted, SettleVisit
<1>3. CASE Resuming
    BY <1>1, <1>3 DEF Resuming, JobResumes, SyncResumes, VisitResumes, Select, CommitSwap,
       Recheck, JudgePaid, JudgePending, JudgeUnpaid, NestedDone, Check, WriteOff, MarkPending,
       AskQuote, SeesPaid, SeesUnpaid
<1>4. CASE Failures
    BY <1>4 DEF Failures, SwapFails, LoseAnswer, RecheckFails, CheckFails, AskFails, UnblindFails
<1>5. CASE Starts
    BY <1>5 DEF Starts, StartTransfer, CheckOnchain, RecoverByHand, MonitorRefreshes, ExpireTransfer, ReloadTransfer, SyncAll
<1>6. CASE MintSteps \/ NetworkSteps
    BY <1>6 DEF MintSteps, NetworkSteps, MintSwaps, TakeMelt, RefuseMelt, AnswerMelt,
       Broadcast, PaymentSucceeds, PaymentFails
<1> QED
    BY <1>2, <1>3, <1>4, <1>5, <1>6 DEF Lives

\* The blank outputs are dropped only when the change is in hand, or when none will come.
LEMMA AllKept == ASSUME IInv, ChangeOrderly, Lives, NEW t \in Transfer PROVE Kept(t)'
<1>1. CASE \A s \in Transfer : recovery'[s] = recovery[s]
    BY <1>1, KeptStands
<1>2. CASE Submit
    BY <1>2, KeptStands DEF Submit, ChangeOrderly
<1>3. CASE TakeError
  <2>1. t # job.tx => recovery'[t] = recovery[t]
      BY <1>3 DEF TakeError, ChangeOrderly
  <2>2. t = job.tx => quote'[t].state = "UNPAID"
      BY <1>3 DEF TakeError, ChangeOrderly, JobKept, Fresh, mintVars
  <2> QED
      BY <2>1, <2>2, KeptStands DEF Kept
<1>4. CASE TakeAnswer
  <2>1. t # job.tx => recovery'[t] = recovery[t]
      BY <1>4 DEF TakeAnswer, ChangeOrderly
  <2>2. CASE t = job.tx /\ recovery'[t] # recovery[t]
    <3>1. /\ UNCHANGED <<quote, change>> /\ job'.pc = "settle" /\ job'.tx = t /\ job'.change = job.change
          /\ job.pc = "wait" /\ job.answer \in Answers
          /\ job.change # {} \/ job.answer \in {"PAID", "UNPAID"}
        BY <1>4, <2>2 DEF TakeAnswer, ChangeOrderly, mintVars, IInv, Shapes, Answers
    <3>2. job.answer = "UNPAID" => quote[t].state = "UNPAID"
        BY <2>2, <3>1 DEF ChangeOrderly, JobKept
    <3>3. CASE job.change # {} \/ job.answer = "PAID"
      <4>1. job.change = change[t] /\ (job.answer = "PAID" => quote[t].state = "PAID")
          BY <2>2, <3>1, <3>3 DEF ChangeOrderly, JobKept, IInv, JobKnows, Paid
      <4> QED
          BY <3>1, <3>3, <4>1 DEF Kept, Secured, Coming
    <3> QED
        BY <3>1, <3>2, <3>3 DEF Kept
  <2> QED
      BY <2>1, <2>2, KeptStands
<1>5. ASSUME NEW w \in Worker, Unblind(w) PROVE Kept(t)'
  <2> DEFINE v == visit[w]
             new == {p \in v.change : mem[p] = Absent}
  <2>1. t # v.tx \/ v.change = {} => recovery'[t] = recovery[t]
      BY <1>5 DEF Unblind, ChangeOrderly
  <2>2. CASE t = v.tx /\ v.change # {} /\ v.change = change[t]
    <3>1. UNCHANGED <<quote, change, disk>> /\ v.pc = "unblind" /\ quote[t].state = "PAID"
        BY <1>5, <2>2 DEF Unblind, storeVars, mintVars, IInv, VisitKnows, Paid
    <3>2. \A p \in change[t] : p \notin new => disk[p] # Absent
        BY <2>2 DEF ChangeOrderly, StoreShaped, QuoteKept
    <3>3. CASE v.mode = "recover" /\ new = {}
        BY <3>1, <3>2, <3>3 DEF Kept, Secured
    <3>4. CASE ~(v.mode = "recover" /\ new = {})
      <4>1. /\ visit'[w].pc = "settle" /\ visit'[w].tx = t /\ new \subseteq visit'[w].change
          BY <1>5, <2>2, <3>4 DEF Unblind, IInv, Shapes
      <4>2. \A p \in change[t] : disk'[p] # Absent \/ Coming(p, t)'
          BY <3>1, <3>2, <4>1 DEF Coming
      <4> QED
          BY <3>1, <4>2 DEF Kept, Secured
    <3> QED
        BY <3>3, <3>4
  <2>3. CASE t = v.tx /\ v.change # change[t]
    <3>1. Secured(t) /\ quote[t].state # "UNPAID"
        BY <1>5, <2>3 DEF Unblind, ChangeOrderly, VisitKept, IInv, VisitKnows, Paid
    <3> QED
        BY <3>1, SecuredKept DEF Kept
  <2> QED
      BY <2>1, <2>2, <2>3, KeptStands
<1> QED
    BY <1>1, <1>2, <1>3, <1>4, <1>5, RecoveryMoves

\* The statuses of the other transfers stand, or become something else than "none".
LEMMA StatusMoves == ASSUME IInv, Lives PROVE \A t \in Transfer : status'[t] = "none" => status[t] = "none"
<1> USE DEF SetStatus, IInv, Shapes, mintVars
<1>0. ASSUME NEW w \in Worker, SeesForRecovery(w) PROVE \A t \in Transfer : status'[t] = "none" => status[t] = "none"
    BY <1>0, TransferAssumptions DEF SeesForRecovery, ReadAgain
<1>1. CASE Running
    BY <1>1, TransferAssumptions DEF Running, JobRuns, SyncRuns, VisitRuns, Lock, Prepared, Execute, SettlePaid, SettlePending,
       SettleUnpaid, Fail, Rescued, OnchainChecked, Dispatched, Register, Unregister, GoneRefreshed, Synced,
       SettleShort, SkipSettled, Dispatch, RefreshGone, ReleaseFailed, MarkReverted, SettleVisit
<1>2. CASE Resuming
    BY <1>0, <1>2, TransferAssumptions DEF Resuming, JobResumes, SyncResumes, VisitResumes, Select, CommitSwap, Submit, TakeAnswer,
       TakeError, Recheck, JudgePaid, JudgePending, JudgeUnpaid, NestedDone, Check, WriteOff, MarkPending,
       AskQuote, SeesPaid, SeesUnpaid, Unblind
<1>3. CASE Failures
    BY <1>3, TransferAssumptions DEF Failures, SwapFails, LoseAnswer, RecheckFails, CheckFails, AskFails, UnblindFails
<1>4. CASE Starts
    BY <1>4, TransferAssumptions DEF Starts, StartTransfer, CheckOnchain, RecoverByHand, MonitorRefreshes, ExpireTransfer, ReloadTransfer, ReadAgain, SyncAll
<1>5. CASE MintSteps \/ NetworkSteps
    BY <1>5 DEF MintSteps, NetworkSteps, MintSwaps, TakeMelt, RefuseMelt, AnswerMelt,
       Broadcast, PaymentSucceeds, PaymentFails
<1> QED
    BY <1>1, <1>2, <1>3, <1>4, <1>5 DEF Lives

\* Requests under way, and transfers nobody has touched, where the mint and the network act.
LEMMA RequestsKept ==
    ASSUME IInv, ChangeOrderly, MintMoves,
           \A q \in net : recovery[q.tx] \subseteq recovery'[q.tx],
           ~Submit
    PROVE  /\ NetKept'
           /\ \A t \in Transfer :
                /\ quote'[t].state \in Answers /\ change'[t] \subseteq quote'[t].blank /\ quote'[t].blank \subseteq Proof
                /\ Fresh(t) /\ NoRequest(t) => Fresh(t)' /\ NoRequest(t)'
                /\ NoRequest(t) => NoRequest(t)'
<1> USE DEF Answers, ChangeOrderly, NetKept, QuoteKept, Fresh, NoRequest, IInv, Shapes
<1>1. CASE UNCHANGED <<quote, change, net>>
    BY <1>1
<1>2. CASE UNCHANGED <<quote, change>> /\ \E q \in net : net' = net \ {q}
    BY <1>2
<1>3. ASSUME NEW q \in net, TakeMelt(q)
      PROVE  /\ NetKept'
             /\ \A t \in Transfer :
                /\ quote'[t].state \in Answers /\ change'[t] \subseteq quote'[t].blank /\ quote'[t].blank \subseteq Proof
                /\ Fresh(t) /\ NoRequest(t) => Fresh(t)' /\ NoRequest(t)'
                /\ NoRequest(t) => NoRequest(t)'
  <2>1. /\ UNCHANGED change /\ net' = net \ {q}
        /\ \A t \in Transfer : t # q.tx => quote'[t] = quote[t]
        /\ quote'[q.tx].blank = q.blank /\ quote'[q.tx].state = "PENDING"
      BY <1>3 DEF TakeMelt
  <2> QED
      BY <2>1
<1>4. ASSUME NEW s \in Transfer, Broadcast(s) \/ PaymentSucceeds(s) \/ PaymentFails(s)
      PROVE  /\ NetKept'
             /\ \A t \in Transfer :
                /\ quote'[t].state \in Answers /\ change'[t] \subseteq quote'[t].blank /\ quote'[t].blank \subseteq Proof
                /\ Fresh(t) /\ NoRequest(t) => Fresh(t)' /\ NoRequest(t)'
                /\ NoRequest(t) => NoRequest(t)'
  <2>1. /\ UNCHANGED net /\ quote[s].state = "PENDING"
        /\ \A t \in Transfer : quote'[t].blank = quote[t].blank
        /\ \A t \in Transfer : t # s => quote'[t] = quote[t] /\ change'[t] = change[t]
        /\ change'[s] \in {change[s], {}, quote[s].blank} /\ quote'[s].state \in Answers
      BY <1>4 DEF Broadcast, PaymentSucceeds, PaymentFails, SignChange
  <2> QED
      BY <2>1
<1> QED
    BY <1>1, <1>2, <1>3, <1>4 DEF MintMoves

\* What the task knows of its transfer stays true while others act.
LEMMA JobStands ==
    ASSUME IInv, ChangeOrderly, Lives, ~Submit, job.pc = "idle" \/ recovery'[job.tx] \in {recovery[job.tx], {}},
           UNCHANGED job \/ (/\ UNCHANGED <<quote, change, net>> /\ job'.tx = job.tx
                             /\ job.pc \in {"select", "swap", "lock", "locked", "prepared"}
                             /\ job'.pc \in {"swap", "lock", "locked", "prepared", "submit"}),
           \A q \in net : recovery[q.tx] \subseteq recovery'[q.tx]
    PROVE  JobKept'
<1>1. ASSUME job.pc # "idle", NEW t \in Transfer, t = job.tx PROVE JobKept'
  <2>0. JobKept /\ MintMoves /\ job'.tx = t
      BY <1>1, MintMovesSo DEF ChangeOrderly
  <2>1. status'[t] # "none"
      BY <1>1, <2>0, StatusMoves DEF JobKept
  <2>2. (Fresh(t) /\ NoRequest(t) => Fresh(t)' /\ NoRequest(t)') /\ (NoRequest(t) => NoRequest(t)')
      BY <2>0, RequestsKept
  <2>3. NoRequest(t) /\ quote[t].state = "UNPAID" => quote'[t].state = "UNPAID"
      BY <2>0, ChangeStands DEF NoRequest, ChangeOrderly
  <2>4. quote[t].state = "PAID" \/ change[t] # {} => change'[t] = change[t]
      BY <2>0, ChangeStands DEF ChangeOrderly
  <2>5. CASE UNCHANGED job
    <3>1. job.answer = "PAID" \/ job.seen = "PAID" => quote[t].state = "PAID"
        BY <1>1 DEF IInv, JobKnows, Paid
    <3>2. recovery[t] = {} => recovery'[t] = {}
        BY <1>1
    <3>3. job'.pc = job.pc /\ job'.answer = job.answer /\ job'.seen = job.seen /\ job'.change = job.change
        BY <2>5
    <3> QED
        BY <1>1, <2>0, <2>1, <2>2, <2>3, <2>4, <3>1, <3>2, <3>3 DEF JobKept
  <2>6. CASE ~(UNCHANGED job)
    <3>1. /\ job.pc \in {"select", "swap", "lock", "locked", "prepared"}
          /\ job'.pc \in {"swap", "lock", "locked", "prepared", "submit"} /\ job'.tx = t
        BY <1>1, <2>6
    <3>2. recovery'[t] = {} /\ Fresh(t)' /\ NoRequest(t)'
        BY <1>1, <2>0, <2>2, <3>1 DEF JobKept
    <3> QED
        BY <2>1, <3>1, <3>2 DEF JobKept
  <2> QED
      BY <2>5, <2>6
<1>2. CASE job.pc = "idle"
    BY <1>2 DEF JobKept
<1> QED
    BY <1>1, <1>2 DEF IInv, JobKnows

\* The steps of the task, of those who start one, and of the mint that answers it.
LEMMA JobActs ==
    ASSUME IInv, ChangeOrderly, Lives,
           \/ job'.pc \in {"idle", "checking", "recheck", "rescue", "fail", "nested", "nestedtwice"} /\ job.pc # "idle"
              /\ job'.tx = job.tx
           \/ job' = IdleJob
           \/ Submit \/ TakeAnswer \/ TakeError \/ Recheck
           \/ \E t \in Transfer : StartTransfer(t) \/ CheckOnchain(t) \/ AnswerMelt(t)
           \/ \E q \in net : RefuseMelt(q)
    PROVE  JobKept'
<1> USE DEF IInv, Shapes, mintVars
<1>1. CASE /\ job'.pc \in {"idle", "checking", "recheck", "rescue", "fail", "nested", "nestedtwice"}
           /\ job.pc # "idle" /\ job'.tx = job.tx
  <2>1. status'[job'.tx] # "none"
      BY <1>1, StatusMoves DEF JobKnows, ChangeOrderly, JobKept
  <2> QED
      BY <1>1, <2>1 DEF JobKept
<1>2. CASE job' = IdleJob
    BY <1>2 DEF JobKept, IdleJob
<1>3. CASE Submit
  <2>1. job'.pc = "wait" /\ job'.answer = "none" /\ job'.tx = job.tx /\ UNCHANGED status
      BY <1>3 DEF Submit
  <2>2. status'[job'.tx] # "none"
      BY <1>3, <2>1 DEF Submit, ChangeOrderly, JobKept
  <2> QED
      BY <2>1, <2>2 DEF JobKept, Answers
<1>4. CASE TakeAnswer
  <2>1. /\ UNCHANGED <<status, quote, change, net>> /\ job.pc = "wait" /\ job.answer \in Answers
        /\ job'.pc = "settle" /\ job'.answer = job.answer /\ job'.change = job.change /\ job'.tx = job.tx
      BY <1>4 DEF TakeAnswer, Answers
  <2> QED
      BY <2>1 DEF ChangeOrderly, JobKept, Fresh, NoRequest, Answers
<1>5. CASE TakeError
  <2>1. /\ UNCHANGED <<status, quote, change, net>> /\ job.pc = "wait" /\ job.answer \in {"spent", "taken", "signed"}
        /\ job'.pc \in {"submit", "recheck"} /\ job'.tx = job.tx /\ job.tx \in Transfer /\ recovery'[job.tx] = {}
      BY <1>5 DEF TakeError, JobKnows, ChangeOrderly
  <2> QED
      BY <2>1 DEF ChangeOrderly, JobKept, Fresh, NoRequest
<1>6. CASE Recheck
    BY <1>6 DEF Recheck, ChangeOrderly, JobKept
<1>7. ASSUME NEW t \in Transfer, StartTransfer(t) PROVE JobKept'
  <2>1. /\ UNCHANGED <<recovery, quote, change, net>> /\ status[t] = "none" /\ status'[t] = "DRAFT"
        /\ job' = IdleJob \/ (job'.pc = "select" /\ job'.tx = t)
      BY <1>7, TransferAssumptions DEF StartTransfer, SetStatus, Ready, IdleJob
  <2>2. recovery[t] = {} /\ Fresh(t) /\ NoRequest(t)
      BY <2>1 DEF ChangeOrderly, QuoteKept
  <2> QED
      BY <1>2, <2>1, <2>2 DEF JobKept, Fresh, NoRequest
<1>8. ASSUME NEW t \in Transfer, CheckOnchain(t) PROVE JobKept'
    BY <1>8 DEF CheckOnchain, JobKept, IdleJob
<1>9. ASSUME NEW t \in Transfer, AnswerMelt(t) PROVE JobKept'
  <2>1. /\ UNCHANGED <<status, quote, change, net>> /\ job.pc = "wait" /\ quote[t].inputs # {}
        /\ job'.pc = "wait" /\ job'.change = change[t] /\ job'.tx = t /\ job.tx = t
        /\ job'.answer = "UNPAID" => quote[t].state = "UNPAID"
        /\ job'.answer \in Answers
      BY <1>9 DEF AnswerMelt, ChangeOrderly, QuoteKept, Answers
  <2>2. NoRequest(t)
      BY <2>1 DEF ChangeOrderly, NetKept, Fresh, NoRequest
  <2>3. status[t] # "none"
      BY <2>1 DEF ChangeOrderly, JobKept
  <2> QED
      BY <2>1, <2>2, <2>3 DEF JobKept, NoRequest, Answers
<1>10. ASSUME NEW q \in net, RefuseMelt(q) PROVE JobKept'
  <2>1. Fresh(q.tx)' /\ NoRequest(q.tx)'
      BY <1>10 DEF RefuseMelt, ChangeOrderly, NetKept, Fresh, NoRequest
  <2>2. CASE UNCHANGED job
      BY <1>10, <2>2, JobStands DEF RefuseMelt, Submit
  <2>3. CASE ~(UNCHANGED job)
    <3>1. /\ UNCHANGED status /\ job.pc = "wait" /\ job'.pc = "wait" /\ job'.tx = q.tx /\ job.tx = q.tx
          /\ job'.answer \in {"spent", "taken", "signed"}
        BY <1>10, <2>3 DEF RefuseMelt, Reply
    <3> QED
        BY <2>1, <3>1 DEF ChangeOrderly, JobKept, Answers
  <2> QED
      BY <2>2, <2>3
<1> QED
    BY <1>1, <1>2, <1>3, <1>4, <1>5, <1>6, <1>7, <1>8, <1>9, <1>10

\* The blank outputs of a request under way stay stored.
LEMMA RowsStand ==
    ASSUME IInv, ChangeOrderly, Lives
    PROVE  /\ \A q \in net : recovery[q.tx] \subseteq recovery'[q.tx]
           /\ ~Submit => \A t \in Transfer : recovery'[t] \in {recovery[t], {}}
<1>1. CASE \A t \in Transfer : recovery'[t] = recovery[t]
    BY <1>1 DEF ChangeOrderly, NetKept
<1>2. CASE Submit
    BY <1>2 DEF Submit, ChangeOrderly, NetKept
<1>3. CASE TakeAnswer \/ TakeError
  <2>1. NoRequest(job.tx)
      BY <1>3 DEF TakeAnswer, TakeError, ChangeOrderly, JobKept, Answers
  <2>2. \A t \in Transfer : recovery'[t] \in {recovery[t], {}} /\ (t # job.tx => recovery'[t] = recovery[t])
      BY <1>3 DEF TakeAnswer, TakeError, ChangeOrderly
  <2> QED
      BY <2>1, <2>2 DEF NoRequest, ChangeOrderly, NetKept
<1>4. ASSUME NEW w \in Worker, Unblind(w)
      PROVE  /\ \A q \in net : recovery[q.tx] \subseteq recovery'[q.tx]
             /\ \A t \in Transfer : recovery'[t] \in {recovery[t], {}}
  <2>1. quote[visit[w].tx].state = "PAID"
      BY <1>4 DEF Unblind, IInv, VisitKnows, Paid
  <2>2. \A t \in Transfer : recovery'[t] \in {recovery[t], {}} /\ (t # visit[w].tx => recovery'[t] = recovery[t])
      BY <1>4 DEF Unblind, ChangeOrderly
  <2> QED
      BY <2>1, <2>2 DEF ChangeOrderly, NetKept, Fresh
<1> QED
    BY <1>1, <1>2, <1>3, <1>4, RecoveryMoves

\* Requests, quotes and untouched transfers.
LEMMA NetAndQuotesKept ==
    ASSUME IInv, ChangeOrderly, Lives
    PROVE  NetKept' /\ \A t \in Transfer : QuoteKept(t)'
<1>1. MintMoves
    BY MintMovesSo
<1>2. CASE ~Submit
  <2>1. /\ NetKept'
        /\ \A t \in Transfer :
              /\ quote'[t].state \in Answers /\ change'[t] \subseteq quote'[t].blank /\ quote'[t].blank \subseteq Proof
              /\ Fresh(t) /\ NoRequest(t) => Fresh(t)' /\ NoRequest(t)'
      BY <1>1, <1>2, RowsStand, RequestsKept
  <2>2. ASSUME NEW t \in Transfer, status'[t] = "none" PROVE recovery'[t] = {} /\ Fresh(t) /\ NoRequest(t)
    <3>1. status[t] = "none"
        BY <2>2, StatusMoves
    <3> QED
        BY <1>2, <3>1, RowsStand DEF ChangeOrderly, QuoteKept
  <2> QED
      BY <2>1, <2>2 DEF QuoteKept
<1>3. CASE Submit
  <2> DEFINE t == job.tx
             blank == ChangeOutputs(t, job.attempt)
             new == [tx |-> t, inputs |-> job.inputs, blank |-> blank]
  <2>1. /\ UNCHANGED <<quote, change, status>> /\ net' = net \cup {new}
        /\ t \in Transfer /\ recovery[t] = {} /\ Fresh(t) /\ NoRequest(t) /\ status[t] # "none"
      BY <1>3 DEF Submit, IInv, JobKnows, ChangeOrderly, JobKept
  <2>2. recovery'[t] = blank /\ \A s \in Transfer : s # t => recovery'[s] = recovery[s]
      BY <1>3, <2>1 DEF Submit, ChangeOrderly
  <2>3. blank \subseteq Proof
      BY <2>1, TransferAssumptions DEF ChangeOutputs, Role
  <2>4. new.tx = t /\ new.blank = blank
      OBVIOUS
  <2> HIDE DEF blank, new
  <2>5. NetKept'
    <3>1. \A q, r \in net' : q.tx = r.tx => q = r
        BY <2>1, <2>4 DEF NoRequest, ChangeOrderly, NetKept
    <3>2. ASSUME NEW q \in net'
          PROVE  /\ q.tx \in Transfer /\ Fresh(q.tx)' /\ q.blank \subseteq Proof /\ q.blank \subseteq recovery'[q.tx]
      <4>1. CASE q = new
          BY <2>1, <2>2, <2>3, <2>4, <4>1 DEF Fresh
      <4>2. CASE q \in net
          BY <2>1, <2>2, <4>2 DEF NoRequest, ChangeOrderly, NetKept, Fresh
      <4> QED
          BY <2>1, <4>1, <4>2
    <3> QED
        BY <3>1, <3>2 DEF NetKept
  <2>6. ASSUME NEW s \in Transfer PROVE QuoteKept(s)'
    <3>1. QuoteKept(s)
        BY DEF ChangeOrderly
    <3>2. status[s] = "none" => s # t
        BY <2>1
    <3>3. NoRequest(s) /\ s # t => NoRequest(s)'
        BY <2>1, <2>4 DEF NoRequest
    <3> QED
        BY <2>1, <2>2, <3>1, <3>2, <3>3 DEF QuoteKept, Fresh
  <2> QED
      BY <2>5, <2>6
<1> QED
    BY <1>2, <1>3

\* What a visit has seen and holds stays true; the visit of a rescue holds what the task has seen.
LEMMA VisitStandsKept ==
    ASSUME IInv, ChangeOrderly, Lives, NEW w \in Worker, visit'[w] = visit[w]
    PROVE  VisitKept(visit[w])'
<1>1. VisitKept(visit[w]) /\ VisitKnows(visit[w]) /\ MintMoves
    BY MintMovesSo DEF ChangeOrderly, IInv
<1>2. \A t \in Transfer : quote[t].state = "PAID" => change'[t] = change[t] /\ (Secured(t) => Secured(t)')
    BY <1>1, ChangeStands, SecuredKept DEF ChangeOrderly
<1> QED
    BY <1>1, <1>2 DEF VisitKept, VisitKnows, Paid

\* Whoever captures the change of a paid transfer captures all of it, unless it is secured already.
LEMMA CaptureKept ==
    ASSUME IInv, ChangeOrderly, Lives, NEW w \in Worker, SeesPaid(w) \/ SeesForRecovery(w)
    PROVE  VisitKept(visit[w])'
<1>1. /\ visit[w].pc = "act" /\ UNCHANGED <<quote, change>> /\ visit[w].seen = "PAID"
      /\ visit'[w].pc = "unblind" \/ (visit'[w] = NoVisit \/ (visit'[w].pc = "threw" \/ visit'[w].pc = "returned"))
    BY DEF SeesPaid, SeesForRecovery, EndVisit, Ended, ChangeOrderly, VisitKept, mintVars, IInv, Shapes
<1>2. PICK t \in Transfer : t = visit[w].tx
    BY <1>1 DEF IInv, VisitKnows
<1>3. quote[t].state = "PAID" /\ visit[w].change = change[t]
    BY <1>1, <1>2 DEF IInv, VisitKnows, Paid, ChangeOrderly, VisitKept
<1>4. (change[t] \cap recovery[t] = change[t] \/ Secured(t)) /\ (Secured(t) => Secured(t)')
    BY <1>3, SecuredKept DEF ChangeOrderly, QuoteKept, Kept
<1>5. CASE visit'[w].pc = "unblind"
  <2>1. visit'[w].tx = t /\ visit'[w].seen = "PAID" /\ visit'[w].change = change[t] \cap recovery[t]
      BY <1>1, <1>2, <1>3, <1>5 DEF SeesPaid, SeesForRecovery, EndVisit, Ended, NoVisit, IInv, Shapes
  <2>2. visit'[w].change = change'[t] \/ Secured(t)'
      BY <1>1, <1>4, <2>1
  <2> QED
      BY <1>5, <2>1, <2>2 DEF VisitKept
<1>6. CASE visit'[w] = NoVisit
    BY <1>6 DEF VisitKept, NoVisit
<1>7. CASE visit'[w].pc \in {"threw", "returned"} /\ visit'[w] # NoVisit
  <2>1. visit'[w].seen = "PAID"
      BY <1>1, <1>7 DEF SeesPaid, SeesForRecovery, EndVisit, Ended, IInv, Shapes
  <2> QED
      BY <1>7, <2>1 DEF VisitKept
<1> QED
    BY <1>1, <1>5, <1>6, <1>7

\* The other steps of a visit, and what is done with it from outside.
LEMMA VisitActs ==
    ASSUME IInv, ChangeOrderly, Lives, NEW w \in Worker,
           \/ visit'[w] = NoVisit
           \/ /\ visit'[w].pc \notin {"act", "unblind"}
              /\ visit'[w].mode = "recover" => visit[w].mode = "recover" /\ visit'[w].seen = visit[w].seen
           \/ AskQuote(w)
           \/ JudgePaid /\ w = Queue
    PROVE  VisitKept(visit[w])'
<1>1. CASE visit'[w] = NoVisit
    BY <1>1 DEF VisitKept, NoVisit
<1>2. CASE /\ visit'[w].pc \notin {"act", "unblind"}
           /\ visit'[w].mode = "recover" => visit[w].mode = "recover" /\ visit'[w].seen = visit[w].seen
    BY <1>2 DEF VisitKept, ChangeOrderly
<1>3. CASE AskQuote(w)
  <2>1. /\ UNCHANGED <<quote, change>> /\ visit'[w].pc = "act" /\ visit'[w].tx = visit[w].tx
        /\ visit'[w].mode = visit[w].mode
        /\ visit'[w].seen = quote[visit[w].tx].state /\ visit'[w].change = change[visit[w].tx]
      BY <1>3 DEF AskQuote, IInv, Shapes, mintVars
  <2>2. visit[w].mode = "recover" => quote[visit[w].tx].state = "PAID"
      BY DEF ChangeOrderly, VisitKept, IInv, VisitKnows, Paid
  <2> QED
      BY <2>1, <2>2 DEF VisitKept
<1>4. CASE JudgePaid /\ w = Queue
  <2>1. /\ UNCHANGED <<quote, change>> /\ visit'[w].pc = "act" /\ visit'[w].tx = job.tx
        /\ visit'[w].seen = "PAID" /\ visit'[w].change = job.change
        /\ job.pc = "judge" /\ job.seen = "PAID"
      BY <1>4 DEF JudgePaid, IInv, Shapes, mintVars, NoVisit
  <2>2. job.change = change[job.tx]
      BY <2>1 DEF ChangeOrderly, JobKept
  <2> QED
      BY <2>1, <2>2 DEF VisitKept
<1> QED
    BY <1>1, <1>2, <1>3, <1>4

\* Each visit, in each step.
LEMMA VisitsKept ==
    ASSUME IInv, ChangeOrderly, Lives, \A t \in Transfer : ~RecoverByHand(t), NEW w \in Worker
    PROVE  VisitKept(visit[w])'
<1> USE DEF IInv, Shapes, mintVars
<1> DEFINE Acts ==
               \/ visit'[w] = visit[w]
               \/ visit'[w] = NoVisit
               \/ /\ visit'[w].pc \notin {"act", "unblind"}
                  /\ visit'[w].mode = "recover" => visit[w].mode = "recover" /\ visit'[w].seen = visit[w].seen
               \/ AskQuote(w) \/ SeesPaid(w) \/ SeesForRecovery(w)
               \/ JudgePaid /\ w = Queue
<1>2. ASSUME NEW t, NEW u, NEW mode \in {"refresh", "finalize"}, Enter(u, t, mode) PROVE Acts
  <2>1. EntryPc(t, mode) \in {"ask", "returned", "threw"}
      BY DEF EntryPc
  <2>2. visit'[w] = IF w = u THEN [NoVisit EXCEPT !.pc = EntryPc(t, mode), !.tx = t, !.mode = mode] ELSE visit[w]
      BY <1>2 DEF Enter
  <2>3. [NoVisit EXCEPT !.pc = EntryPc(t, mode), !.tx = t, !.mode = mode].pc = EntryPc(t, mode)
        /\ [NoVisit EXCEPT !.pc = EntryPc(t, mode), !.tx = t, !.mode = mode].mode = mode
      BY DEF NoVisit
  <2> QED
      BY <2>1, <2>2, <2>3
<1>3. ASSUME NEW u \in Worker, NEW outcome \in {"returned", "threw"}, EndVisit(u, outcome) PROVE Acts
    BY <1>3 DEF EndVisit, Ended
<1>4. ASSUME NEW u \in Worker, NEW pc \in {"release", "revert"}, GoOn(u, pc) PROVE Acts
    BY <1>4 DEF GoOn
<1>5. ASSUME JobRuns PROVE Acts
    BY <1>5 DEF JobRuns, Lock, Prepared, Execute, SettlePaid, SettlePending, SettleUnpaid, Fail, Rescued, OnchainChecked
<1>6. ASSUME SyncRuns PROVE Acts
  <2>1. ASSUME Dispatched \/ GoneRefreshed PROVE Acts
      BY <2>1 DEF Dispatched, GoneRefreshed
  <2>2. ASSUME \E t \in Tx : Dispatch(t) \/ RefreshGone(t) PROVE Acts
      BY <2>2, <1>2 DEF Dispatch, RefreshGone
  <2> QED
      BY <1>6, <2>1, <2>2 DEF SyncRuns, Register, Unregister, Synced, SettleShort, SkipSettled
<1>7. ASSUME VisitRuns PROVE Acts
    BY <1>7, <1>3, <1>4 DEF VisitRuns, ReleaseFailed, MarkReverted, SettleVisit
<1>8. ASSUME JobResumes PROVE Acts
    BY <1>8 DEF JobResumes, Select, CommitSwap, Submit, TakeAnswer, TakeError, Recheck, JudgePaid, JudgePending,
       JudgeUnpaid, NestedDone
<1>9. ASSUME SyncResumes \/ MintSteps \/ NetworkSteps PROVE Acts
    BY <1>9 DEF SyncResumes, Check, WriteOff, MarkPending, MintSteps, NetworkSteps, MintSwaps, TakeMelt, RefuseMelt,
       AnswerMelt, Broadcast, PaymentSucceeds, PaymentFails
<1>10. ASSUME VisitResumes PROVE Acts
  <2>1. ASSUME NEW u \in Worker, Unblind(u) PROVE Acts
    <3>1. EndVisit(u, "returned") \/ \E C : visit' = [visit EXCEPT ![u].pc = "settle", ![u].change = C]
        BY <2>1 DEF Unblind
    <3> QED
        BY <1>3, <3>1
  <2>2. ASSUME NEW u \in Worker, SeesUnpaid(u) PROVE Acts
      BY <2>2, <1>3, <1>4 DEF SeesUnpaid
  <2>3. ASSUME NEW u \in Worker, AskQuote(u) \/ SeesPaid(u) PROVE Acts
      BY <2>3 DEF AskQuote, SeesPaid
  <2>4. ASSUME NEW u \in Worker, SeesForRecovery(u) PROVE Acts
    <3>1. u # w => visit'[w] = visit[w]
        BY <2>4 DEF SeesForRecovery, EndVisit
    <3> QED
        BY <2>4, <3>1
  <2> QED
      BY <1>10, <2>1, <2>2, <2>3, <2>4 DEF VisitResumes
<1>11. ASSUME Failures PROVE Acts
  <2>1. ASSUME NEW u \in Worker, UnblindFails(u) PROVE Acts
    <3>1. EndVisit(u, "returned") \/ \E C : visit' = [visit EXCEPT ![u].pc = "settle", ![u].change = C]
        BY <2>1 DEF UnblindFails
    <3> QED
        BY <1>3, <3>1
  <2>2. ASSUME NEW u \in Worker, AskFails(u) PROVE Acts
      BY <2>2, <1>3 DEF AskFails
  <2> QED
      BY <1>11, <2>1, <2>2 DEF Failures, SwapFails, LoseAnswer, RecheckFails, CheckFails
<1>12. ASSUME Starts PROVE Acts
    BY <1>12, <1>2 DEF Starts, StartTransfer, CheckOnchain, MonitorRefreshes, ExpireTransfer, ReloadTransfer, SyncAll
<1>13. Acts
    BY <1>5, <1>6, <1>7, <1>8, <1>9, <1>10, <1>11, <1>12 DEF Lives, Running, Resuming
<1> QED
    BY <1>13, VisitStandsKept, VisitActs, CaptureKept

\* While the visit of the queue is about to settle the sync does not start another.
LEMMA QueueAloneKept == ASSUME IInv, QueueAlone, Lives PROVE QueueAlone'
<1> SUFFICES ASSUME visit'[Queue].pc = "settle" PROVE sync'.pc \notin {"settle", "gone", "refresh"}
    BY DEF QueueAlone
<1>0. Queue \in Worker
    BY DEF Queue, Worker
<1> USE DEF IInv, Shapes, queueVars
<1>1. CASE visit[Queue].pc = "settle"
  <2>1. Running /\ sync.pc \notin {"settle", "gone", "refresh"}
      BY <1>0, <1>1 DEF Lives, AtAwait, QueueAlone
  <2>2. JobRuns \/ VisitRuns => UNCHANGED sync
      BY DEF JobRuns, VisitRuns, Lock, Prepared, Execute, SettlePaid, SettlePending, SettleUnpaid, Fail, Rescued,
         OnchainChecked, ReleaseFailed, MarkReverted, SettleVisit
  <2>3. ~SyncRuns
      BY <1>1, <2>1 DEF SyncRuns, Dispatched, Register, Unregister, GoneRefreshed, Synced, SettleShort, SkipSettled,
         Dispatch, RefreshGone
  <2> QED
      BY <2>1, <2>2, <2>3 DEF Running
<1>2. CASE visit[Queue].pc # "settle"
  <2>1. (\E w \in Worker : Unblind(w) \/ UnblindFails(w)) => UNCHANGED sync
      BY DEF Unblind, UnblindFails
  <2>2. ASSUME NEW t, NEW u, NEW mode, Enter(u, t, mode) PROVE FALSE
    <3>1. EntryPc(t, mode) # "settle"
        BY DEF EntryPc
    <3>2. [NoVisit EXCEPT !.pc = EntryPc(t, mode), !.tx = t, !.mode = mode].pc = EntryPc(t, mode)
        BY DEF NoVisit
    <3> QED
        BY <1>0, <1>2, <2>2, <3>1, <3>2 DEF Enter
  <2>3. ASSUME NEW u \in Worker, NEW o \in {"returned", "threw"}, EndVisit(u, o) PROVE FALSE
      BY <1>0, <1>2, <2>3 DEF EndVisit, Ended, NoVisit
  <2>4. ASSUME NEW u \in Worker, NEW pc \in {"release", "revert"}, GoOn(u, pc) PROVE FALSE
      BY <1>0, <1>2, <2>4 DEF GoOn
  <2>5. ASSUME UNCHANGED visit \/ visit' = [visit EXCEPT ![Queue] = NoVisit] PROVE FALSE
      BY <1>0, <1>2, <2>5 DEF NoVisit
  <2>6. ~Running
    <3>1. ~JobRuns
        BY <2>5 DEF JobRuns, Lock, Prepared, Execute, SettlePaid, SettlePending, SettleUnpaid, Fail, Rescued,
           OnchainChecked
    <3>2. ~SyncRuns
        BY <2>2, <2>5 DEF SyncRuns, Dispatched, Register, Unregister, GoneRefreshed, Synced, SettleShort,
           SkipSettled, Dispatch, RefreshGone
    <3>3. ~VisitRuns
        BY <2>3, <2>4 DEF VisitRuns, ReleaseFailed, MarkReverted, SettleVisit
    <3> QED
        BY <3>1, <3>2, <3>3 DEF Running
  <2>7. Resuming \/ Failures => \E w \in Worker : Unblind(w) \/ UnblindFails(w)
    <3>1. ~JobResumes /\ ~SyncResumes
      <4>1. ~JudgePaid
          BY <1>0, <1>2 DEF JudgePaid, NoVisit
      <4> QED
          BY <2>5, <4>1 DEF JobResumes, SyncResumes, Select, CommitSwap, Submit, TakeAnswer, TakeError, Recheck,
             JudgePending, JudgeUnpaid, NestedDone, Check, WriteOff, MarkPending
    <3>2. ASSUME NEW w \in Worker, AskQuote(w) \/ SeesPaid(w) \/ SeesUnpaid(w) \/ SeesForRecovery(w) PROVE FALSE
      <4>1. CASE AskQuote(w) \/ SeesPaid(w)
          BY ZenonT(30), <1>0, <1>2, <4>1 DEF AskQuote, SeesPaid
      <4>2. CASE SeesUnpaid(w)
          BY <2>3, <2>4, <4>2 DEF SeesUnpaid
      <4>3. CASE SeesForRecovery(w)
        <5>1. \/ EndVisit(w, "threw") \/ EndVisit(w, "returned")
              \/ \E C : visit' = [visit EXCEPT ![w].pc = "unblind", ![w].change = C]
            BY <4>3 DEF SeesForRecovery
        <5> QED
            BY <1>0, <1>2, <2>3, <5>1
      <4> QED
          BY <3>2, <4>1, <4>2, <4>3
    <3>3. ~(SwapFails \/ LoseAnswer \/ RecheckFails \/ CheckFails \/ \E w \in Worker : AskFails(w))
        BY <2>3, <2>5 DEF SwapFails, LoseAnswer, RecheckFails, CheckFails, AskFails
    <3> QED
        BY <3>1, <3>2, <3>3 DEF Resuming, VisitResumes, Failures
  <2>8. ~Starts /\ ~MintSteps /\ ~NetworkSteps
      BY <2>2, <2>5 DEF Starts, MintSteps, NetworkSteps, StartTransfer, CheckOnchain, RecoverByHand, MonitorRefreshes, ExpireTransfer, ReloadTransfer,
         SyncAll, MintSwaps, TakeMelt, RefuseMelt, AnswerMelt, Broadcast, PaymentSucceeds, PaymentFails
  <2>9. AtAwait /\ UNCHANGED sync
      BY <2>1, <2>6, <2>7, <2>8 DEF Lives
  <2> QED
      BY <2>9 DEF AtAwait
<1> QED
    BY <1>1, <1>2

\* The task, in each step.
LEMMA TaskKept == ASSUME IInv, ChangeOrderly, Lives PROVE JobKept'
<1> USE DEF queueVars, mintVars, IInv, Shapes
<1>1. ASSUME UNCHANGED job PROVE JobKept'
  <2>1. CASE Submit
      BY <2>1, JobActs
  <2>2. CASE ~Submit
      BY <1>1, <2>2, RowsStand, JobStands DEF JobKnows
  <2> QED
      BY <2>1, <2>2
<1>2. CASE JobRuns
  <2>1. CASE Lock \/ Prepared \/ Execute
    <3>1. /\ UNCHANGED <<quote, change, net, recovery>> /\ job'.tx = job.tx
          /\ job.pc \in {"select", "swap", "lock", "locked", "prepared"}
          /\ job'.pc \in {"swap", "lock", "locked", "prepared", "submit"}
        BY <2>1 DEF Lock, Prepared, Execute
    <3> QED
        BY <2>1, <3>1, JobStands DEF Lock, Prepared, Execute, Submit
  <2>2. CASE SettlePaid \/ SettlePending \/ Fail \/ OnchainChecked
      BY <2>2, JobActs DEF SettlePaid, SettlePending, Fail, OnchainChecked
  <2>3. CASE SettleUnpaid \/ Rescued
      BY <2>3, JobActs DEF SettleUnpaid, Rescued
  <2> QED
      BY <1>2, <2>1, <2>2, <2>3 DEF JobRuns
<1>3. CASE SyncRuns
    BY <1>3, <1>1 DEF SyncRuns, Dispatched, Register, Unregister, GoneRefreshed, Synced, SettleShort, SkipSettled,
       Dispatch, RefreshGone
<1>4. CASE VisitRuns
    BY <1>4, <1>1 DEF VisitRuns, ReleaseFailed, MarkReverted, SettleVisit
<1>5. CASE JobResumes
  <2>1. CASE Select \/ CommitSwap
    <3>1. /\ UNCHANGED <<quote, change, net, recovery>> /\ job'.tx = job.tx
          /\ job.pc \in {"select", "swap", "lock", "locked", "prepared"}
          /\ job'.pc \in {"swap", "lock", "locked", "prepared", "submit"}
        BY <2>1 DEF Select, CommitSwap
    <3> QED
        BY <2>1, <3>1, JobStands DEF Select, CommitSwap, Submit
  <2>2. CASE Submit \/ TakeAnswer \/ TakeError \/ Recheck
      BY <2>2, JobActs
  <2>3. CASE JudgePaid \/ JudgePending \/ JudgeUnpaid \/ NestedDone
    <3>1. job'.pc \in {"rescue", "fail", "nested", "nestedtwice"} /\ job.pc # "idle" /\ job'.tx = job.tx
        BY <2>3 DEF JudgePaid, JudgePending, JudgeUnpaid, NestedDone
    <3> QED
        BY <3>1, JobActs
  <2> QED
      BY <1>5, <2>1, <2>2, <2>3 DEF JobResumes
<1>6. CASE SyncResumes \/ VisitResumes
    BY <1>6, <1>1 DEF SyncResumes, Check, WriteOff, MarkPending, VisitResumes, AskQuote, SeesPaid, SeesUnpaid,
       SeesForRecovery, Unblind
<1>7. CASE Failures
  <2>1. CASE SwapFails
    <3>1. /\ UNCHANGED <<quote, change, net, recovery>> /\ job'.tx = job.tx /\ job.pc = "swap" /\ job'.pc = "lock"
        BY <2>1 DEF SwapFails
    <3> QED
        BY <2>1, <3>1, JobStands DEF SwapFails, Submit
  <2>2. CASE LoseAnswer \/ RecheckFails
      BY <2>2, JobActs DEF LoseAnswer, RecheckFails
  <2> QED
      BY <1>7, <2>1, <2>2, <1>1 DEF Failures, CheckFails, AskFails, UnblindFails
<1>8. CASE Starts
    BY <1>8, <1>1, JobActs DEF Starts, RecoverByHand, MonitorRefreshes, ExpireTransfer, ReloadTransfer, SyncAll
<1>9. CASE MintSteps
  <2>1. CASE MintSwaps
    <3>1. /\ UNCHANGED <<quote, change, net, recovery>> /\ job'.tx = job.tx /\ job.pc = "swap" /\ job'.pc = "swap"
        BY <2>1 DEF MintSwaps
    <3> QED
        BY <2>1, <3>1, JobStands DEF MintSwaps, Submit
  <2> QED
      BY <1>9, <2>1, <1>1, JobActs DEF MintSteps, TakeMelt
<1>10. CASE NetworkSteps
    BY <1>10, <1>1 DEF NetworkSteps, Broadcast, PaymentSucceeds, PaymentFails
<1> QED
    BY <1>2, <1>3, <1>4, <1>5, <1>6, <1>7, <1>8, <1>9, <1>10 DEF Lives, Running, Resuming

\* The tables keep their domains, and nobody dies.
LEMMA TablesKept ==
    ASSUME IInv, ChangeOrderly, Lives
    PROVE  phase' = "up" /\ DOMAIN change' = Transfer /\ DOMAIN recovery' = Transfer
<1> USE DEF ChangeOrderly, mintVars
<1>1. CASE Running
    BY <1>1 DEF Running, JobRuns, SyncRuns, VisitRuns, Lock, Prepared, Execute, SettlePaid, SettlePending,
       SettleUnpaid, Fail, Rescued, OnchainChecked, Dispatched, Register, Unregister, GoneRefreshed, Synced,
       SettleShort, SkipSettled, Dispatch, RefreshGone, ReleaseFailed, MarkReverted, SettleVisit
<1>2. CASE Resuming
    BY <1>2 DEF Resuming, JobResumes, SyncResumes, VisitResumes, Select, CommitSwap, Submit, TakeAnswer,
       TakeError, Recheck, JudgePaid, JudgePending, JudgeUnpaid, NestedDone, Check, WriteOff, MarkPending,
       AskQuote, SeesPaid, SeesUnpaid, SeesForRecovery, Unblind
<1>3. CASE Failures
    BY <1>3 DEF Failures, SwapFails, LoseAnswer, RecheckFails, CheckFails, AskFails, UnblindFails
<1>4. CASE Starts
    BY <1>4 DEF Starts, StartTransfer, CheckOnchain, RecoverByHand, MonitorRefreshes, ExpireTransfer, ReloadTransfer, SyncAll
<1>5. CASE MintSteps \/ NetworkSteps
    BY <1>5 DEF MintSteps, NetworkSteps, MintSwaps, TakeMelt, RefuseMelt, AnswerMelt,
       Broadcast, PaymentSucceeds, PaymentFails, SignChange
<1> QED
    BY <1>1, <1>2, <1>3, <1>4, <1>5 DEF Lives

CInv == faults \in Seq(Mishap) /\ ChangeOrderlyIfLive

\* The order of the change is kept, also where calls are lost.
LEMMA ChangeStep == IInv /\ CInv /\ [Next]_vars => CInv'
<1> SUFFICES ASSUME IInv, CInv, [Next]_vars PROVE CInv'
    OBVIOUS
<1> DEFINE kinds == {"signed", "timeout"}
<1>1. faults \in Seq(Mishap) /\ (OnlyMishaps(kinds) => ChangeOrderly)
    BY DEF CInv, ChangeOrderlyIfLive
<1>2. CASE UNCHANGED vars
  <2>1. UNCHANGED <<disk, mem, status, recovery, job, sync, visit, phase, quote, change, net, faults>>
      BY <1>2 DEF vars, storeVars, transferVars, mintVars, queueVars
  <2> QED
      BY <1>1, <2>1 DEF CInv, ChangeOrderlyIfLive, OnlyMishaps, ChangeOrderly, StoreShaped, RowShaped, NetKept, JobKept,
         QuoteKept, Kept, Secured, Coming, VisitKept, Fresh, NoRequest
<1>3. CASE Next
  <2>1. faults' \in Seq(Mishap) /\ (OnlyMishaps(kinds)' => OnlyMishaps(kinds))
      BY <1>1, <1>3, RecordGrows, Suffered, FaultsStand
  <2>2. ASSUME OnlyMishaps(kinds)' PROVE ChangeOrderly'
    <3>1. ChangeOrderly
        BY <1>1, <2>1, <2>2
    <3>2. \A kind : Suffer(kind) => kind \in kinds
        BY <1>1, <2>2, Suffered
    <3>3. ~Crash /\ \A t \in Transfer : ~RecoverByHand(t)
        BY <3>2 DEF Crash, RecoverByHand
    <3>4. phase = "up" /\ StoreShaped /\ RowShaped /\ QueueAlone
        BY <3>1 DEF ChangeOrderly, QueueAlone
    <3>5. Lives
        BY <1>3, <3>3, <3>4 DEF Next, Lives, Restart, Load, Recovered, RecoverOrphan
    <3>6. StoreShaped' /\ RowShaped' /\ QueueAlone' /\ JobKept' /\ NetKept'
        BY <3>1, <3>4, <3>5, StoreKept, RowKept, QueueAloneKept, TaskKept, NetAndQuotesKept
    <3>7. phase' = "up" /\ DOMAIN change' = Transfer /\ DOMAIN recovery' = Transfer
        BY <3>1, <3>5, TablesKept
    <3>8. \A t \in Transfer : QuoteKept(t)' /\ Kept(t)'
        BY <3>1, <3>5, NetAndQuotesKept, AllKept
    <3>9. \A w \in Worker : VisitKept(visit[w])'
        BY <3>1, <3>3, <3>5, VisitsKept
    <3> QED
        BY <3>6, <3>7, <3>8, <3>9 DEF ChangeOrderly, QueueAlone
  <2> QED
      BY <2>1, <2>2 DEF CInv, ChangeOrderlyIfLive
<1> QED
    BY <1>2, <1>3

\* There is no change at the start.
LEMMA ChangeInit == Init => CInv
<1> SUFFICES ASSUME Init PROVE faults \in Seq(Mishap) /\ ChangeOrderly
    BY DEF CInv, ChangeOrderlyIfLive
<1>1. StoreShaped
  <2> SUFFICES ASSUME NEW p \in Proof
               PROVE  /\ disk[p] = Held(disk[p].state, disk[p].tx) /\ mem[p] = Held(mem[p].state, mem[p].tx)
                      /\ mem[p] # Absent => disk[p] # Absent
      BY DEF StoreShaped
  <2>1. mem[p] = disk[p] /\ disk[p] = IF p \in Base THEN Held("UNSPENT", Genesis) ELSE Absent
      BY DEF Init
  <2>2. PICK s, t : disk[p] = Held(s, t)
      BY <2>1 DEF Absent
  <2> QED
      BY <2>1, <2>2, HeldIsShaped
<1>2. \A t \in Transfer : QuoteKept(t) /\ Kept(t)
    BY DEF Init, QuoteKept, Kept, Fresh, NoRequest, Answers
<1>3. \A w \in Worker : VisitKept(visit[w]) /\ visit[w].pc = "none"
    BY DEF Init, VisitKept, NoVisit
<1>4. NetKept /\ JobKept /\ RowShaped
    BY DEF Init, NetKept, JobKept, RowShaped, IdleJob
<1>5. Queue \in Worker
    BY DEF Queue, Worker
<1> QED
    BY <1>1, <1>2, <1>3, <1>4, <1>5 DEF Init, ChangeOrderly

\* WalletStore.payLightningMelt: "the change can always be recovered".  Also where calls are lost, the
\* change of a completed transfer is in the wallet at rest, or its blank outputs are in melt_recovery.
THEOREM ChangeIsKept == Spec => []ChangeKept
<1>1. IInv /\ CInv => ChangeKept
  <2> SUFFICES ASSUME IInv, ChangeOrderly, Quiet, NEW t \in Transfer, status[t] = "COMPLETED"
               PROVE  change[t] \subseteq recovery[t] \/ \A p \in change[t] : disk[p] # Absent
      BY DEF CInv, ChangeOrderlyIfLive, ChangeKept
  <2>1. quote[t].state = "PAID" /\ change[t] \subseteq quote[t].blank /\ Kept(t)
      BY DEF IInv, CompletedOnlyIfPaid, ChangeOrderly, QuoteKept
  <2>2. \A p : ~Coming(p, t)
      BY DEF Quiet, Coming, NoVisit, IdleJob
  <2> QED
      BY <2>1, <2>2 DEF Kept, Secured
<1> QED
    BY <1>1, InitStep, NextStep, ChangeInit, ChangeStep, PTL DEF Spec

------------------------------------------------------------------------------
(* What holds in every state, whatever is lost and whoever dies.           *)

\* A request for t is under way, or the task may still make one.
Requested(t) == \E q \in net : q.tx = t
Pursued(t) == Requested(t) \/ (job.tx = t /\ job.pc \in Holding \cup {"select"})
Asking == {"select", "swap", "lock", "locked", "prepared", "submit"}
Refusals == {"signed", "spent", "taken"}
WithRow == Holding \ {"lock"}
Rec == [state : ProofState, tx : Tx]

\* Exactly one worker runs at a time.
JobHot == job.pc \in {"lock", "locked", "prepared", "settle", "fail"}
SyncHot == sync.pc \in {"settle", "gone", "refresh"}
VisitHot(w) == visit[w].pc \in {"release", "revert", "settle", "returned", "threw"}

OneRuns ==
    /\ JobHot => ~SyncHot /\ \A w \in Worker : ~VisitHot(w)
    /\ SyncHot => \A w \in Worker : ~VisitHot(w)
    /\ \A v, w \in Worker : VisitHot(v) /\ VisitHot(w) => v = w

\* Rows of the store are proofs of a known state and owner; a reservation remembers spendable ecash.
StoreTrue ==
    /\ \A p \in Proof : /\ disk[p] \in Rec \cup {Absent} /\ mem[p] \in Rec \cup {Absent}
                        /\ mem[p] # Absent => disk[p] # Absent
    /\ \A r \in rows : \A p \in DOMAIN r.locked : r.locked[p] \in [state : {"UNSPENT"}, tx : Tx]
    /\ job.pc \in WithRow => /\ DOMAIN job.row.locked = job.inputs
                             /\ \A p \in job.inputs : job.row.locked[p] \in [state : {"UNSPENT"}, tx : Tx]

\* Where the task is says what it carries.
TaskTrue ==
    /\ job.pc \in Holding \cup {"idle", "checking", "select", "fail", "rescue", "nested", "nestedtwice"}
    /\ job.inputs \in SUBSET Proof
    /\ job.pc = "idle" => job = IdleJob
    /\ job.pc # "idle" => status[job.tx] # "none"
    /\ job.pc = "select" => job.answer = "none"
    /\ job.pc = "swap" => job.answer \in {"none", "swapped"}
    /\ job.pc = "wait" => job.answer \in Answers \cup Refusals \cup {"none"}
    /\ job.pc = "settle" => job.answer \in Answers
    /\ job.pc \in {"recheck", "judge"} => job.answer \in Refusals \cup {"lost"}
    /\ job.pc = "judge" => job.seen \in Answers
    /\ phase # "up" => job = IdleJob /\ sync = IdleSync /\ \A w \in Worker : visit[w] = NoVisit

\* So it does of the sync,
SyncTrue ==
    /\ DOMAIN sync = {"pc", "from", "batch", "spent", "pend", "todo", "short", "ids", "at"}
    /\ sync.pc = "idle" => sync = IdleSync
    /\ sync.pc # "idle" => job.pc \in {"idle", "nested", "nestedtwice"}
    /\ sync.from \in {"PENDING", "UNSPENT"}
    /\ sync.batch \in SUBSET Proof
    /\ sync.spent \subseteq sync.batch \cap mintSpent
    /\ sync.pend \subseteq sync.batch \ sync.spent

\* and of a visit.
VisitTrue(v) ==
    /\ v.pc = "none" => v = NoVisit
    /\ v.pc = "act" => v.seen \in Answers
    /\ v.pending \in SUBSET Proof
    /\ v.mode = "recover" => v.pending = {} /\ v.pc \notin {"release", "revert"}
    /\ v.pc \in {"release", "revert"} => v.seen = "UNPAID"

\* The mint's books: a standing melt has taken its ecash for itself, and spends all of it or none.
MintTrue ==
    /\ DOMAIN change = Transfer
    /\ mintSpent \subseteq Proof
    /\ \A t \in Transfer :
        /\ quote[t].state \in Answers /\ quote[t].inputs \in SUBSET Proof
        /\ Standing(t) => Taken(t)
        /\ quote[t].blank \subseteq Blanks(t) /\ change[t] \subseteq Blanks(t)
        /\ change[t] # {} => Taken(t)
        /\ t \in Bolt /\ change[t] # {} => quote[t].state = "PAID"
        /\ Standing(t) /\ quote[t].inputs \cap mintSpent # {} => quote[t].inputs \subseteq mintSpent
        /\ t \in Bolt /\ Standing(t) /\ quote[t].inputs \cap mintSpent # {} => quote[t].state = "PAID"
        /\ quote[t].state = "PAID" => quote[t].inputs \subseteq mintSpent
    /\ \A t, u \in Transfer : Standing(t) /\ Standing(u) /\ t # u => quote[t].inputs \cap quote[u].inputs = {}

\* There is one request of a transfer at a time, and what the task knows of its outcome is so.
RequestsTrue ==
    /\ net \subseteq [tx : Transfer, inputs : SUBSET Proof, blank : SUBSET Proof]
    /\ \A q, r \in net : q.tx = r.tx => q = r
    /\ \A q \in net : ~Taken(q.tx) /\ q.blank \subseteq Blanks(q.tx) /\ q.inputs # {} /\ status[q.tx] # "none"
    /\ \A t \in Transfer : Taken(t) => status[t] # "none"
    /\ job.pc \in Holding => job.inputs # {}
    /\ job.pc \in Asking \cup {"nested", "nestedtwice"} => ~Taken(job.tx) /\ ~Requested(job.tx)
    /\ job.pc \in {"wait", "recheck", "judge"} /\ job.answer \in Refusals => ~Taken(job.tx) /\ ~Requested(job.tx)
    /\ job.pc \in {"wait", "settle"} /\ job.answer \in Answers => Taken(job.tx)
    /\ job.pc \in {"wait", "settle"} /\ job.answer = "UNPAID" => ~Standing(job.tx)
    /\ job.pc = "judge" /\ job.seen # "UNPAID" => Taken(job.tx)

\* Change is signed on the blanks of its transfer, and waits for its recovery nowhere else.
ChangeTrue ==
    /\ DOMAIN recovery = Transfer
    /\ \A t \in Transfer : /\ recovery[t] \subseteq Blanks(t)
                           /\ \A p \in recovery[t] : disk[p] = Absent
                           /\ ~Taken(t) => \A p \in Blanks(t) : disk[p] = Absent
    /\ job.pc # "idle" => job.change \subseteq Blanks(job.tx)
    /\ job.pc # "idle" /\ job.change # {} => Taken(job.tx)
    /\ job.pc = "wait" /\ job.answer = "PENDING" /\ job.tx \in Bolt => job.change = {}
    /\ job.pc = "settle" /\ job.change # {} => recovery[job.tx] = {}
    /\ \A w \in Worker :
        /\ visit[w].pc # "none" => visit[w].change \subseteq Blanks(visit[w].tx)
        /\ visit[w].pc # "none" /\ visit[w].change # {} => Taken(visit[w].tx)
        /\ visit[w].pc = "unblind" => \A p \in visit[w].change : disk[p] = Absent \/ mem[p] # Absent
        /\ visit[w].pc = "settle" /\ visit[w].change # {} => recovery[visit[w].tx] = {}

\* Outputs of the preemptive swap appear when it is committed; what the mint has seen is on disk.
OutputsTrue ==
    /\ \A t \in Transfer : status[t] = "none" \/ (job.tx = t /\ job.pc \in {"select", "swap"}) =>
            disk[<<t, "swap">>] = Absent /\ disk[<<t, "rest">>] = Absent
    /\ \A p \in job.inputs : disk[p] # Absent
    /\ \A p \in mintSpent \cup sync.batch : disk[p] # Absent
    /\ \A q \in net : \A p \in q.inputs : disk[p] # Absent
    /\ \A t \in Transfer : \A p \in quote[t].inputs : disk[p] # Absent
    /\ job.pc \in Holding => job.inputs \cap Blanks(job.tx) = {}

\* The parts together.
AInv == /\ OneRuns /\ StoreTrue /\ TaskTrue /\ SyncTrue /\ (\A w \in Worker : VisitTrue(visit[w]))
        /\ MintTrue /\ RequestsTrue /\ ChangeTrue /\ OutputsTrue

\* Which steps touch the task, the sync, the visits.
TaskSteps ==
    \/ JobRuns \/ JobResumes \/ SwapFails \/ LoseAnswer \/ RecheckFails \/ MintSwaps
    \/ \E t \in Transfer : StartTransfer(t) \/ CheckOnchain(t) \/ AnswerMelt(t)
    \/ \E q \in net : RefuseMelt(q)

\* Whatever the task does, it does in one of its own steps.
LEMMA JobMoves == Lives => UNCHANGED job \/ TaskSteps
<1> SUFFICES ASSUME Lives PROVE UNCHANGED job \/ TaskSteps
    OBVIOUS
<1> USE DEF TaskSteps, queueVars
<1>1. CASE Running
    BY <1>1 DEF Running, SyncRuns, VisitRuns, Dispatched, Register, Unregister, GoneRefreshed, Synced,
       SettleShort, SkipSettled, Dispatch, RefreshGone, ReleaseFailed, MarkReverted, SettleVisit
<1>2. CASE Resuming
    BY <1>2 DEF Resuming, SyncResumes, VisitResumes, Check, WriteOff, MarkPending,
       AskQuote, SeesPaid, SeesUnpaid, SeesForRecovery, Unblind
<1>3. CASE Failures
    BY <1>3 DEF Failures, CheckFails, AskFails, UnblindFails
<1>4. CASE Starts
    BY <1>4 DEF Starts, RecoverByHand, MonitorRefreshes, ExpireTransfer, ReloadTransfer, SyncAll
<1>5. CASE MintSteps \/ NetworkSteps
    BY <1>5 DEF MintSteps, NetworkSteps, TakeMelt, Broadcast, PaymentSucceeds, PaymentFails
<1> QED
    BY <1>1, <1>2, <1>3, <1>4, <1>5 DEF Lives

SyncSteps ==
    \/ SyncRuns \/ SyncResumes \/ JudgeUnpaid \/ NestedDone \/ CheckFails
    \/ \E s \in {"PENDING", "UNSPENT"} : SyncAll(s)

\* Whatever the sync does, it does in one of its own steps.
LEMMA SyncMoves == Lives => UNCHANGED sync \/ SyncSteps
<1> SUFFICES ASSUME Lives PROVE UNCHANGED sync \/ SyncSteps
    OBVIOUS
<1> USE DEF SyncSteps, queueVars
<1>1. CASE Running
    BY <1>1 DEF Running, JobRuns, VisitRuns, Lock, Prepared, Execute, SettlePaid, SettlePending, SettleUnpaid, Fail,
       Rescued, OnchainChecked, ReleaseFailed, MarkReverted, SettleVisit
<1>2. CASE Resuming
    BY <1>2 DEF Resuming, JobResumes, VisitResumes, Select, CommitSwap, Submit, TakeAnswer, TakeError, Recheck,
       JudgePaid, JudgePending, AskQuote, SeesPaid, SeesUnpaid, SeesForRecovery, Unblind
<1>3. CASE Failures
    BY <1>3 DEF Failures, SwapFails, LoseAnswer, RecheckFails, AskFails, UnblindFails
<1>4. CASE Starts
    BY <1>4 DEF Starts, StartTransfer, CheckOnchain, RecoverByHand, MonitorRefreshes, ExpireTransfer, ReloadTransfer
<1>5. CASE MintSteps \/ NetworkSteps
    BY <1>5 DEF MintSteps, NetworkSteps, MintSwaps, TakeMelt, RefuseMelt, AnswerMelt, Broadcast, PaymentSucceeds,
       PaymentFails
<1> QED
    BY <1>1, <1>2, <1>3, <1>4, <1>5 DEF Lives

\* A step of one worker leaves the visits of the others alone.
VisitSteps(w) ==
    \/ ReleaseFailed(w) \/ MarkReverted(w) \/ SettleVisit(w) \/ AskQuote(w) \/ SeesPaid(w) \/ SeesUnpaid(w)
    \/ SeesForRecovery(w) \/ Unblind(w) \/ AskFails(w) \/ UnblindFails(w)
    \/ /\ w = Queue
       /\ \/ Rescued \/ OnchainChecked \/ JudgePaid \/ Dispatched \/ GoneRefreshed
          \/ \E t \in Tx : Dispatch(t) \/ RefreshGone(t)
          \/ \E t \in Transfer : CheckOnchain(t)
    \/ w = Screen /\ \E t \in Transfer : RecoverByHand(t)
    \/ w \in Transfer /\ MonitorRefreshes(w)

\* A visit moves only in a step of its own worker.
LEMMA VisitMoves == IInv /\ Lives => \A w \in Worker : visit'[w] = visit[w] \/ VisitSteps(w)
<1> SUFFICES ASSUME IInv, Lives, NEW w \in Worker PROVE visit'[w] = visit[w] \/ VisitSteps(w)
    OBVIOUS
<1> USE DEF VisitSteps, IInv, Shapes, EndVisit, GoOn, Enter
<1>1. CASE JobRuns
    BY <1>1 DEF JobRuns, Lock, Prepared, Execute, SettlePaid, SettlePending, SettleUnpaid, Fail, Rescued, OnchainChecked
<1>2. CASE SyncRuns
    BY <1>2 DEF SyncRuns, Dispatched, Register, Unregister, GoneRefreshed, Synced, SettleShort, SkipSettled,
       Dispatch, RefreshGone
<1>3. CASE VisitRuns
    BY <1>3 DEF VisitRuns, ReleaseFailed, MarkReverted, SettleVisit
<1>4. CASE JobResumes
    BY <1>4 DEF JobResumes, Select, CommitSwap, Submit, TakeAnswer, TakeError, Recheck,
       JudgePaid, JudgePending, JudgeUnpaid, NestedDone
<1>5. CASE SyncResumes
    BY <1>5 DEF SyncResumes, Check, WriteOff, MarkPending
<1>6. CASE VisitResumes
  <2> SUFFICES ASSUME NEW v \in Worker,
                      AskQuote(v) \/ SeesPaid(v) \/ SeesUnpaid(v) \/ SeesForRecovery(v) \/ Unblind(v), v # w
               PROVE  visit'[w] = visit[w]
      BY <1>6 DEF VisitResumes
  <2> QED
      BY DEF AskQuote, SeesPaid, SeesUnpaid, SeesForRecovery, Unblind
<1>7. CASE Failures
    BY <1>7 DEF Failures, SwapFails, LoseAnswer, RecheckFails, CheckFails, AskFails, UnblindFails
<1>8. CASE Starts
    BY <1>8 DEF Starts, StartTransfer, CheckOnchain, RecoverByHand, MonitorRefreshes, ExpireTransfer, ReloadTransfer, SyncAll
<1>9. CASE MintSteps \/ NetworkSteps
    BY <1>9 DEF MintSteps, NetworkSteps, MintSwaps, TakeMelt, RefuseMelt, AnswerMelt, Broadcast, PaymentSucceeds,
       PaymentFails
<1> QED
    BY <1>1, <1>2, <1>3, <1>4, <1>5, <1>6, <1>7, <1>8, <1>9 DEF Lives, Running, Resuming

\* Which steps touch the store.
StoreSteps ==
    \/ Select \/ Lock \/ CommitSwap \/ SwapFails \/ SettlePaid \/ SettlePending \/ SettleUnpaid
    \/ JudgePaid \/ JudgePending \/ JudgeUnpaid \/ WriteOff \/ Register
    \/ \E w \in Worker : ReleaseFailed(w) \/ SettleVisit(w)
    \/ \E t \in Tx : SettleShort(t)

\* The ecash on disk, in memory and in the reservations changes only in these steps.
LEMMA StoreMoves == Lives => UNCHANGED <<disk, mem, rows>> \/ StoreSteps
<1> SUFFICES ASSUME Lives PROVE UNCHANGED <<disk, mem, rows>> \/ StoreSteps
    OBVIOUS
<1> USE DEF StoreSteps, storeVars
<1>1. CASE Running
    BY <1>1 DEF Running, JobRuns, SyncRuns, VisitRuns, Prepared, Execute, Fail, Rescued, OnchainChecked, Dispatched,
       Unregister, GoneRefreshed, Synced, SkipSettled, Dispatch, RefreshGone, MarkReverted
<1>2. CASE Resuming
    BY <1>2 DEF Resuming, JobResumes, SyncResumes, VisitResumes, Submit, TakeAnswer, TakeError, Recheck, NestedDone,
       Check, MarkPending, AskQuote, SeesPaid, SeesUnpaid, SeesForRecovery, Unblind
<1>3. CASE Failures
    BY <1>3 DEF Failures, LoseAnswer, RecheckFails, CheckFails, AskFails, UnblindFails
<1>4. CASE Starts
    BY <1>4 DEF Starts, StartTransfer, CheckOnchain, RecoverByHand, MonitorRefreshes, ExpireTransfer, ReloadTransfer, SyncAll
<1>5. CASE MintSteps \/ NetworkSteps
    BY <1>5 DEF MintSteps, NetworkSteps, MintSwaps, TakeMelt, RefuseMelt, AnswerMelt, Broadcast, PaymentSucceeds,
       PaymentFails
<1> QED
    BY <1>1, <1>2, <1>3, <1>4, <1>5 DEF Lives

------------------------------------------------------------------------------
(* One stretch of the code runs at a time.                                 *)

\* One worker runs at a time.
LEMMA OneRunsKept == ASSUME IInv, TaskTrue, SyncTrue, OneRuns, Lives PROVE OneRuns'
<1> USE DEF IInv, Shapes, mintVars, queueVars, OneRuns, JobHot, SyncHot, VisitHot
<1>0. Queue \in Worker /\ Screen \in Worker /\ Transfer \subseteq Worker
    BY TransferAssumptions DEF Queue, Screen, Worker
<1>1. CASE JobRuns
  <2>1. CASE Lock \/ Prepared \/ Execute \/ SettlePaid \/ SettlePending \/ SettleUnpaid \/ Fail
    <3>1. UNCHANGED <<sync, visit>> /\ JobHot
        BY <2>1 DEF Lock, Prepared, Execute, SettlePaid, SettlePending, SettleUnpaid, Fail
    <3> QED
        BY <3>1
  <2>2. CASE Rescued \/ OnchainChecked
    <3>1. /\ UNCHANGED sync /\ VisitHot(Queue) /\ visit'[Queue].pc = "none" /\ job'.pc \in {"idle", "fail"}
          /\ \A w \in Worker : w # Queue => visit'[w] = visit[w]
        BY <2>2, <1>0 DEF Rescued, OnchainChecked, NoVisit, IdleJob
    <3> QED
        BY <3>1, <1>0
  <2> QED
      BY <1>1, <2>1, <2>2 DEF JobRuns
<1>2. CASE SyncRuns
  <2>1. CASE Dispatched \/ GoneRefreshed
    <3>1. /\ UNCHANGED job /\ VisitHot(Queue) /\ visit'[Queue].pc = "none"
          /\ \A w \in Worker : w # Queue => visit'[w] = visit[w]
        BY <2>1, <1>0 DEF Dispatched, GoneRefreshed, NoVisit
    <3> QED
        BY <3>1, <1>0
  <2>2. CASE Register \/ Unregister \/ Synced \/ \E t \in Tx : SettleShort(t) \/ SkipSettled(t)
    <3>1. UNCHANGED <<job, visit>> /\ SyncHot
        BY <2>2 DEF Register, Unregister, Synced, SettleShort, SkipSettled
    <3> QED
        BY <3>1
  <2>3. CASE \E t \in Tx : Dispatch(t) \/ RefreshGone(t)
    <3>1. /\ UNCHANGED job /\ SyncHot /\ sync'.pc \in {"settling", "refreshing"}
          /\ \A w \in Worker : w # Queue => visit'[w] = visit[w]
        BY <2>3 DEF Dispatch, RefreshGone, Enter, SyncTrue
    <3> QED
        BY <3>1
  <2> QED
      BY <1>2, <2>1, <2>2, <2>3 DEF SyncRuns
<1>3. CASE VisitRuns
  <2>1. PICK w \in Worker : ReleaseFailed(w) \/ MarkReverted(w) \/ SettleVisit(w)
      BY <1>3 DEF VisitRuns
  <2>2. UNCHANGED <<job, sync>> /\ VisitHot(w) /\ \A v \in Worker : v # w => visit'[v] = visit[v]
      BY <2>1 DEF ReleaseFailed, MarkReverted, SettleVisit, GoOn, EndVisit
  <2> QED
      BY <2>2
<1>4. ASSUME AtAwait PROVE ~JobHot /\ ~SyncHot /\ \A w \in Worker : ~VisitHot(w)
    BY <1>4 DEF AtAwait
<1>5. CASE AtAwait /\ UNCHANGED visit /\ (UNCHANGED sync \/ sync'.pc \notin {"settle", "gone", "refresh"})
    BY <1>4, <1>5
<1>6. CASE AtAwait /\ UNCHANGED <<job, visit>>
    BY <1>4, <1>6
<1>7. ASSUME AtAwait, UNCHANGED <<job, sync>>, NEW w \in Worker, \A v \in Worker : v # w => visit'[v] = visit[v]
      PROVE  OneRuns'
    BY <1>4, <1>7
<1>8. CASE AtAwait /\ JobResumes
  <2>1. CASE JudgePaid
    <3>1. UNCHANGED sync /\ job'.pc = "rescue" /\ \A w \in Worker : w # Queue => visit'[w] = visit[w]
        BY <2>1 DEF JudgePaid
    <3>2. visit'[Queue].pc = "act"
        BY <2>1, <1>0 DEF JudgePaid, NoVisit
    <3> QED
        BY <1>4, <1>8, <3>1, <3>2
  <2>2. CASE JudgeUnpaid \/ NestedDone
    <3>1. UNCHANGED visit /\ (UNCHANGED sync \/ sync'.pc = "check")
        BY <2>2 DEF JudgeUnpaid, NestedDone, StartSync, IdleSync
    <3> QED
        BY <1>5, <1>8, <3>1
  <2>3. CASE Select \/ CommitSwap \/ Submit \/ TakeAnswer \/ TakeError \/ Recheck \/ JudgePending
    <3>1. UNCHANGED <<sync, visit>>
        BY <2>3 DEF Select, CommitSwap, Submit, TakeAnswer, TakeError, Recheck, JudgePending
    <3> QED
        BY <1>5, <1>8, <3>1
  <2> QED
      BY <1>8, <2>1, <2>2, <2>3 DEF JobResumes
<1>9. CASE AtAwait /\ SyncResumes
  <2>1. UNCHANGED <<job, visit>>
      BY <1>9 DEF SyncResumes, Check, WriteOff, MarkPending
  <2> QED
      BY <1>6, <1>9, <2>1
<1>10. CASE AtAwait /\ \E w \in Worker : AskQuote(w) \/ SeesPaid(w) \/ SeesUnpaid(w) \/ SeesForRecovery(w) \/ Unblind(w)
                                        \/ AskFails(w) \/ UnblindFails(w)
  <2>1. PICK w \in Worker : AskQuote(w) \/ SeesPaid(w) \/ SeesUnpaid(w) \/ SeesForRecovery(w) \/ Unblind(w)
                            \/ AskFails(w) \/ UnblindFails(w)
      BY <1>10
  <2>2. UNCHANGED <<job, sync>> /\ \A v \in Worker : v # w => visit'[v] = visit[v]
      BY <2>1 DEF AskQuote, SeesPaid, SeesUnpaid, SeesForRecovery, Unblind, AskFails, UnblindFails, EndVisit, GoOn
  <2> QED
      BY <1>7, <1>10, <2>2
<1>11. CASE AtAwait /\ (SwapFails \/ LoseAnswer \/ RecheckFails \/ CheckFails)
  <2>1. UNCHANGED visit /\ (UNCHANGED sync \/ sync'.pc = "idle")
      BY <1>11 DEF SwapFails, LoseAnswer, RecheckFails, CheckFails, IdleSync
  <2> QED
      BY <1>5, <1>11, <2>1
<1>12. CASE AtAwait /\ Starts
  <2>1. ASSUME NEW t \in Transfer, StartTransfer(t) PROVE OneRuns'
    <3>1. UNCHANGED <<sync, visit>>
        BY <2>1 DEF StartTransfer
    <3> QED
        BY <1>5, <1>12, <3>1
  <2>2. ASSUME NEW t \in Transfer, CheckOnchain(t) PROVE OneRuns'
    <3>1. UNCHANGED sync /\ job'.pc = "checking" /\ \A v \in Worker : v # Queue => visit'[v] = visit[v]
        BY <2>2 DEF CheckOnchain, Enter, IdleJob
    <3> QED
        BY <1>4, <1>12, <3>1
  <2>3. ASSUME NEW t \in Transfer, RecoverByHand(t) \/ MonitorRefreshes(t) PROVE OneRuns'
    <3>1. PICK w \in Worker : \A v \in Worker : v # w => visit'[v] = visit[v]
        BY <2>3, <1>0 DEF RecoverByHand, MonitorRefreshes, Enter
    <3>2. UNCHANGED <<job, sync>>
        BY <2>3 DEF RecoverByHand, MonitorRefreshes
    <3> QED
        BY <1>7, <1>12, <3>1, <3>2
  <2>4. ASSUME NEW s \in {"PENDING", "UNSPENT"}, SyncAll(s) PROVE OneRuns'
    <3>1. UNCHANGED visit /\ (UNCHANGED sync \/ sync'.pc = "check")
        BY <2>4 DEF SyncAll, StartSync, IdleSync
    <3> QED
        BY <1>5, <1>12, <3>1
  <2>5. ASSUME NEW t \in Dated, ExpireTransfer(t) \/ ReloadTransfer(t) PROVE OneRuns'
    <3>1. UNCHANGED <<sync, visit>>
        BY <2>5 DEF ExpireTransfer, ReloadTransfer
    <3> QED
        BY <1>5, <1>12, <3>1
  <2> QED
      BY <1>12, <2>1, <2>2, <2>3, <2>4, <2>5 DEF Starts
<1>13. CASE AtAwait /\ (MintSteps \/ NetworkSteps)
  <2>1. UNCHANGED <<sync, visit>>
      BY <1>13 DEF MintSteps, NetworkSteps, MintSwaps, TakeMelt, RefuseMelt, AnswerMelt, Broadcast, PaymentSucceeds, PaymentFails
  <2> QED
      BY <1>5, <1>13, <2>1
<1> QED
    BY <1>1, <1>2, <1>3, <1>8, <1>9, <1>10, <1>11, <1>12, <1>13 DEF Lives, Running, Resuming, VisitResumes, Failures

\* What the task is at.
LEMMA TaskKept2 == ASSUME IInv, TaskTrue, SyncTrue, MintTrue, Lives PROVE TaskTrue'
<1> DEFINE Shape == /\ job.pc \in Holding \cup {"idle", "checking", "select", "fail", "rescue", "nested", "nestedtwice"}
                    /\ job.inputs \in SUBSET Proof
                    /\ job.pc = "idle" => job = IdleJob
                    /\ job.pc = "select" => job.answer = "none"
                    /\ job.pc = "swap" => job.answer \in {"none", "swapped"}
                    /\ job.pc = "wait" => job.answer \in Answers \cup Refusals \cup {"none"}
                    /\ job.pc = "settle" => job.answer \in Answers
                    /\ job.pc \in {"recheck", "judge"} => job.answer \in Refusals \cup {"lost"}
                    /\ job.pc = "judge" => job.seen \in Answers
<1>1. Shape' /\ (job'.tx = job.tx \/ job' = IdleJob \/ (job = IdleJob /\ job'.tx \in Transfer /\ job'.pc \in {"select", "checking"}
                                                        /\ status'[job'.tx] # "none"))
  <2> USE DEF IInv, Shapes, JobKnows, TaskTrue, Holding, Answers, Refusals
  <2>1. CASE UNCHANGED job
      BY <2>1
  <2>2. CASE JobRuns
    <3>1. CASE Lock
        BY <3>1 DEF Lock
    <3>2. CASE Prepared \/ Execute
        BY <3>2 DEF Prepared, Execute
    <3>3. CASE SettlePaid \/ SettlePending \/ Fail \/ OnchainChecked
        BY <3>3 DEF SettlePaid, SettlePending, Fail, OnchainChecked, IdleJob
    <3>4. CASE SettleUnpaid
        BY <3>4 DEF SettleUnpaid
    <3>5. CASE Rescued
        BY <3>5 DEF Rescued
    <3> QED
        BY <2>2, <3>1, <3>2, <3>3, <3>4, <3>5 DEF JobRuns
  <2>3. CASE Select
    <3>1. PICK S : /\ S \subseteq Spendable
                   /\ LET swap == Overshoots(job.tx, S)
                          op   == IF swap THEN "transfer-swap" ELSE "transfer-melt"
                      IN  job' = [job EXCEPT !.pc = IF swap THEN "swap" ELSE "locked", !.inputs = S,
                                          !.row = RowFor(job.tx, op, S, "UNSPENT")]
        BY <2>3 DEF Select
    <3>2. S \subseteq Proof
        BY <3>1 DEF Spendable, Having
    <3> QED
        BY <2>3, <3>1, <3>2 DEF Select
  <2>4. CASE CommitSwap
    <3>1. <<job.tx, "swap">> \in Proof
        BY <2>4, TransferAssumptions DEF CommitSwap, Role
    <3> QED
        BY <2>4, <3>1 DEF CommitSwap
  <2>5. CASE Submit \/ TakeAnswer \/ TakeError \/ JudgePaid \/ JudgePending \/ JudgeUnpaid \/ NestedDone
    <3>1. CASE Submit
        BY <3>1 DEF Submit
    <3>2. CASE TakeAnswer
        BY <3>2 DEF TakeAnswer
    <3>3. CASE TakeError
        BY <3>3 DEF TakeError
    <3>4. CASE JudgePaid
        BY <3>4 DEF JudgePaid
    <3>5. CASE JudgePending
        BY <3>5 DEF JudgePending
    <3>6. CASE JudgeUnpaid
        BY <3>6 DEF JudgeUnpaid
    <3>7. CASE NestedDone
        BY <3>7 DEF NestedDone
    <3> QED
        BY <2>5, <3>1, <3>2, <3>3, <3>4, <3>5, <3>6, <3>7
  <2>6. CASE Recheck
      BY <2>6 DEF Recheck, MintTrue
  <2>7. CASE SwapFails \/ LoseAnswer \/ RecheckFails \/ MintSwaps
      BY <2>7 DEF SwapFails, LoseAnswer, RecheckFails, MintSwaps
  <2>8. ASSUME NEW t \in Transfer, StartTransfer(t) \/ CheckOnchain(t) PROVE Shape' /\ (UNCHANGED job \/
           (job = IdleJob /\ job'.tx = t /\ job'.pc \in {"select", "checking"} /\ status'[t] # "none"))
    <3>1. job = IdleJob /\ t \in Tx /\ DOMAIN status = Tx
        BY <2>8, TransferAssumptions DEF StartTransfer, CheckOnchain, Ready
    <3>2. CASE StartTransfer(t)
      <4>1. status'[t] = "DRAFT" /\ job' \in {job, [IdleJob EXCEPT !.pc = "select", !.tx = t]}
          BY <3>1, <3>2 DEF StartTransfer, SetStatus
      <4> QED
          BY <3>1, <4>1 DEF IdleJob
    <3>3. CASE CheckOnchain(t)
      <4>1. status'[t] = "PENDING" /\ job' = [IdleJob EXCEPT !.pc = "checking", !.tx = t]
          BY <3>3 DEF CheckOnchain
      <4> QED
          BY <3>1, <4>1 DEF IdleJob
    <3> QED
        BY <2>8, <3>2, <3>3
  <2>9. ASSUME NEW t \in Transfer, AnswerMelt(t) PROVE Shape' /\ job'.tx = job.tx
      BY <2>9 DEF AnswerMelt, MintTrue
  <2>10. ASSUME NEW q \in net, RefuseMelt(q) PROVE Shape' /\ job'.tx = job.tx
      BY <2>10 DEF RefuseMelt, Reply
  <2> QED
      BY <2>1, <2>2, <2>3, <2>4, <2>5, <2>6, <2>7, <2>8, <2>9, <2>10, JobMoves DEF TaskSteps, JobResumes
<1>2. job'.pc # "idle" => status'[job'.tx] # "none"
  <2>1. CASE job' = IdleJob
      BY <2>1 DEF IdleJob
  <2>2. CASE job.pc = "idle" /\ job'.tx = job.tx
    <3>1. job'.tx = NoTx
        BY <2>2 DEF TaskTrue, IdleJob
    <3>2. job'.pc # "idle" => job'.tx \in Transfer
        BY NextStep DEF Next, Lives, IInv, JobKnows
    <3> QED
        BY <3>1, <3>2, TransferAssumptions, NoTxAssumption
  <2>3. CASE job.pc # "idle" /\ job'.tx = job.tx
    <3>1. job.tx \in Transfer /\ status[job.tx] # "none"
        BY <2>3 DEF TaskTrue, IInv, JobKnows
    <3> QED
        BY <2>3, <3>1, StatusMoves
  <2> QED
      BY <1>1, <2>1, <2>2, <2>3
<1>3. phase' # "up" => job' = IdleJob /\ sync' = IdleSync /\ \A w \in Worker : visit'[w] = NoVisit
  <2>1. ASSUME phase' # "up", job = IdleJob, sync = IdleSync, \A w \in Worker : visit[w] = NoVisit, phase # "up"
        PROVE  UNCHANGED <<job, sync, visit>>
    <3>1. CASE Running
        BY <2>1, <3>1 DEF Running, JobRuns, SyncRuns, VisitRuns, Lock, Prepared, Execute, SettlePaid, SettlePending,
       SettleUnpaid, Fail, Rescued, OnchainChecked, Dispatched, Register, Unregister, GoneRefreshed, Synced,
       SettleShort, SkipSettled, Dispatch, RefreshGone, ReleaseFailed, MarkReverted, SettleVisit, IdleJob, IdleSync, NoVisit
    <3>2. CASE Resuming
      <4>1. ~JobResumes
          BY <2>1 DEF JobResumes, Select, CommitSwap, Submit, TakeAnswer,
             TakeError, Recheck, JudgePaid, JudgePending, JudgeUnpaid, NestedDone, IdleJob
      <4>2. ~SyncResumes
          BY <2>1 DEF SyncResumes, Check, WriteOff, MarkPending, IdleSync
      <4>3. ~VisitResumes
        <5> SUFFICES ASSUME NEW w \in Worker,
                            AskQuote(w) \/ SeesPaid(w) \/ SeesUnpaid(w) \/ SeesForRecovery(w) \/ Unblind(w)
                     PROVE  FALSE
            BY DEF VisitResumes
        <5>1. visit[w].pc = "none"
            BY <2>1 DEF NoVisit
        <5> QED
            BY <5>1 DEF AskQuote, SeesPaid, SeesUnpaid, SeesForRecovery, Unblind
      <4> QED
          BY <3>2, <4>1, <4>2, <4>3 DEF Resuming
    <3>3. CASE Failures
      <4>1. ~(SwapFails \/ LoseAnswer \/ RecheckFails)
          BY <2>1 DEF SwapFails, LoseAnswer, RecheckFails, IdleJob
      <4>2. ~CheckFails
          BY <2>1 DEF CheckFails, IdleSync
      <4>3. \A w \in Worker : ~AskFails(w) /\ ~UnblindFails(w)
          BY <2>1 DEF AskFails, UnblindFails, NoVisit
      <4> QED
          BY <3>3, <4>1, <4>2, <4>3 DEF Failures
    <3>4. CASE Starts
        BY <2>1, <3>4 DEF Starts, StartTransfer, CheckOnchain, RecoverByHand, MonitorRefreshes, ExpireTransfer, ReloadTransfer, SyncAll, Ready
    <3>5. CASE MintSteps \/ NetworkSteps
        BY <2>1, <3>5 DEF MintSteps, NetworkSteps, MintSwaps, TakeMelt, RefuseMelt, Reply, AnswerMelt, Broadcast, PaymentSucceeds,
           PaymentFails, IdleJob, queueVars
    <3> QED
        BY <3>1, <3>2, <3>3, <3>4, <3>5 DEF Lives
  <2>2. UNCHANGED phase
    <3>1. CASE Running
        BY <3>1 DEF Running, JobRuns, SyncRuns, VisitRuns, Lock, Prepared, Execute, SettlePaid, SettlePending,
       SettleUnpaid, Fail, Rescued, OnchainChecked, Dispatched, Register, Unregister, GoneRefreshed, Synced,
       SettleShort, SkipSettled, Dispatch, RefreshGone, ReleaseFailed, MarkReverted, SettleVisit
    <3>2. CASE Resuming
        BY <3>2 DEF Resuming, JobResumes, SyncResumes, VisitResumes, Select, CommitSwap, Submit, TakeAnswer,
       TakeError, Recheck, JudgePaid, JudgePending, JudgeUnpaid, NestedDone, Check, WriteOff, MarkPending,
       AskQuote, SeesPaid, SeesUnpaid, SeesForRecovery, Unblind
    <3>3. CASE Failures
        BY <3>3 DEF Failures, SwapFails, LoseAnswer, RecheckFails, CheckFails, AskFails, UnblindFails
    <3>4. CASE Starts
        BY <3>4 DEF Starts, StartTransfer, CheckOnchain, RecoverByHand, MonitorRefreshes, ExpireTransfer, ReloadTransfer, SyncAll
    <3>5. CASE MintSteps \/ NetworkSteps
        BY <3>5 DEF MintSteps, NetworkSteps, MintSwaps, TakeMelt, RefuseMelt, AnswerMelt, Broadcast, PaymentSucceeds,
           PaymentFails
    <3> QED
        BY <3>1, <3>2, <3>3, <3>4, <3>5 DEF Lives
  <2> QED
      BY <2>1, <2>2 DEF TaskTrue
<1> QED
    BY <1>1, <1>2, <1>3 DEF TaskTrue

------------------------------------------------------------------------------
(* The task, the sync and the visits.                                      *)

\* What is spent at the mint stays spent.
LEMMA SpentGrows == Lives => mintSpent \subseteq mintSpent'
<1> SUFFICES ASSUME Lives PROVE mintSpent \subseteq mintSpent'
    OBVIOUS
<1> USE DEF mintVars
<1>1. CASE Running
    BY <1>1 DEF Running, JobRuns, SyncRuns, VisitRuns, Lock, Prepared, Execute, SettlePaid, SettlePending,
       SettleUnpaid, Fail, Rescued, OnchainChecked, Dispatched, Register, Unregister, GoneRefreshed, Synced,
       SettleShort, SkipSettled, Dispatch, RefreshGone, ReleaseFailed, MarkReverted, SettleVisit
<1>2. CASE Resuming
    BY <1>2 DEF Resuming, JobResumes, SyncResumes, VisitResumes, Select, CommitSwap, Submit, TakeAnswer,
       TakeError, Recheck, JudgePaid, JudgePending, JudgeUnpaid, NestedDone, Check, WriteOff, MarkPending,
       AskQuote, SeesPaid, SeesUnpaid, SeesForRecovery, Unblind
<1>3. CASE Failures
    BY <1>3 DEF Failures, SwapFails, LoseAnswer, RecheckFails, CheckFails, AskFails, UnblindFails
<1>4. CASE Starts
    BY <1>4 DEF Starts, StartTransfer, CheckOnchain, RecoverByHand, MonitorRefreshes, ExpireTransfer, ReloadTransfer, SyncAll
<1>5. CASE MintSteps
    BY <1>5 DEF MintSteps, MintSwaps, TakeMelt, RefuseMelt, AnswerMelt
<1>6. CASE NetworkSteps
    BY <1>6 DEF NetworkSteps, Broadcast, PaymentSucceeds, PaymentFails
<1> QED
    BY <1>1, <1>2, <1>3, <1>4, <1>5, <1>6 DEF Lives

\* What the sync is at.
LEMMA SyncKept2 == ASSUME IInv, TaskTrue, SyncTrue, Lives PROVE SyncTrue'
<1>0. mintSpent \subseteq mintSpent'
    BY SpentGrows
<1>1. sync.pc # "idle" => UNCHANGED job \/ job'.pc \in {"idle", "nested", "nestedtwice"}
  <2> SUFFICES ASSUME sync.pc # "idle", ~UNCHANGED job PROVE job'.pc \in {"idle", "nested", "nestedtwice"}
      OBVIOUS
  <2> USE DEF SyncTrue, IInv, Shapes
  <2>1. CASE JobRuns
      BY <2>1 DEF JobRuns, Lock, Prepared, Execute, SettlePaid, SettlePending, SettleUnpaid, Fail, Rescued, OnchainChecked
  <2>2. CASE JobResumes
      BY <2>2 DEF JobResumes, Select, CommitSwap, Submit, TakeAnswer, TakeError, Recheck, JudgePaid, JudgePending,
         JudgeUnpaid, NestedDone
  <2>3. CASE SwapFails \/ LoseAnswer \/ RecheckFails \/ MintSwaps
      BY <2>3 DEF SwapFails, LoseAnswer, RecheckFails, MintSwaps
  <2>4. CASE \E t \in Transfer : StartTransfer(t) \/ CheckOnchain(t) \/ AnswerMelt(t)
      BY <2>4 DEF StartTransfer, CheckOnchain, AnswerMelt, Ready, IdleSync
  <2>5. CASE \E q \in net : RefuseMelt(q)
      BY <2>5 DEF RefuseMelt, Reply
  <2> QED
      BY <2>1, <2>2, <2>3, <2>4, <2>5, JobMoves DEF TaskSteps
<1> USE DEF SyncTrue
<1>2. CASE UNCHANGED sync /\ sync.pc # "idle"
    BY <1>0, <1>1, <1>2
<1>3. CASE UNCHANGED sync /\ sync.pc = "idle"
    BY <1>0, <1>3
<1>4. ASSUME UNCHANGED <<mintSpent, job>>, sync.pc # "idle", DOMAIN sync' = DOMAIN sync, sync'.pc # "idle",
             sync'.from = sync.from, sync'.batch = sync.batch, sync'.spent = sync.spent, sync'.pend = sync.pend
      PROVE  SyncTrue'
    BY <1>4
<1>5. ASSUME sync' = IdleSync PROVE SyncTrue'
    BY <1>5 DEF IdleSync
<1>6. ASSUME NEW S \in SUBSET Proof, NEW s \in {"PENDING", "UNSPENT"}, StartSync(S, s),
             job'.pc \in {"idle", "nested", "nestedtwice"}, sync.pc = "idle"
      PROVE  SyncTrue'
  <2>1. CASE S = {}
      BY <1>6, <2>1 DEF StartSync, IdleSync
  <2>2. CASE S # {}
    <3>1. sync' = [IdleSync EXCEPT !.pc = "check", !.from = s, !.batch = S]
        BY <1>6, <2>2 DEF StartSync
    <3> QED
        BY <1>6, <3>1 DEF IdleSync
  <2> QED
      BY <2>1, <2>2
<1>7. CASE SyncRuns
  <2>1. CASE Dispatched \/ Register \/ Unregister \/ GoneRefreshed
      BY <1>4, <2>1 DEF Dispatched, Register, Unregister, GoneRefreshed, mintVars
  <2>2. CASE Synced
      BY <1>5, <2>2 DEF Synced
  <2>3. ASSUME NEW t \in Tx, SettleShort(t) \/ SkipSettled(t) \/ Dispatch(t) \/ RefreshGone(t) PROVE SyncTrue'
      BY <1>4, <2>3 DEF SettleShort, SkipSettled, Dispatch, RefreshGone, mintVars
  <2> QED
      BY <1>7, <2>1, <2>2, <2>3 DEF SyncRuns
<1>8. CASE Check
  <2>1. sync' = [sync EXCEPT !.pc = "move", !.spent = sync.batch \cap mintSpent, !.pend = sync.batch \cap HeldAtMint]
        /\ UNCHANGED <<job, mintSpent>> /\ sync.pc = "check"
      BY <1>8 DEF Check, mintVars
  <2> QED
      BY <2>1 DEF HeldAtMint
<1>9. CASE WriteOff \/ MarkPending
    BY <1>4, <1>9 DEF WriteOff, MarkPending, mintVars
<1>10. CASE JudgeUnpaid
  <2>1. sync.pc = "idle"
      BY <1>10 DEF JudgeUnpaid
  <2>2. Having(mem, "PENDING") \in SUBSET Proof /\ job.inputs \in SUBSET Proof
      BY DEF Having, TaskTrue
  <2>3. \/ UNCHANGED sync
        \/ /\ job'.pc \in {"nested", "nestedtwice"}
           /\ StartSync(Having(mem, "PENDING"), "PENDING") \/ StartSync(job.inputs, "PENDING")
      BY <1>10 DEF JudgeUnpaid, IInv, Shapes
  <2> QED
      BY <1>3, <1>6, <2>1, <2>2, <2>3
<1>11. CASE NestedDone
  <2>1. sync.pc = "idle"
      BY <1>11 DEF NestedDone
  <2>2. Having(mem, "PENDING") \in SUBSET Proof
      BY DEF Having
  <2>3. UNCHANGED sync \/ (job'.pc \in {"nested", "nestedtwice"} /\ StartSync(Having(mem, "PENDING"), "PENDING"))
      BY <1>11 DEF NestedDone, IInv, Shapes
  <2> QED
      BY <1>3, <1>6, <2>1, <2>2, <2>3
<1>12. CASE CheckFails
    BY <1>5, <1>12 DEF CheckFails
<1>13. ASSUME NEW s \in {"PENDING", "UNSPENT"}, SyncAll(s) PROVE SyncTrue'
  <2>1. StartSync(Having(mem, s), s) /\ Having(mem, s) \in SUBSET Proof /\ job'.pc = "idle" /\ sync.pc = "idle"
      BY <1>13 DEF SyncAll, Ready, IdleJob, IdleSync, Having
  <2> QED
      BY <1>6, <1>13, <2>1
<1> QED
    BY <1>2, <1>3, <1>7, <1>8, <1>9, <1>10, <1>11, <1>12, <1>13, SyncMoves DEF SyncSteps, SyncResumes

\* What a visit is at.
LEMMA VisitKept2 == ASSUME IInv, MintTrue, \A w \in Worker : VisitTrue(visit[w]), Lives, NEW w \in Worker
                    PROVE  VisitTrue(visit'[w])
<1> USE DEF VisitTrue, IInv, Shapes
<1>0. Queue \in Worker /\ Screen \in Worker /\ Transfer \subseteq Worker
    BY TransferAssumptions DEF Queue, Screen, Worker
<1>1. CASE visit'[w] = visit[w]
    BY <1>1
<1>2. CASE visit'[w] = NoVisit
    BY <1>2 DEF NoVisit
<1>3. ASSUME NEW t, NEW mode, Enter(w, t, mode) PROVE VisitTrue(visit'[w])
  <2>1. visit'[w] = [NoVisit EXCEPT !.pc = EntryPc(t, mode), !.tx = t, !.mode = mode] /\ EntryPc(t, mode) \in {"ask", "returned", "threw"}
      BY <1>3 DEF Enter, EntryPc
  <2> QED
      BY <2>1 DEF NoVisit
<1>4. ASSUME visit[w].pc # "none", visit'[w] = [visit[w] EXCEPT !.pc = "returned"] \/ visit'[w] = [visit[w] EXCEPT !.pc = "threw"]
      PROVE VisitTrue(visit'[w])
    BY <1>4
<1>5. ASSUME visit[w].pc # "none", EndVisit(w, "returned") \/ EndVisit(w, "threw") PROVE VisitTrue(visit'[w])
    BY <1>2, <1>4, <1>5 DEF EndVisit, Ended
<1>6. CASE ReleaseFailed(w)
    BY <1>6 DEF ReleaseFailed, GoOn
<1>7. CASE MarkReverted(w) \/ SettleVisit(w) \/ AskFails(w)
    BY <1>5, <1>7 DEF MarkReverted, SettleVisit, AskFails
<1>8. CASE AskQuote(w)
    BY <1>8 DEF AskQuote, MintTrue, Answers, VisitKnows
<1>9. CASE SeesPaid(w)
    BY <1>9 DEF SeesPaid, PendingOf, Having
<1>10. CASE SeesUnpaid(w)
  <2>1. visit[w].pc = "act" /\ visit[w].mode # "recover" /\ visit[w].seen # "PAID" /\ visit[w].seen \in Answers
      BY <1>10 DEF SeesUnpaid
  <2>2. EndVisit(w, "returned") \/ EndVisit(w, "threw") \/ (GoOn(w, "release") /\ visit[w].seen = "UNPAID")
      BY <1>10, <2>1 DEF SeesUnpaid, Answers
  <2> QED
      BY <1>5, <2>1, <2>2 DEF GoOn
<1>11. CASE SeesForRecovery(w)
  <2>1. visit[w].pc = "act" /\ visit[w].mode = "recover"
      BY <1>11 DEF SeesForRecovery
  <2>2. EndVisit(w, "returned") \/ EndVisit(w, "threw")
        \/ \E C : visit' = [visit EXCEPT ![w].pc = "unblind", ![w].change = C]
      BY <1>11 DEF SeesForRecovery
  <2> QED
      BY <1>5, <2>1, <2>2
<1>12. CASE Unblind(w) \/ UnblindFails(w)
  <2>1. visit[w].pc = "unblind"
      BY <1>12 DEF Unblind, UnblindFails
  <2>2. EndVisit(w, "returned") \/ \E C : visit' = [visit EXCEPT ![w].pc = "settle", ![w].change = C]
      BY <1>12 DEF Unblind, UnblindFails
  <2> QED
      BY <1>5, <2>1, <2>2
<1>13. CASE w = Queue /\ (Rescued \/ OnchainChecked \/ Dispatched \/ GoneRefreshed)
    BY <1>2, <1>13 DEF Rescued, OnchainChecked, Dispatched, GoneRefreshed
<1>14. CASE w = Queue /\ JudgePaid
  <2>1. visit'[w] = [NoVisit EXCEPT !.pc = "act", !.tx = job.tx, !.mode = "recover", !.seen = "PAID", !.change = job.change]
      BY <1>14 DEF JudgePaid
  <2> QED
      BY <2>1 DEF NoVisit, Answers
<1>15. CASE w = Queue /\ \E t \in Tx : Dispatch(t) \/ RefreshGone(t)
    BY <1>3, <1>15 DEF Dispatch, RefreshGone
<1>16. CASE w = Queue /\ \E t \in Transfer : CheckOnchain(t)
    BY <1>3, <1>16 DEF CheckOnchain
<1>17. CASE w = Screen /\ \E t \in Transfer : RecoverByHand(t)
    BY <1>3, <1>17 DEF RecoverByHand
<1>18. CASE w \in Transfer /\ MonitorRefreshes(w)
    BY <1>3, <1>18 DEF MonitorRefreshes, ExpireTransfer, ReloadTransfer
<1> QED
    BY <1>1, <1>6, <1>7, <1>8, <1>9, <1>10, <1>11, <1>12, <1>13, <1>14, <1>15, <1>16, <1>17, <1>18, VisitMoves DEF VisitSteps

------------------------------------------------------------------------------
(* The store.                                                              *)

\* Every row in the store is a proof's, and memory has only what the disk has.
Kind(r) == r \in Rec \cup {Absent}
Kinded == \A p \in Proof : Kind(disk[p]) /\ Kind(mem[p]) /\ (mem[p] # Absent => disk[p] # Absent)

\* The records of the store.
LEMMA RecIs ==
    /\ \A s \in ProofState, t \in Tx : Held(s, t) \in Rec
    /\ \A s, t : Held(s, t).state = s /\ Held(s, t).tx = t
    /\ \A r \in Rec : r = Held(r.state, r.tx) /\ r # Absent /\ r.state \in ProofState /\ r.tx \in Tx
    /\ \A r \in Rec : \A s \in ProofState : [r EXCEPT !.state = s] = Held(s, r.tx)
    /\ Absent.state = "none" /\ Absent.tx = NoTx
BY DEF Held, Rec, Absent, ProofState

\* What each primitive does to a proof.
LEMMA ReserveDoes ==
    ASSUME Kinded, NEW t \in Tx, NEW op, NEW S, NEW s, Reserve(t, op, S, s)
    PROVE  /\ Kinded' /\ S \subseteq Live
           /\ rows' = rows \cup {RowFor(t, op, S, s)}
           /\ \A p \in Proof : /\ disk'[p] = IF p \in S THEN Held("PENDING", t) ELSE disk[p]
                               /\ mem'[p] = IF p \in S /\ mem[p].state # "SPENT" THEN Held("PENDING", t) ELSE mem[p]
<1>1. S \subseteq Live /\ rows' = rows \cup {RowFor(t, op, S, s)}
    BY DEF Reserve
<1>2. \A p \in Proof : /\ disk'[p] = IF p \in S THEN Held("PENDING", t) ELSE disk[p]
                       /\ mem'[p] = IF p \in S /\ mem[p].state # "SPENT" THEN Held("PENDING", t) ELSE mem[p]
    BY DEF Reserve
<1>3. Held("PENDING", t) \in Rec /\ Held("PENDING", t) # Absent
    BY RecIs DEF ProofState
<1>4. Kinded'
    BY <1>2, <1>3 DEF Kinded, Kind
<1> QED
    BY <1>1, <1>2, <1>4

\* A commit drops its reservation, marks its inputs SPENT and writes its outputs; memory keeps what it has as SPENT.
LEMMA CommitDoes ==
    ASSUME Kinded, NEW r, NEW S, NEW new, Commit(r, S, {}, new), \A p \in DOMAIN new : new[p] \in Rec
    PROVE  /\ Kinded' /\ rows' = rows \ {r}
           /\ \A p \in Proof :
                /\ p \in DOMAIN new => disk'[p] = new[p]
                /\ p \notin DOMAIN new => disk'[p] = IF p \in S /\ disk[p] # Absent THEN Held("SPENT", disk[p].tx) ELSE disk[p]
                /\ mem'[p] = IF p \in DOMAIN new /\ mem[p].state # "SPENT" /\ ~(p \in S /\ mem[p] # Absent) THEN new[p]
                             ELSE IF p \in S /\ mem[p] # Absent THEN Held("SPENT", mem[p].tx) ELSE mem[p]
<1> DEFINE moved(table) == Move(Move(table, S, "SPENT"), {}, "UNSPENT")
<1>1. rows' = rows \ {r}
    BY DEF Commit
<1>2. ASSUME NEW p \in Proof
      PROVE  /\ p \in DOMAIN new => disk'[p] = new[p]
             /\ p \notin DOMAIN new => disk'[p] = IF p \in S /\ disk[p] # Absent THEN Held("SPENT", disk[p].tx) ELSE disk[p]
             /\ mem'[p] = IF p \in DOMAIN new /\ mem[p].state # "SPENT" /\ ~(p \in S /\ mem[p] # Absent) THEN new[p]
                          ELSE IF p \in S /\ mem[p] # Absent THEN Held("SPENT", mem[p].tx) ELSE mem[p]
             /\ Kind(disk'[p]) /\ Kind(mem'[p]) /\ (mem'[p] # Absent => disk'[p] # Absent)
  <2>1. \A table : Kind(table[p]) =>
            moved(table)[p] = IF p \in S /\ table[p] # Absent THEN Held("SPENT", table[p].tx) ELSE table[p]
      BY <1>2, RecIs DEF Move, Kind, ProofState
  <2>2. /\ disk'[p] = IF p \in DOMAIN new THEN new[p] ELSE moved(disk)[p]
        /\ mem'[p] = IF p \in DOMAIN new /\ moved(mem)[p].state # "SPENT" THEN new[p] ELSE moved(mem)[p]
      BY <1>2 DEF Commit
  <2> HIDE DEF moved
  <2>3. Kind(disk[p]) /\ Kind(mem[p]) /\ (mem[p] # Absent => disk[p] # Absent)
      BY <1>2 DEF Kinded
  <2>4. /\ moved(disk)[p] = IF p \in S /\ disk[p] # Absent THEN Held("SPENT", disk[p].tx) ELSE disk[p]
        /\ moved(mem)[p] = IF p \in S /\ mem[p] # Absent THEN Held("SPENT", mem[p].tx) ELSE mem[p]
      BY <2>1, <2>3
  <2>5. /\ disk[p] # Absent => Held("SPENT", disk[p].tx) \in Rec
        /\ mem[p] # Absent => Held("SPENT", mem[p].tx) \in Rec
      BY <2>3, RecIs DEF Kind, ProofState
  <2>6. Absent \notin Rec /\ \A t : Held("SPENT", t).state = "SPENT"
      BY RecIs
  <2>7. moved(mem)[p].state # "SPENT" <=> mem[p].state # "SPENT" /\ ~(p \in S /\ mem[p] # Absent)
      BY <2>4, <2>6
  <2>8. /\ p \in DOMAIN new => disk'[p] = new[p]
        /\ p \notin DOMAIN new => disk'[p] = IF p \in S /\ disk[p] # Absent THEN Held("SPENT", disk[p].tx) ELSE disk[p]
        /\ mem'[p] = IF p \in DOMAIN new /\ mem[p].state # "SPENT" /\ ~(p \in S /\ mem[p] # Absent) THEN new[p]
                     ELSE IF p \in S /\ mem[p] # Absent THEN Held("SPENT", mem[p].tx) ELSE mem[p]
      BY <2>2, <2>4, <2>7
  <2>9. Kind(disk'[p]) /\ Kind(mem'[p]) /\ (mem'[p] # Absent => disk'[p] # Absent)
      BY <2>3, <2>5, <2>6, <2>8 DEF Kind
  <2> QED
      BY <2>8, <2>9
<1> QED
    BY <1>1, <1>2 DEF Kinded

\* A rollback drops its reservation and puts back what the reservation remembers.
LEMMA RollbackDoes ==
    ASSUME Kinded, NEW r, Rollback(r), \A p \in DOMAIN r.locked : r.locked[p] \in [state : {"UNSPENT"}, tx : Tx]
    PROVE  /\ Kinded' /\ rows' = rows \ {r}
           /\ \A p \in Proof :
                /\ disk'[p] = IF p \in DOMAIN r.locked /\ disk[p] # Absent THEN r.locked[p] ELSE disk[p]
                /\ mem'[p] = IF p \in DOMAIN r.locked /\ mem[p] # Absent /\ mem[p].state # "SPENT" THEN r.locked[p] ELSE mem[p]
<1>1. rows' = rows \ {r}
    BY DEF Rollback
<1>2. \A p \in DOMAIN r.locked : /\ r.locked[p] \in Rec /\ r.locked[p].tx # NoTx /\ r.locked[p] # Absent
                                 /\ r.locked[p] = Held(r.locked[p].state, r.locked[p].tx)
    BY NoTxAssumption DEF Rec, ProofState, Absent, Held
<1>3. \A p \in Proof :
        /\ disk'[p] = IF p \in DOMAIN r.locked /\ disk[p] # Absent THEN r.locked[p] ELSE disk[p]
        /\ mem'[p] = IF p \in DOMAIN r.locked /\ mem[p] # Absent /\ mem[p].state # "SPENT" THEN r.locked[p] ELSE mem[p]
    BY <1>2 DEF Rollback
<1>4. Kinded'
    BY <1>2, <1>3 DEF Kinded, Kind
<1> QED
    BY <1>1, <1>3, <1>4

\* An unreserved write changes only the ecash it names, and leaves it to its owner.
LEMMA OverwriteDoes ==
    ASSUME Kinded, NEW S, NEW s \in ProofState, S \subseteq Live, Overwrite(S, s)
    PROVE  /\ Kinded' /\ rows' = rows
           /\ \A p \in Proof : /\ disk'[p] = IF p \in S THEN Held(s, mem[p].tx) ELSE disk[p]
                               /\ mem'[p] = IF p \in S THEN Held(s, mem[p].tx) ELSE mem[p]
<1>1. rows' = rows
    BY DEF Overwrite
<1>2. \A p \in S : mem[p] \in Rec /\ [mem[p] EXCEPT !.state = s] = Held(s, mem[p].tx) /\ Held(s, mem[p].tx) \in Rec
                   /\ Held(s, mem[p].tx) # Absent
    BY RecIs DEF Kinded, Kind, Live
<1>3. \A p \in Proof : /\ disk'[p] = IF p \in S THEN Held(s, mem[p].tx) ELSE disk[p]
                       /\ mem'[p] = IF p \in S THEN Held(s, mem[p].tx) ELSE mem[p]
    BY <1>2 DEF Overwrite
<1>4. Kinded'
    BY <1>2, <1>3 DEF Kinded, Kind
<1> QED
    BY <1>1, <1>3, <1>4

\* What commits store.
LEMMA OutputsDo ==
    /\ \A C : \A t \in Tx : /\ DOMAIN Unspent(C, t) = C
                        /\ \A p \in C : Unspent(C, t)[p] = Held("UNSPENT", t) /\ Unspent(C, t)[p] \in Rec
    /\ \A t \in Tx : /\ DOMAIN SwapOutputs(t) = {<<t, "swap">>, <<t, "rest">>}
                     /\ SwapOutputs(t)[<<t, "swap">>] = Held("PENDING", t)
                     /\ SwapOutputs(t)[<<t, "rest">>] = Held("UNSPENT", t)
                     /\ \A p \in DOMAIN SwapOutputs(t) : SwapOutputs(t)[p] \in Rec
    /\ DOMAIN <<>> = {}
<1>1. \A t \in Tx : Held("UNSPENT", t) \in Rec /\ Held("PENDING", t) \in Rec
    BY RecIs DEF ProofState
<1>2. ASSUME NEW C, NEW t \in Tx
      PROVE  DOMAIN Unspent(C, t) = C /\ \A p \in C : Unspent(C, t)[p] = Held("UNSPENT", t) /\ Unspent(C, t)[p] \in Rec
    BY <1>1 DEF Unspent
<1>3. ASSUME NEW t \in Tx
      PROVE  /\ DOMAIN SwapOutputs(t) = {<<t, "swap">>, <<t, "rest">>}
             /\ SwapOutputs(t)[<<t, "swap">>] = Held("PENDING", t)
             /\ SwapOutputs(t)[<<t, "rest">>] = Held("UNSPENT", t)
             /\ \A p \in DOMAIN SwapOutputs(t) : SwapOutputs(t)[p] \in Rec
  <2>1. <<t, "rest">> # <<t, "swap">>
      OBVIOUS
  <2> QED
      BY <1>1, <2>1 DEF SwapOutputs
<1>4. DOMAIN <<>> = {}
    OBVIOUS
<1> QED
    BY <1>2, <1>3, <1>4

\* Where proofs come from.
Appears(p) ==
    \/ CommitSwap /\ p \in {<<job.tx, "swap">>, <<job.tx, "rest">>}
    \/ (SettlePaid \/ SettlePending) /\ p \in job.change
    \/ \E w \in Worker : SettleVisit(w) /\ p \in visit[w].change

\* What is true of the reservations, and of the task's.
RowsTrue == \A r \in rows : \A p \in DOMAIN r.locked : r.locked[p] \in [state : {"UNSPENT"}, tx : Tx]
RowTrue == job.pc \in WithRow => /\ DOMAIN job.row.locked = job.inputs
                                 /\ \A p \in job.inputs : job.row.locked[p] \in [state : {"UNSPENT"}, tx : Tx]

\* What is true of the store, one part at a time.
LEMMA StoreParts == StoreTrue <=> Kinded /\ RowsTrue /\ RowTrue
BY DEF StoreTrue, Kinded, Kind, RowsTrue, RowTrue

\* The row of the task.
LEMMA RowHeld == ASSUME IInv, TaskTrue, Lives, job'.pc \in WithRow
                 PROVE  \/ Select \/ Lock
                        \/ job.pc \in WithRow /\ job'.row = job.row /\ job'.inputs = job.inputs /\ job'.tx = job.tx
<1> USE DEF IInv, Shapes, WithRow, Holding
<1>1. CASE UNCHANGED job
    BY <1>1
<1>2. CASE JobRuns
  <2>1. CASE Prepared \/ Execute
      BY <2>1 DEF Prepared, Execute
  <2>2. CASE SettlePaid \/ SettlePending \/ Fail \/ OnchainChecked
      BY <2>2 DEF SettlePaid, SettlePending, Fail, OnchainChecked, IdleJob
  <2>3. CASE SettleUnpaid \/ Rescued
      BY <2>3 DEF SettleUnpaid, Rescued
  <2> QED
      BY <1>2, <2>1, <2>2, <2>3 DEF JobRuns
<1>3. CASE Submit \/ TakeAnswer \/ Recheck \/ NestedDone
    BY <1>3 DEF Submit, TakeAnswer, Recheck, NestedDone
<1>4. CASE JobResumes
    BY ZenonT(30), <1>4, <1>3 DEF JobResumes, CommitSwap, TakeError, JudgePaid, JudgePending, JudgeUnpaid
<1>5. CASE SwapFails \/ LoseAnswer \/ RecheckFails \/ MintSwaps
    BY <1>5 DEF SwapFails, LoseAnswer, RecheckFails, MintSwaps
<1>6. CASE \E t \in Transfer : StartTransfer(t) \/ CheckOnchain(t)
  <2>1. UNCHANGED job \/ job'.pc \in {"select", "checking"}
      BY <1>6 DEF StartTransfer, CheckOnchain, IdleJob
  <2> QED
      BY <1>1, <2>1
<1>7. CASE \E t \in Transfer : AnswerMelt(t)
    BY <1>7 DEF AnswerMelt
<1>8. CASE \E q \in net : RefuseMelt(q)
    BY <1>8 DEF RefuseMelt, Reply
<1> QED
    BY <1>1, <1>2, <1>4, <1>5, <1>6, <1>7, <1>8, JobMoves DEF TaskSteps

\* A row for ecash in the wallet.
LEMMA RowForIs ==
    ASSUME Kinded, NEW t, NEW op, NEW S, S \subseteq Live
    PROVE  /\ RowFor(t, op, S, "UNSPENT").tx = t /\ RowFor(t, op, S, "UNSPENT").op = op
           /\ DOMAIN RowFor(t, op, S, "UNSPENT").locked = S
           /\ \A p \in S : /\ RowFor(t, op, S, "UNSPENT").locked[p] = Held("UNSPENT", mem[p].tx)
                           /\ RowFor(t, op, S, "UNSPENT").locked[p] \in [state : {"UNSPENT"}, tx : Tx]
<1>1. \A p \in S : mem[p].tx \in Tx
    BY RecIs DEF Kinded, Kind, Live
<1> QED
    BY <1>1 DEF RowFor, Snapshot, Held

\* The store stays well formed, no ecash ever disappears from it, and what appears is an output of the writing step.
LEMMA StoreStaysTrue ==
    ASSUME IInv, StoreTrue, TaskTrue, SyncTrue, \A w \in Worker : VisitTrue(visit[w]), Lives
    PROVE  /\ StoreTrue'
           /\ \A p \in Proof : /\ disk[p] # Absent => disk'[p] # Absent
                               /\ disk[p] = Absent => disk'[p] = Absent \/ (Appears(p) /\ mem'[p] # Absent)
                               /\ mem[p] # Absent => mem'[p] # Absent
<1> DEFINE Goal == /\ Kinded' /\ RowsTrue'
                   /\ \A p \in Proof : /\ disk[p] # Absent => disk'[p] # Absent
                                       /\ disk[p] = Absent => disk'[p] = Absent \/ (Appears(p) /\ mem'[p] # Absent)
                                       /\ mem[p] # Absent => mem'[p] # Absent
<1>0. Kinded /\ RowsTrue /\ RowTrue
    BY StoreParts
<1>a. job.pc # "idle" => job.tx \in Tx
    BY TransferAssumptions DEF IInv, JobKnows
<1>b. \A w \in Worker : visit[w].pc # "none" => visit[w].tx \in Tx
    BY TransferAssumptions DEF IInv, VisitKnows
<1>c. \A s, t : s \in ProofState => Held(s, t) # Absent
    BY DEF Held, Absent, ProofState
<1>d. \A p : \A s \in {"UNSPENT"}, t \in Tx : [state |-> s, tx |-> t] # Absent
    BY NoTxAssumption DEF Absent, Held
<1>1. ASSUME UNCHANGED <<disk, mem, rows>> PROVE Goal
    BY <1>0, <1>1 DEF Kinded, RowsTrue
<1>2. ASSUME NEW t \in Tx, NEW op, NEW S, Reserve(t, op, S, "UNSPENT") PROVE Goal
  <2>1. /\ Kinded' /\ S \subseteq Live /\ rows' = rows \cup {RowFor(t, op, S, "UNSPENT")}
        /\ \A p \in Proof : /\ disk'[p] = IF p \in S THEN Held("PENDING", t) ELSE disk[p]
                            /\ mem'[p] = IF p \in S /\ mem[p].state # "SPENT" THEN Held("PENDING", t) ELSE mem[p]
      BY <1>0, <1>2, ReserveDoes
  <2>2. RowsTrue'
      BY <1>0, <2>1, RowForIs DEF RowsTrue
  <2>3. \A p \in S : disk[p] # Absent
      BY <1>0, <2>1 DEF Live, Kinded
  <2> QED
      BY <2>1, <2>2, <2>3, <1>c DEF ProofState
<1>3. ASSUME NEW r, NEW S, NEW new, Commit(r, S, {}, new), \A p \in DOMAIN new : new[p] \in Rec,
             \A p \in DOMAIN new : Appears(p)
      PROVE  Goal
  <2>1. /\ Kinded' /\ rows' = rows \ {r}
        /\ \A p \in Proof :
             /\ p \in DOMAIN new => disk'[p] = new[p]
             /\ p \notin DOMAIN new => disk'[p] = IF p \in S /\ disk[p] # Absent THEN Held("SPENT", disk[p].tx) ELSE disk[p]
             /\ mem'[p] = IF p \in DOMAIN new /\ mem[p].state # "SPENT" /\ ~(p \in S /\ mem[p] # Absent) THEN new[p]
                             ELSE IF p \in S /\ mem[p] # Absent THEN Held("SPENT", mem[p].tx) ELSE mem[p]
      BY <1>0, <1>3, CommitDoes
  <2>4. Absent.state # "SPENT" /\ \A p \in Proof : mem[p] # Absent => disk[p] # Absent
      BY <1>0, RecIs DEF Kinded
  <2>2. \A p \in DOMAIN new : new[p] # Absent
      BY <1>3, RecIs
  <2>3. RowsTrue'
      BY <1>0, <2>1 DEF RowsTrue
  <2> QED
      BY <1>3, <2>1, <2>2, <2>3, <2>4, <1>c DEF ProofState
<1>4. ASSUME NEW r, Rollback(r), \A p \in DOMAIN r.locked : r.locked[p] \in [state : {"UNSPENT"}, tx : Tx] PROVE Goal
  <2>1. /\ Kinded' /\ rows' = rows \ {r}
        /\ \A p \in Proof : /\ disk'[p] = IF p \in DOMAIN r.locked /\ disk[p] # Absent THEN r.locked[p] ELSE disk[p]
                            /\ mem'[p] = IF p \in DOMAIN r.locked /\ mem[p] # Absent /\ mem[p].state # "SPENT" THEN r.locked[p] ELSE mem[p]
      BY <1>0, <1>4, RollbackDoes
  <2>2. \A p \in DOMAIN r.locked : r.locked[p] # Absent
      BY <1>4 DEF Absent, Held
  <2>3. RowsTrue'
      BY <1>0, <2>1 DEF RowsTrue
  <2> QED
      BY <2>1, <2>2, <2>3
<1>5. ASSUME NEW S, NEW s \in ProofState, S \subseteq Live, Overwrite(S, s) PROVE Goal
  <2>1. /\ Kinded' /\ rows' = rows
        /\ \A p \in Proof : /\ disk'[p] = IF p \in S THEN Held(s, mem[p].tx) ELSE disk[p]
                            /\ mem'[p] = IF p \in S THEN Held(s, mem[p].tx) ELSE mem[p]
      BY <1>0, <1>5, OverwriteDoes
  <2>2. \A p \in S : disk[p] # Absent
      BY <1>0, <1>5 DEF Live, Kinded
  <2>3. RowsTrue'
      BY <1>0, <2>1 DEF RowsTrue
  <2> QED
      BY <2>1, <2>2, <2>3, <1>c
<1> HIDE DEF Goal
<1>6. ASSUME job.pc \in WithRow, Rollback(job.row) PROVE Goal
    BY <1>0, <1>4, <1>6 DEF RowTrue
<1>7. ASSUME NEW r, NEW S, Commit(r, S, {}, <<>>) PROVE Goal
    BY <1>3, <1>7, OutputsDo
<1>8. ASSUME Select PROVE Goal
  <2>1. PICK op, S : Reserve(job.tx, op, S, "UNSPENT")
      BY <1>8 DEF Select
  <2> QED
      BY <1>2, <1>8, <1>a, <2>1 DEF Select
<1>9. ASSUME Lock PROVE Goal
    BY <1>2, <1>9, <1>a DEF Lock
<1>10. ASSUME CommitSwap PROVE Goal
  <2>1. Commit(job.row, job.inputs, {}, SwapOutputs(job.tx)) /\ job.tx \in Tx
      BY <1>10, <1>a DEF CommitSwap
  <2> QED
      BY <1>3, <1>10, <2>1, OutputsDo DEF Appears
<1>11. ASSUME SwapFails \/ SettleUnpaid PROVE Goal
    BY <1>6, <1>11 DEF SwapFails, SettleUnpaid, WithRow, Holding
<1>12. ASSUME SettlePaid \/ SettlePending PROVE Goal
  <2>1. PICK r, S : Commit(r, S, {}, Unspent(job.change, job.tx))
      BY <1>12 DEF SettlePaid, SettlePending
  <2>2. job.tx \in Tx
      BY <1>12, <1>a DEF SettlePaid, SettlePending
  <2>3. /\ DOMAIN Unspent(job.change, job.tx) = job.change
        /\ \A p \in job.change : Unspent(job.change, job.tx)[p] \in Rec
      BY <2>2, OutputsDo
  <2>4. \A p \in job.change : Appears(p)
      BY <1>12 DEF Appears
  <2> QED
      BY <1>3, <2>1, <2>3, <2>4
<1>13. ASSUME JudgePaid \/ JudgePending PROVE Goal
    BY <1>7, <1>13 DEF JudgePaid, JudgePending
<1>14. ASSUME JudgeUnpaid PROVE Goal
  <2>1. Commit(job.row, {}, {}, <<>>) \/ (job.pc \in WithRow /\ Rollback(job.row))
      BY <1>14 DEF JudgeUnpaid, WithRow, Holding
  <2> QED
      BY <1>6, <1>7, <2>1
<1>15. ASSUME WriteOff PROVE Goal
    BY <1>5, <1>15 DEF WriteOff, MoveToSpent, ProofState
<1>16. ASSUME Register PROVE Goal
  <2>1. UNCHANGED <<disk, mem, rows>> \/ \E S : MoveToPending(S)
      BY <1>16 DEF Register, storeVars
  <2> QED
      BY <1>1, <1>5, <2>1 DEF MoveToPending, ProofState
<1>17. ASSUME NEW w \in Worker, ReleaseFailed(w) PROVE Goal
    BY <1>5, <1>17 DEF ReleaseFailed, RevertToSpendable, ProofState
<1>18. ASSUME NEW w \in Worker, SettleVisit(w) PROVE Goal
  <2>1. PICK r, S : Commit(r, S, {}, Unspent(visit[w].change, visit[w].tx))
      BY <1>18 DEF SettleVisit
  <2>2. visit[w].tx \in Tx
      BY <1>18, <1>b DEF SettleVisit
  <2>3. /\ DOMAIN Unspent(visit[w].change, visit[w].tx) = visit[w].change
        /\ \A p \in visit[w].change : Unspent(visit[w].change, visit[w].tx)[p] \in Rec
      BY <2>2, OutputsDo
  <2>4. \A p \in visit[w].change : Appears(p)
      BY <1>18 DEF Appears
  <2> QED
      BY <1>3, <2>1, <2>3, <2>4
<1>19. ASSUME NEW t \in Tx, SettleShort(t) PROVE Goal
  <2>1. UNCHANGED <<disk, mem, rows>> \/ \E S : RevertToSpendable(S)
      BY <1>19 DEF SettleShort, storeVars
  <2> QED
      BY <1>1, <1>5, <2>1 DEF RevertToSpendable, ProofState
<1>20. Goal
    BY <1>1, <1>8, <1>9, <1>10, <1>11, <1>12, <1>13, <1>14, <1>15, <1>16, <1>17, <1>18, <1>19, StoreMoves DEF StoreSteps
<1>21. RowTrue'
  <2>1. ASSUME NEW op, NEW S, S \subseteq Live, job'.row = RowFor(job.tx, op, S, "UNSPENT"), job'.inputs = S PROVE RowTrue'
      BY <1>0, <2>1, RowForIs DEF RowTrue
  <2>2. CASE Select
    <3>1. PICK S : LET swap == Overshoots(job.tx, S)
                       op   == IF swap THEN "transfer-swap" ELSE "transfer-melt"
                   IN  /\ Reserve(job.tx, op, S, "UNSPENT")
                       /\ job' = [job EXCEPT !.pc = IF swap THEN "swap" ELSE "locked", !.inputs = S,
                                          !.row = RowFor(job.tx, op, S, "UNSPENT")]
        BY <2>2 DEF Select
    <3> DEFINE op == IF Overshoots(job.tx, S) THEN "transfer-swap" ELSE "transfer-melt"
    <3>2. job'.row = RowFor(job.tx, op, S, "UNSPENT") /\ job'.inputs = S /\ S \subseteq Live
        BY <3>1 DEF IInv, Shapes, Reserve
    <3> QED
        BY <2>1, <3>2
  <2>3. CASE Lock
    <3>1. job'.row = RowFor(job.tx, "transfer-melt", job.inputs, "UNSPENT") /\ job'.inputs = job.inputs /\ job.inputs \subseteq Live
        BY <2>3 DEF Lock, IInv, Shapes, Reserve
    <3> QED
        BY <2>1, <3>1
  <2>4. CASE job'.pc \in WithRow /\ job.pc \in WithRow /\ job'.row = job.row /\ job'.inputs = job.inputs
      BY <1>0, <2>4 DEF RowTrue
  <2> QED
      BY <2>2, <2>3, <2>4, RowHeld DEF RowTrue
<1> QED
    BY <1>20, <1>21 DEF Goal, StoreTrue, Kinded, Kind, RowsTrue, RowTrue

------------------------------------------------------------------------------
(* The mint.                                                               *)

\* What a step does at the mint.
MintDoes ==
    \/ UNCHANGED mintVars
    \/ UNCHANGED <<quote, change, mintSpent>> /\ (Submit \/ \E q \in net : net' = net \ {q} /\ RefuseMelt(q))
    \/ UNCHANGED <<quote, change, net>> /\ MintSwaps
    \/ \E q \in net : TakeMelt(q)
    \/ \E t \in Transfer : Broadcast(t) \/ PaymentSucceeds(t) \/ PaymentFails(t)

\* The mint's books change only when it answers, swaps, or hears from the network.
LEMMA MintDoesSo == Lives => MintDoes
<1> SUFFICES ASSUME Lives PROVE MintDoes
    OBVIOUS
<1> USE DEF MintDoes, mintVars
<1>1. CASE Running
    BY <1>1 DEF Running, JobRuns, SyncRuns, VisitRuns, Lock, Prepared, Execute, SettlePaid, SettlePending,
       SettleUnpaid, Fail, Rescued, OnchainChecked, Dispatched, Register, Unregister, GoneRefreshed, Synced,
       SettleShort, SkipSettled, Dispatch, RefreshGone, ReleaseFailed, MarkReverted, SettleVisit
<1>2. CASE Resuming
    BY <1>2 DEF Resuming, JobResumes, SyncResumes, VisitResumes, Select, CommitSwap, Submit, TakeAnswer,
       TakeError, Recheck, JudgePaid, JudgePending, JudgeUnpaid, NestedDone, Check, WriteOff, MarkPending,
       AskQuote, SeesPaid, SeesUnpaid, SeesForRecovery, Unblind
<1>3. CASE Failures
    BY <1>3 DEF Failures, SwapFails, LoseAnswer, RecheckFails, CheckFails, AskFails, UnblindFails
<1>4. CASE Starts
    BY <1>4 DEF Starts, StartTransfer, CheckOnchain, RecoverByHand, MonitorRefreshes, ExpireTransfer, ReloadTransfer, SyncAll
<1>5. CASE MintSteps
    BY <1>5 DEF MintSteps, MintSwaps, RefuseMelt, AnswerMelt
<1>6. CASE NetworkSteps
    BY <1>6 DEF NetworkSteps
<1> QED
    BY <1>1, <1>2, <1>3, <1>4, <1>5, <1>6 DEF Lives

\* What is free is neither spent nor part of a standing payment.
LEMMA FreeIs ==
    ASSUME MintTrue, NEW S, Free(S)
    PROVE  S \cap mintSpent = {} /\ \A t \in Transfer : Standing(t) => S \cap quote[t].inputs = {}
<1>1. S \cap mintSpent = {} /\ S \cap HeldAtMint = {}
    BY DEF Free
<1>2. ASSUME NEW t \in Transfer, Standing(t), NEW p \in S, p \in quote[t].inputs PROVE FALSE
  <2>1. quote[t].state \in {"PENDING", "PAID"}
      BY <1>2 DEF MintTrue, Answers, Standing
  <2>2. CASE quote[t].state = "PENDING"
    <3>1. p \in AtMint(t) /\ p \notin mintSpent
        BY <1>1, <1>2, <2>2 DEF AtMint
    <3>2. AtMint(t) \in {AtMint(s) : s \in Transfer}
        OBVIOUS
    <3>3. p \in HeldAtMint
        BY <3>1, <3>2 DEF HeldAtMint
    <3> QED
        BY <1>1, <3>3
  <2>3. CASE quote[t].state = "PAID"
      BY <1>1, <1>2, <2>3 DEF MintTrue
  <2> QED
      BY <2>1, <2>2, <2>3
<1> QED
    BY <1>1, <1>2

\* What the mint's steps do, field by field.
LEMMA TakeIs ==
    ASSUME IInv, MintTrue, RequestsTrue, NEW q \in net, TakeMelt(q)
    PROVE  /\ q.tx \in Transfer /\ UNCHANGED <<change, mintSpent, job, sync, visit, status, disk, mem, rows, recovery, registry, phase, faults>>
           /\ net' = net \ {q}
           /\ \A t \in Transfer : t # q.tx => quote'[t] = quote[t]
           /\ ~Standing(q.tx) /\ ~Taken(q.tx) /\ Free(q.inputs)
           /\ quote'[q.tx].state = "PENDING" /\ quote'[q.tx].inputs = q.inputs /\ quote'[q.tx].blank = q.blank
           /\ q.inputs # {} /\ q.inputs \in SUBSET Proof /\ q.blank \subseteq Blanks(q.tx)
BY DEF TakeMelt, RequestsTrue, MintTrue, IInv, Shapes, Standing, Taken, queueVars, storeVars

\* What the payment network does to a melt: it pays, fails, or spends the inputs at once, all of them together.
LEMMA NetworkIs ==
    ASSUME IInv, MintTrue, NEW t \in Transfer, Broadcast(t) \/ PaymentSucceeds(t) \/ PaymentFails(t)
    PROVE  /\ UNCHANGED <<net, job, sync, visit, status, disk, mem, rows, recovery, registry, phase, faults>>
           /\ quote[t].state = "PENDING"
           /\ \A u \in Transfer : /\ u # t => quote'[u] = quote[u] /\ change'[u] = change[u]
                                  /\ quote'[u].inputs = quote[u].inputs /\ quote'[u].blank = quote[u].blank
                                  /\ change[u] # {} => change'[u] = change[u]
           /\ change'[t] \in {change[t], {}, quote[t].blank}
           /\ \/ t \in Onchain /\ mintSpent' = mintSpent \cup quote[t].inputs /\ UNCHANGED quote
              \/ quote'[t].state = "PAID" /\ mintSpent' = mintSpent \cup quote[t].inputs
              \/ quote'[t].state = "UNPAID" /\ UNCHANGED <<mintSpent, change>> /\ quote[t].inputs \cap mintSpent = {}
           /\ DOMAIN change' = Transfer
BY DEF Broadcast, PaymentSucceeds, PaymentFails, SignChange, MintTrue, IInv, Shapes, queueVars, storeVars

\* The mint's books stay in order: two standing melts share no ecash, and PAID has spent its inputs.
LEMMA MintStaysTrue == ASSUME IInv, TaskTrue, MintTrue, RequestsTrue, Lives PROVE MintTrue'
<1>1. CASE UNCHANGED <<quote, change, mintSpent>>
    BY <1>1 DEF MintTrue, Standing, Taken
<1>2. CASE UNCHANGED <<quote, change, net>> /\ MintSwaps
  <2>1. /\ job.inputs \cap mintSpent = {} /\ mintSpent' = mintSpent \cup job.inputs /\ job.inputs \in SUBSET Proof
        /\ \A t \in Transfer : Standing(t) => job.inputs \cap quote[t].inputs = {}
      BY <1>2, FreeIs DEF MintSwaps, TaskTrue
  <2> QED
      BY <1>2, <2>1 DEF MintTrue, Standing, Taken
<1>3. ASSUME NEW q \in net, TakeMelt(q) PROVE MintTrue'
  <2>1. /\ q.inputs \cap mintSpent = {}
        /\ \A t \in Transfer : Standing(t) => q.inputs \cap quote[t].inputs = {}
      BY <1>3, FreeIs, TakeIs
  <2>2. change[q.tx] = {}
      BY <1>3, TakeIs DEF MintTrue
  <2> QED
      BY <1>3, <2>1, <2>2, TakeIs DEF MintTrue, Standing, Taken, Answers
<1>4. ASSUME NEW t \in Transfer, Broadcast(t) \/ PaymentSucceeds(t) \/ PaymentFails(t) PROVE MintTrue'
  <2> DEFINE One(u) == /\ quote[u].state \in Answers /\ quote[u].inputs \in SUBSET Proof
                       /\ Standing(u) => Taken(u)
                       /\ quote[u].blank \subseteq Blanks(u) /\ change[u] \subseteq Blanks(u)
                       /\ change[u] # {} => Taken(u)
                       /\ u \in Bolt /\ change[u] # {} => quote[u].state = "PAID"
                       /\ Standing(u) /\ quote[u].inputs \cap mintSpent # {} => quote[u].inputs \subseteq mintSpent
                       /\ u \in Bolt /\ Standing(u) /\ quote[u].inputs \cap mintSpent # {} => quote[u].state = "PAID"
                       /\ quote[u].state = "PAID" => quote[u].inputs \subseteq mintSpent
  <2>0. (\A u \in Transfer : One(u)) /\ \A u, s \in Transfer : Standing(u) /\ Standing(s) /\ u # s => quote[u].inputs \cap quote[s].inputs = {}
      BY DEF MintTrue
  <2>1. mintSpent' \subseteq Proof
      BY <1>4, NetworkIs DEF MintTrue
  <2>2. ASSUME NEW u \in Transfer, u # t PROVE One(u)'
    <3>1. Standing(u) => quote[u].inputs \cap quote[t].inputs = {}
        BY <1>4, <2>2, NetworkIs DEF MintTrue, Standing
    <3> QED
        BY <1>4, <2>0, <2>2, <3>1, NetworkIs DEF Standing, Taken
  <2>3. One(t)'
    <3>1. Standing(t) /\ Taken(t) /\ One(t)
        BY <1>4, <2>0, NetworkIs DEF Standing
    <3>2. t \in Onchain => t \notin Bolt
        BY DEF Bolt
    <3>3. CASE t \in Onchain /\ mintSpent' = mintSpent \cup quote[t].inputs /\ UNCHANGED quote
        BY <1>4, <3>1, <3>2, <3>3, NetworkIs DEF Standing, Taken
    <3>4. CASE quote'[t].state = "PAID" /\ mintSpent' = mintSpent \cup quote[t].inputs
        BY <1>4, <3>1, <3>4, NetworkIs DEF Standing, Taken, Answers
    <3>5. CASE quote'[t].state = "UNPAID" /\ UNCHANGED <<mintSpent, change>> /\ quote[t].inputs \cap mintSpent = {}
      <4>1. t \in Bolt => change[t] = {}
          BY <1>4, <3>1, NetworkIs
      <4> QED
          BY <1>4, <3>1, <3>5, <4>1, NetworkIs DEF Standing, Taken, Answers
    <3> QED
        BY <1>4, <3>3, <3>4, <3>5, NetworkIs
  <2>4. ASSUME NEW u \in Transfer, NEW s \in Transfer, Standing(u)', Standing(s)', u # s PROVE quote'[u].inputs \cap quote'[s].inputs = {}
    <3>1. Standing(u) /\ Standing(s)
        BY <1>4, <2>4, NetworkIs DEF Standing
    <3> QED
        BY <1>4, <2>0, <2>4, <3>1, NetworkIs
  <2>5. DOMAIN change' = Transfer
      BY <1>4, NetworkIs
  <2>6. \A u \in Transfer : One(u)'
      BY <2>2, <2>3
  <2> QED
      BY <2>1, <2>4, <2>5, <2>6 DEF MintTrue
<1> QED
    BY <1>1, <1>2, <1>3, <1>4, MintDoesSo DEF MintDoes, mintVars

\* What the mint has taken stays taken; a transfer it has let go is not taken again.
LEMMA MintFacts ==
    ASSUME IInv, MintTrue, RequestsTrue, Lives, NEW t \in Transfer
    PROVE  /\ Taken(t) => Taken(t)' /\ quote'[t].inputs = quote[t].inputs /\ quote'[t].blank = quote[t].blank
           /\ ~Taken(t) => \/ ~Taken(t)' /\ quote'[t] = quote[t]
                           \/ Standing(t)' /\ \E q \in net : q.tx = t /\ TakeMelt(q) /\ quote'[t].inputs = q.inputs /\ quote'[t].blank = q.blank
           /\ Taken(t) /\ ~Standing(t) => ~Standing(t)'
           /\ Standing(t)' => Standing(t) \/ ~Taken(t)
           /\ quote[t].state = "PAID" => quote'[t].state = "PAID"
           /\ Requested(t)' => Requested(t) \/ (Submit /\ t = job.tx)
           /\ ~Taken(t) => change'[t] = {}
           /\ quote[t].state = "PAID" \/ change[t] # {} => change'[t] = change[t]
<1>0. ~Taken(t) => change[t] = {} /\ ~Standing(t)
    BY DEF MintTrue
<1>1. CASE UNCHANGED <<quote, change>> /\ (net' \subseteq net \/ Submit)
  <2>1. Requested(t)' => Requested(t) \/ (Submit /\ t = job.tx)
    <3>1. CASE net' \subseteq net
        BY <3>1 DEF Requested
    <3>2. CASE Submit
      <4>1. PICK b, i : net' = net \cup {[tx |-> job.tx, inputs |-> i, blank |-> b]}
          BY <3>2 DEF Submit
      <4> QED
          BY <3>2, <4>1 DEF Requested
    <3> QED
        BY <1>1, <3>1, <3>2
  <2> QED
      BY <1>0, <1>1, <2>1 DEF Taken, Standing
<1>2. ASSUME NEW q \in net, TakeMelt(q) PROVE
           /\ Taken(t) => Taken(t)' /\ quote'[t].inputs = quote[t].inputs /\ quote'[t].blank = quote[t].blank
           /\ ~Taken(t) => \/ ~Taken(t)' /\ quote'[t] = quote[t]
                           \/ Standing(t)' /\ q.tx = t /\ quote'[t].inputs = q.inputs /\ quote'[t].blank = q.blank
           /\ Taken(t) /\ ~Standing(t) => ~Standing(t)'
           /\ Standing(t)' => Standing(t) \/ ~Taken(t)
           /\ quote[t].state = "PAID" => quote'[t].state = "PAID"
           /\ Requested(t)' => Requested(t)
           /\ UNCHANGED change
  <2>1. CASE q.tx = t
      BY <1>2, <2>1, TakeIs DEF Taken, Standing, Requested
  <2>2. CASE q.tx # t
      BY <1>2, <2>2, TakeIs DEF Taken, Standing, Requested
  <2> QED
      BY <2>1, <2>2
<1>3. ASSUME NEW u \in Transfer, Broadcast(u) \/ PaymentSucceeds(u) \/ PaymentFails(u) PROVE
           /\ Taken(t) <=> Taken(t)'
           /\ quote'[t].inputs = quote[t].inputs /\ quote'[t].blank = quote[t].blank
           /\ ~Taken(t) => quote'[t] = quote[t] /\ change'[t] = {}
           /\ ~Standing(t) => ~Standing(t)'
           /\ quote[t].state = "PAID" => quote'[t].state = "PAID"
           /\ Requested(t)' => Requested(t)
           /\ quote[t].state = "PAID" \/ change[t] # {} => change'[t] = change[t]
  <2>1. ~Taken(t) => t # u
      BY <1>0, <1>3, NetworkIs DEF Standing
  <2> QED
      BY <1>0, <1>3, <2>1, NetworkIs DEF Taken, Standing, Requested
<1> QED
    BY <1>0, <1>1, <1>2, <1>3, MintDoesSo DEF MintDoes, mintVars

------------------------------------------------------------------------------
(* The requests.                                                           *)

\* What the task selects.
LEMMA SelectIs ==
    ASSUME IInv, Select
    PROVE  /\ job.pc = "select" /\ UNCHANGED <<status, recovery, registry, sync, visit, watched, phase, mintVars, faults>>
           /\ \E S \in SUBSET Spendable : \E op \in {"transfer-swap", "transfer-melt"} :
                /\ Worth(S) >= Need[job.tx] /\ S # {} /\ S \in SUBSET Proof
                /\ Reserve(job.tx, op, S, "UNSPENT")
                /\ job' = [job EXCEPT !.pc = IF op = "transfer-swap" THEN "swap" ELSE "locked", !.inputs = S,
                                      !.row = RowFor(job.tx, op, S, "UNSPENT")]
                /\ job'.pc = (IF op = "transfer-swap" THEN "swap" ELSE "locked") /\ job'.inputs = S /\ job'.tx = job.tx
                /\ job'.row = RowFor(job.tx, op, S, "UNSPENT") /\ job'.answer = job.answer /\ job'.change = job.change
<1>1. job.pc = "select" /\ UNCHANGED <<status, recovery, registry, sync, visit, watched, phase, mintVars, faults>>
    BY DEF Select
<1>2. PICK S \in SUBSET Spendable :
        /\ Covers(S, Need[job.tx])
        /\ LET swap == Overshoots(job.tx, S)
               op   == IF swap THEN "transfer-swap" ELSE "transfer-melt"
           IN  /\ Reserve(job.tx, op, S, "UNSPENT")
               /\ job' = [job EXCEPT !.pc = IF swap THEN "swap" ELSE "locked", !.inputs = S,
                                     !.row = RowFor(job.tx, op, S, "UNSPENT")]
    BY DEF Select
<1> DEFINE op == IF Overshoots(job.tx, S) THEN "transfer-swap" ELSE "transfer-melt"
<1>3. op \in {"transfer-swap", "transfer-melt"} /\ Reserve(job.tx, op, S, "UNSPENT")
      /\ job' = [job EXCEPT !.pc = IF op = "transfer-swap" THEN "swap" ELSE "locked", !.inputs = S,
                                     !.row = RowFor(job.tx, op, S, "UNSPENT")]
    BY <1>2
<1> HIDE DEF op
<1>4. S \in SUBSET Proof
    BY DEF Spendable, Having
<1>5. Worth(S) >= Need[job.tx] /\ S # {}
  <2>1. job.tx \in Transfer
      BY <1>1 DEF IInv, JobKnows
  <2>0. Need[job.tx] \in Nat /\ Amount[job.tx] \in Nat \ {0} /\ Amount[job.tx] <= Need[job.tx]
      BY <2>1, ValueAssumptions
  <2>2. Need[job.tx] \in Nat /\ Need[job.tx] > 0
      BY <2>0
  <2>3. Worth(S) >= Need[job.tx]
      BY <1>2 DEF Covers
  <2> QED
      BY <2>2, <2>3, WorthGrows
<1>6. /\ job'.pc = (IF op = "transfer-swap" THEN "swap" ELSE "locked") /\ job'.inputs = S /\ job'.tx = job.tx
      /\ job'.row = RowFor(job.tx, op, S, "UNSPENT") /\ job'.answer = job.answer /\ job'.change = job.change
    BY <1>3 DEF IInv, Shapes
<1> QED
    BY <1>1, <1>3, <1>4, <1>5, <1>6

\* The task moves within its transfer, or begins, or ends.
LEMMA JobTransfer ==
    ASSUME IInv, TaskTrue, SyncTrue, Lives
    PROVE  \/ job'.tx = job.tx \/ job' = IdleJob
           \/ job = IdleJob /\ \E t \in Transfer : (StartTransfer(t) \/ CheckOnchain(t)) /\ job'.tx = t
                                                    /\ job'.pc \in {"select", "checking"} /\ job'.inputs = {} /\ job'.answer = "none"
                                                    /\ job'.change = {} /\ (job'.pc = "select" => status[t] = "none")
<1> USE DEF IInv, Shapes
<1>1. CASE UNCHANGED job
    BY <1>1
<1>2. CASE JobRuns
    BY <1>2 DEF JobRuns, Lock, Prepared, Execute, SettlePaid, SettlePending, SettleUnpaid, Fail, Rescued, OnchainChecked
<1>3. CASE Select
    BY <1>3, SelectIs
<1>4. CASE JobResumes /\ ~Select
  <2>1. CASE CommitSwap \/ Submit \/ TakeAnswer \/ Recheck \/ JudgePaid \/ JudgePending
      BY <2>1 DEF CommitSwap, Submit, TakeAnswer, Recheck, JudgePaid, JudgePending
  <2>2. CASE TakeError \/ JudgeUnpaid \/ NestedDone
      BY <2>2 DEF TakeError, JudgeUnpaid, NestedDone
  <2> QED
      BY <1>4, <2>1, <2>2 DEF JobResumes
<1>5. CASE SwapFails \/ LoseAnswer \/ RecheckFails \/ MintSwaps
    BY <1>5 DEF SwapFails, LoseAnswer, RecheckFails, MintSwaps
<1>6. ASSUME NEW t \in Transfer, StartTransfer(t), ~UNCHANGED job
      PROVE  job = IdleJob /\ job'.tx = t /\ job'.pc = "select" /\ job'.inputs = {} /\ job'.answer = "none" /\ job'.change = {}
             /\ status[t] = "none"
    BY <1>6 DEF StartTransfer, Ready, IdleJob
<1>7. ASSUME NEW t \in Transfer, CheckOnchain(t)
      PROVE  job = IdleJob /\ job'.tx = t /\ job'.pc = "checking" /\ job'.inputs = {} /\ job'.answer = "none" /\ job'.change = {}
    BY <1>7 DEF CheckOnchain, Ready, IdleJob
<1>8. ASSUME NEW t \in Transfer, AnswerMelt(t) PROVE job'.tx = job.tx
    BY <1>8 DEF AnswerMelt
<1>9. ASSUME NEW q \in net, RefuseMelt(q) PROVE job'.tx = job.tx
    BY <1>9 DEF RefuseMelt, Reply
<1> QED
    BY <1>1, <1>2, <1>3, <1>4, <1>5, <1>6, <1>7, <1>8, <1>9, JobMoves DEF TaskSteps

\* Where the task stands after a step, and where from.
LEMMA JobCameFrom ==
    ASSUME IInv, TaskTrue, SyncTrue, MintTrue, Lives, job'.tx = job.tx
    PROVE  /\ job'.pc \in Asking \cup {"nested", "nestedtwice"} =>
                \/ job.pc \in Asking \cup {"nested", "nestedtwice"} /\ ~Submit
                \/ job.pc \in {"wait", "judge"} /\ job.answer \in Refusals
           /\ job'.pc \in {"wait", "recheck", "judge"} /\ job'.answer \in Refusals =>
                \/ job.pc \in {"wait", "recheck", "judge"} /\ job.answer \in Refusals
                \/ job.pc = "wait" /\ job.answer = "none" /\ \E q \in net : RefuseMelt(q) /\ q.tx = job.tx
           /\ job'.pc \in {"wait", "settle"} /\ job'.answer \in Answers =>
                \/ job.pc \in {"wait", "settle"} /\ job.answer \in Answers /\ job'.answer = job.answer /\ job'.change = job.change
                \/ job.pc = "wait" /\ job.answer = "none" /\ AnswerMelt(job.tx)
           /\ job'.pc = "judge" => \/ job.pc = "judge" /\ job'.seen = job.seen /\ job'.change = job.change
                                   \/ Recheck
<1> DEFINE Goal == /\ job'.pc \in Asking \cup {"nested", "nestedtwice"} =>
                        \/ job.pc \in Asking \cup {"nested", "nestedtwice"} /\ ~Submit
                        \/ job.pc \in {"wait", "judge"} /\ job.answer \in Refusals
                   /\ job'.pc \in {"wait", "recheck", "judge"} /\ job'.answer \in Refusals =>
                        \/ job.pc \in {"wait", "recheck", "judge"} /\ job.answer \in Refusals
                        \/ job.pc = "wait" /\ job.answer = "none" /\ \E q \in net : RefuseMelt(q) /\ q.tx = job.tx
                   /\ job'.pc \in {"wait", "settle"} /\ job'.answer \in Answers =>
                        \/ job.pc \in {"wait", "settle"} /\ job.answer \in Answers /\ job'.answer = job.answer /\ job'.change = job.change
                        \/ job.pc = "wait" /\ job.answer = "none" /\ AnswerMelt(job.tx)
                   /\ job'.pc = "judge" => \/ job.pc = "judge" /\ job'.seen = job.seen /\ job'.change = job.change
                                           \/ Recheck
<1> USE DEF IInv, Shapes, Asking, Refusals, Answers
<1>1. CASE UNCHANGED job
  <2>1. ~Submit
      BY <1>1 DEF Submit
  <2> QED
      BY <1>1, <2>1
<1>2. CASE JobRuns
  <2>1. CASE Lock \/ Prepared \/ Execute
    <3>1. job'.pc \in {"locked", "prepared", "submit"} /\ job.pc \in Asking /\ ~Submit
        BY <2>1 DEF Lock, Prepared, Execute, Submit
    <3> QED
        BY <3>1
  <2>2. CASE SettlePaid \/ SettlePending \/ SettleUnpaid \/ Fail \/ Rescued \/ OnchainChecked
    <3>1. job'.pc \in {"idle", "fail"}
        BY <2>2 DEF SettlePaid, SettlePending, SettleUnpaid, Fail, Rescued, OnchainChecked, IdleJob
    <3> QED
        BY <3>1
  <2> QED
      BY <1>2, <2>1, <2>2 DEF JobRuns
<1>3. CASE Select
  <2>1. job'.pc \in {"swap", "locked"} /\ job.pc = "select" /\ ~Submit
      BY <1>3, SelectIs DEF Submit
  <2> QED
      BY <2>1
<1>4. CASE CommitSwap \/ SwapFails \/ MintSwaps
  <2>1. job'.pc \in {"lock", "swap"} /\ job.pc = "swap" /\ ~Submit
      BY <1>4 DEF CommitSwap, SwapFails, MintSwaps, Submit
  <2> QED
      BY <2>1
<1>5. CASE Submit
  <2>1. job'.pc = "wait" /\ job'.answer = "none"
      BY <1>5 DEF Submit
  <2> QED
      BY <2>1
<1>6. CASE TakeAnswer
  <2>1. job'.pc = "settle" /\ job'.answer = job.answer /\ job'.change = job.change /\ job.pc = "wait" /\ job.answer \in Answers
      BY <1>6 DEF TakeAnswer
  <2> QED
      BY <2>1
<1>7. CASE TakeError
  <2>1. job'.pc \in {"submit", "recheck"} /\ job'.answer = job.answer /\ job.pc = "wait" /\ job.answer \in Refusals
      BY <1>7 DEF TakeError
  <2> QED
      BY <2>1
<1>8. CASE Recheck
  <2>1. job'.pc = "judge" /\ job'.answer = job.answer /\ job.pc = "recheck"
      BY <1>8 DEF Recheck
  <2> QED
      BY <1>8, <2>1
<1>9. CASE JudgePaid \/ JudgePending \/ RecheckFails
  <2>1. job'.pc \in {"rescue", "fail"}
      BY <1>9 DEF JudgePaid, JudgePending, RecheckFails
  <2> QED
      BY <2>1
<1>10. CASE JudgeUnpaid
  <2>1. \/ job.pc = "judge" /\ job.answer \in Refusals /\ job'.pc \in {"nested", "nestedtwice"}
        \/ job'.pc = "fail"
      BY <1>10 DEF JudgeUnpaid
  <2> QED
      BY <2>1
<1>11. CASE NestedDone
  <2>1. job.pc \in {"nested", "nestedtwice"} /\ job'.pc \in {"nested", "fail"} /\ ~Submit
      BY <1>11 DEF NestedDone, Submit
  <2> QED
      BY <2>1
<1>12. CASE LoseAnswer
  <2>1. job'.pc = "recheck" /\ job'.answer = "lost"
      BY <1>12 DEF LoseAnswer
  <2> QED
      BY <2>1
<1>13. ASSUME NEW t \in Transfer, StartTransfer(t) \/ CheckOnchain(t) PROVE Goal
  <2>1. job.tx \notin Transfer /\ (UNCHANGED job \/ job'.tx = t)
    <3>1. job = IdleJob
        BY <1>13 DEF StartTransfer, CheckOnchain, Ready
    <3>2. job.tx \notin Transfer
        BY <3>1, TransferAssumptions, NoTxAssumption DEF IdleJob
    <3>3. UNCHANGED job \/ job' = [IdleJob EXCEPT !.pc = "select", !.tx = t] \/ job' = [IdleJob EXCEPT !.pc = "checking", !.tx = t]
        BY <1>13 DEF StartTransfer, CheckOnchain
    <3> QED
        BY <3>2, <3>3 DEF IdleJob
  <2> QED
      BY <1>1, <2>1
<1>14. ASSUME NEW t \in Transfer, AnswerMelt(t) PROVE Goal
  <2>2. job.pc = "wait" /\ job.answer = "none" /\ job'.pc = "wait" /\ AnswerMelt(job.tx)
      BY <1>14 DEF AnswerMelt
  <2>3. job'.answer = IF t \in Onchain THEN "PENDING" ELSE quote[t].state
      BY <1>14 DEF AnswerMelt
  <2> QED
      BY <2>2, <2>3 DEF MintTrue
<1>15. ASSUME NEW q \in net, RefuseMelt(q) PROVE Goal
  <2>1. CASE UNCHANGED job
      BY <1>1, <2>1
  <2>2. CASE ~UNCHANGED job
    <3>1. job.pc = "wait" /\ job.answer = "none" /\ job.tx = q.tx /\ job'.pc = "wait" /\ job'.answer \in Refusals
        BY <1>15, <2>2 DEF RefuseMelt, Reply
    <3> QED
        BY <1>15, <3>1
  <2> QED
      BY <2>1, <2>2
<1> QED
    BY <1>1, <1>2, <1>3, <1>4, <1>5, <1>6, <1>7, <1>8, <1>9, <1>10, <1>11, <1>12, <1>13, <1>14, <1>15, JobMoves
    DEF TaskSteps, JobResumes

\* Where the task is about to lock.
LEMMA LockCameFrom ==
    ASSUME IInv, TaskTrue, Lives, job'.pc = "lock"
    PROVE  \/ CommitSwap
           \/ /\ job.pc \in {"lock", "swap"} /\ job'.inputs = job.inputs /\ job'.tx = job.tx
              /\ job.pc = "lock" => UNCHANGED job
              /\ job.pc = "swap" => SwapFails
<1> USE DEF IInv, Shapes
<1>1. CASE UNCHANGED job
    BY <1>1
<1>2. CASE JobRuns
  <2>1. CASE Lock \/ Prepared \/ Execute \/ SettleUnpaid \/ Rescued
      BY <2>1 DEF Lock, Prepared, Execute, SettleUnpaid, Rescued
  <2>2. CASE SettlePaid \/ SettlePending \/ Fail \/ OnchainChecked
      BY <2>2 DEF SettlePaid, SettlePending, Fail, OnchainChecked, IdleJob
  <2> QED
      BY <1>2, <2>1, <2>2 DEF JobRuns
<1>3. CASE Select
    BY <1>3, SelectIs
<1>4. CASE JobResumes /\ ~Select
  <2>1. CASE Submit \/ TakeAnswer \/ Recheck \/ JudgePaid \/ JudgePending
      BY <2>1 DEF Submit, TakeAnswer, Recheck, JudgePaid, JudgePending
  <2>2. CASE TakeError \/ JudgeUnpaid \/ NestedDone
      BY <2>2 DEF TakeError, JudgeUnpaid, NestedDone
  <2> QED
      BY <1>4, <2>1, <2>2 DEF JobResumes
<1>5. CASE SwapFails
    BY <1>5 DEF SwapFails
<1>6. CASE LoseAnswer \/ RecheckFails \/ MintSwaps
    BY <1>6 DEF LoseAnswer, RecheckFails, MintSwaps
<1>7. ASSUME NEW t \in Transfer, StartTransfer(t) \/ CheckOnchain(t) PROVE UNCHANGED job
    BY <1>7 DEF StartTransfer, CheckOnchain, IdleJob
<1>8. ASSUME NEW t \in Transfer, AnswerMelt(t) PROVE FALSE
    BY <1>8 DEF AnswerMelt
<1>9. ASSUME NEW q \in net, RefuseMelt(q) PROVE UNCHANGED job
    BY <1>9 DEF RefuseMelt, Reply
<1> QED
    BY <1>1, <1>2, <1>3, <1>4, <1>5, <1>6, <1>7, <1>8, <1>9, JobMoves DEF TaskSteps

\* What the task holds it has selected, or swapped for.
LEMMA JobHolds ==
    ASSUME IInv, TaskTrue, SyncTrue, Lives, job'.pc \in Holding
    PROVE  \/ Select
           \/ CommitSwap /\ job'.inputs = {<<job.tx, "swap">>} /\ job'.tx = job.tx /\ job'.pc = "lock" /\ job.pc = "swap"
           \/ job.pc \in Holding /\ job'.inputs = job.inputs /\ job'.tx = job.tx
<1>1. CASE job'.pc \in WithRow
  <2>1. CASE Lock
    <3>1. job.pc = "lock" /\ job'.inputs = job.inputs /\ job'.tx = job.tx
        BY <2>1 DEF Lock, IInv, Shapes
    <3> QED
        BY <3>1 DEF Holding
  <2> QED
      BY <1>1, <2>1, RowHeld DEF WithRow
<1>2. CASE job'.pc = "lock"
  <2>1. CASE CommitSwap
      BY <2>1 DEF CommitSwap, IInv, Shapes
  <2> QED
      BY <1>2, <2>1, LockCameFrom DEF Holding
<1> QED
    BY <1>1, <1>2 DEF WithRow, Holding

\* A request in flight stays the only one of its transfer, and a refused task has nothing under way.
LEMMA RequestsStayTrue ==
    ASSUME IInv, TaskTrue, SyncTrue, MintTrue, RequestsTrue, Lives
    PROVE  RequestsTrue'
<1>0. TaskTrue'
    BY TaskKept2
<1>1. \A t \in Transfer : status[t] # "none" => status'[t] # "none"
    BY StatusMoves
<1>2. /\ net' \subseteq [tx : Transfer, inputs : SUBSET Proof, blank : SUBSET Proof]
      /\ \A q, r \in net' : q.tx = r.tx => q = r
      /\ \A q \in net' : ~Taken(q.tx)' /\ q.blank \subseteq Blanks(q.tx) /\ q.inputs # {} /\ status'[q.tx] # "none"
  <2>1. CASE net' \subseteq net
    <3>1. ASSUME NEW q \in net' PROVE ~Taken(q.tx)' /\ q.tx \in Transfer
      <4>1. q \in net /\ q.tx \in Transfer /\ ~Taken(q.tx)
          BY <2>1 DEF RequestsTrue
      <4>2. ASSUME NEW r \in net, r.tx = q.tx, TakeMelt(r) PROVE FALSE
        <5>1. r = q
            BY <4>1, <4>2 DEF RequestsTrue
        <5> QED
            BY <4>1, <4>2, <5>1, TakeIs
      <4> QED
          BY <4>1, <4>2, MintFacts
    <3> QED
        BY <1>1, <2>1, <3>1 DEF RequestsTrue
  <2>2. CASE Submit
    <3>1. job.tx \in Transfer /\ job.pc = "submit" /\ job.inputs # {} /\ job.inputs \in SUBSET Proof /\ ~Taken(job.tx) /\ ~Requested(job.tx)
          /\ status[job.tx] # "none"
        BY <2>2 DEF Submit, IInv, JobKnows, RequestsTrue, TaskTrue, Holding, Asking
    <3>2. ChangeOutputs(job.tx, job.attempt) \subseteq Blanks(job.tx) /\ Blanks(job.tx) \subseteq Proof
        BY <3>1, BlanksAreProofs DEF ChangeOutputs, Blanks
    <3>3. net' = net \cup {[tx |-> job.tx, inputs |-> job.inputs, blank |-> ChangeOutputs(job.tx, job.attempt)]} /\ UNCHANGED <<quote, status>>
        BY <2>2 DEF Submit
    <3> QED
        BY <3>1, <3>2, <3>3 DEF RequestsTrue, Requested, Taken
  <2>3. net' \subseteq net \/ Submit
    <3>1. ASSUME NEW q \in net, TakeMelt(q) PROVE net' \subseteq net
        BY <3>1, TakeIs
    <3>2. ASSUME NEW t \in Transfer, Broadcast(t) \/ PaymentSucceeds(t) \/ PaymentFails(t) PROVE net' \subseteq net
        BY <3>2, NetworkIs
    <3> QED
        BY <3>1, <3>2, MintDoesSo DEF MintDoes, mintVars
  <2> QED
      BY <2>1, <2>2, <2>3
<1>3. \A t \in Transfer : Taken(t)' => status'[t] # "none"
  <2>1. ASSUME NEW t \in Transfer, Taken(t)' PROVE status[t] # "none"
      BY <2>1, MintFacts DEF RequestsTrue
  <2> QED
      BY <1>1, <2>1
<1>4. job'.pc \in Holding => job'.inputs # {}
    BY JobHolds, SelectIs DEF RequestsTrue
<1>5. CASE job'.tx = job.tx /\ job'.pc # "idle"
  <2>0. job.tx \in Transfer
    <3>1. job'.tx \in Transfer
        BY <1>5, NextStep DEF Next, Lives, IInv, JobKnows
    <3> QED
        BY <1>5, <3>1
  <2>1. ~Taken(job.tx) /\ ~Requested(job.tx) /\ ~Submit => ~Taken(job.tx)' /\ ~Requested(job.tx)'
      BY <1>5, <2>0, MintFacts DEF Requested, Taken
  <2>2. Submit => job'.pc = "wait" /\ job'.answer = "none"
      BY DEF Submit, IInv, Shapes
  <2>3. job'.pc \in Asking \cup {"nested", "nestedtwice"} => ~Taken(job.tx)' /\ ~Requested(job.tx)'
      BY <1>5, <2>1, <2>2, JobCameFrom DEF RequestsTrue, Asking
  <2>4. ASSUME NEW q \in net, RefuseMelt(q), q.tx = job.tx PROVE ~Taken(job.tx)' /\ ~Requested(job.tx)'
    <3>1. UNCHANGED quote /\ net' = net \ {q} /\ ~Taken(job.tx)
        BY <2>4 DEF RefuseMelt, RequestsTrue
    <3> QED
        BY <1>5, <2>4, <3>1 DEF RequestsTrue, Taken, Requested
  <2>5. job'.pc \in {"wait", "recheck", "judge"} /\ job'.answer \in Refusals => ~Taken(job.tx)' /\ ~Requested(job.tx)'
      BY <1>5, <2>1, <2>2, <2>4, JobCameFrom DEF RequestsTrue, Refusals
  <2>6. AnswerMelt(job.tx) => Taken(job.tx) /\ UNCHANGED quote /\ job'.answer = (IF job.tx \in Onchain THEN "PENDING" ELSE quote[job.tx].state)
      BY DEF AnswerMelt, Taken, mintVars, IInv, Shapes
  <2>7. job'.pc \in {"wait", "settle"} /\ job'.answer \in Answers => Taken(job.tx)'
      BY <1>5, <2>0, <2>6, JobCameFrom, MintFacts DEF RequestsTrue, Taken
  <2>8. job'.pc \in {"wait", "settle"} /\ job'.answer = "UNPAID" => ~Standing(job.tx)'
      BY <1>5, <2>0, <2>6, JobCameFrom, MintFacts DEF RequestsTrue, Taken, Standing, Answers
  <2>9. job'.pc = "judge" /\ job'.seen # "UNPAID" => Taken(job.tx)'
    <3>1. Recheck => job'.seen = quote[job.tx].state /\ UNCHANGED quote
        BY DEF Recheck, mintVars, IInv, Shapes
    <3>2. Recheck /\ job'.seen # "UNPAID" => Taken(job.tx)'
        BY <1>5, <2>0, <3>1 DEF MintTrue, Standing, Taken
    <3> QED
        BY <1>5, <2>0, <3>2, JobCameFrom, MintFacts DEF RequestsTrue, Taken
  <2> QED
      BY <1>2, <1>3, <1>4, <1>5, <2>3, <2>5, <2>7, <2>8, <2>9 DEF RequestsTrue, Taken, Requested, Standing
<1>6. CASE job' = IdleJob \/ job'.pc = "idle" \/ job'.pc = "checking"
  <2>1. job'.pc \in {"idle", "checking"}
      BY <1>6 DEF IdleJob
  <2> QED
      BY <1>2, <1>3, <1>4, <2>1 DEF RequestsTrue, Asking, Holding
<1>7. CASE job'.pc = "select" /\ \E t \in Transfer : StartTransfer(t) /\ job'.tx = t /\ status[t] = "none"
  <2>1. PICK t \in Transfer : StartTransfer(t) /\ job'.tx = t /\ status[t] = "none"
      BY <1>7
  <2>2. ~Taken(t) /\ ~Requested(t) /\ UNCHANGED <<quote, net>>
      BY <2>1 DEF StartTransfer, mintVars, RequestsTrue, Requested
  <2>3. ~Taken(job.tx)' /\ ~Requested(job.tx)'
      BY <2>1, <2>2 DEF Taken, Requested
  <2> QED
      BY <1>2, <1>3, <1>4, <1>7, <2>3 DEF RequestsTrue, Taken, Requested, Standing
<1> QED
  <2>1. ASSUME NEW t \in Transfer, CheckOnchain(t) PROVE job'.pc = "checking"
      BY <2>1 DEF CheckOnchain, IdleJob
  <2> QED
      BY <1>5, <1>6, <1>7, <2>1, JobTransfer

------------------------------------------------------------------------------
(* The change.                                                             *)

\* The inputs of the task.
LEMMA JobInputs ==
    ASSUME IInv, TaskTrue, Lives
    PROVE  \/ job'.inputs \in {job.inputs, {}} \/ Select
           \/ CommitSwap /\ job'.inputs = {<<job.tx, "swap">>}
<1> USE DEF IInv, Shapes
<1>1. CASE UNCHANGED job
    BY <1>1
<1>2. CASE JobRuns
  <2>1. CASE Lock \/ Prepared \/ Execute \/ SettleUnpaid \/ Rescued
      BY <2>1 DEF Lock, Prepared, Execute, SettleUnpaid, Rescued
  <2>2. CASE SettlePaid \/ SettlePending \/ Fail \/ OnchainChecked
      BY <2>2 DEF SettlePaid, SettlePending, Fail, OnchainChecked, IdleJob
  <2> QED
      BY <1>2, <2>1, <2>2 DEF JobRuns
<1>4. CASE JobResumes /\ ~Select
  <2>1. CASE Submit \/ TakeAnswer \/ Recheck \/ JudgePaid \/ JudgePending
      BY <2>1 DEF Submit, TakeAnswer, Recheck, JudgePaid, JudgePending
  <2>2. CASE TakeError \/ JudgeUnpaid \/ NestedDone
      BY <2>2 DEF TakeError, JudgeUnpaid, NestedDone
  <2>3. CASE CommitSwap
      BY <2>3 DEF CommitSwap
  <2> QED
      BY <1>4, <2>1, <2>2, <2>3 DEF JobResumes
<1>6. CASE SwapFails \/ LoseAnswer \/ RecheckFails \/ MintSwaps
    BY <1>6 DEF SwapFails, LoseAnswer, RecheckFails, MintSwaps
<1>7. ASSUME NEW t \in Transfer, StartTransfer(t) \/ CheckOnchain(t) PROVE job'.inputs \in {job.inputs, {}}
    BY <1>7 DEF StartTransfer, CheckOnchain, IdleJob
<1>8. ASSUME NEW t \in Transfer, AnswerMelt(t) PROVE job'.inputs = job.inputs
    BY <1>8 DEF AnswerMelt
<1>9. ASSUME NEW q \in net, RefuseMelt(q) PROVE job'.inputs = job.inputs
    BY <1>9 DEF RefuseMelt, Reply
<1> QED
    BY <1>1, <1>2, <1>4, <1>6, <1>7, <1>8, <1>9, JobMoves DEF TaskSteps

\* The change in the task's hands.
LEMMA JobChange ==
    ASSUME IInv, TaskTrue, Lives
    PROVE  \/ job'.change = job.change \/ job'.change = {}
           \/ Recheck /\ job'.change = change[job.tx] /\ UNCHANGED change
           \/ AnswerMelt(job.tx) /\ job'.change = change[job.tx] /\ UNCHANGED change
<1> USE DEF IInv, Shapes
<1>1. CASE UNCHANGED job
    BY <1>1
<1>2. CASE JobRuns
  <2>1. CASE Lock \/ Prepared \/ Execute \/ SettleUnpaid \/ Rescued
      BY <2>1 DEF Lock, Prepared, Execute, SettleUnpaid, Rescued
  <2>2. CASE SettlePaid \/ SettlePending \/ Fail \/ OnchainChecked
      BY <2>2 DEF SettlePaid, SettlePending, Fail, OnchainChecked, IdleJob
  <2> QED
      BY <1>2, <2>1, <2>2 DEF JobRuns
<1>3. CASE Select
    BY <1>3, SelectIs
<1>4. CASE JobResumes /\ ~Select
  <2>1. CASE Submit \/ TakeAnswer \/ JudgePaid \/ JudgePending \/ CommitSwap
      BY <2>1 DEF Submit, TakeAnswer, JudgePaid, JudgePending, CommitSwap
  <2>2. CASE TakeError \/ JudgeUnpaid \/ NestedDone
      BY <2>2 DEF TakeError, JudgeUnpaid, NestedDone
  <2>3. CASE Recheck
      BY <2>3 DEF Recheck, mintVars
  <2> QED
      BY <1>4, <2>1, <2>2, <2>3 DEF JobResumes
<1>6. CASE SwapFails \/ LoseAnswer \/ RecheckFails \/ MintSwaps
    BY <1>6 DEF SwapFails, LoseAnswer, RecheckFails, MintSwaps
<1>7. ASSUME NEW t \in Transfer, StartTransfer(t) \/ CheckOnchain(t) PROVE job'.change \in {job.change, {}}
    BY <1>7 DEF StartTransfer, CheckOnchain, IdleJob
<1>8. ASSUME NEW t \in Transfer, AnswerMelt(t) PROVE AnswerMelt(job.tx) /\ job'.change = change[job.tx] /\ UNCHANGED change
    BY <1>8 DEF AnswerMelt, mintVars
<1>9. ASSUME NEW q \in net, RefuseMelt(q) PROVE job'.change = job.change
    BY <1>9 DEF RefuseMelt, Reply
<1> QED
    BY <1>1, <1>2, <1>3, <1>4, <1>6, <1>7, <1>8, <1>9, JobMoves DEF TaskSteps

\* What a step does to the stored blank outputs.
LEMMA RecoveryMoves2 ==
    ASSUME IInv, DOMAIN recovery = Transfer, Lives
    PROVE  /\ DOMAIN recovery' = Transfer
           /\ \A t \in Transfer : \/ recovery'[t] \subseteq recovery[t]
                                  \/ Submit /\ t = job.tx /\ recovery'[t] = ChangeOutputs(job.tx, job.attempt)
           /\ TakeAnswer /\ (IF job.tx \in Onchain THEN job.change # {} ELSE job.answer # "PENDING") => recovery'[job.tx] = {}
           /\ \A w \in Worker : Unblind(w) /\ visit[w].change # {} => recovery'[visit[w].tx] = {}
<1>0. (job.pc # "idle" => job.tx \in Transfer) /\ \A w \in Worker : visit[w].pc # "none" => visit[w].tx \in Transfer
    BY DEF IInv, JobKnows, VisitKnows
<1>1. CASE UNCHANGED recovery /\ ~TakeAnswer /\ \A w \in Worker : ~Unblind(w)
    BY <1>1
<1>2. CASE TakeAnswer
  <2>1. /\ recovery' = [recovery EXCEPT ![job.tx] = IF (IF job.tx \in Onchain THEN job.change # {} ELSE job.answer # "PENDING") THEN {} ELSE @]
        /\ UNCHANGED visit /\ job.pc = "wait" /\ job.tx \in Transfer /\ job'.pc = "settle"
      BY <1>2, <1>0 DEF TakeAnswer, IInv, Shapes
  <2>2. ASSUME NEW w \in Worker PROVE ~Unblind(w)
      BY <2>1 DEF Unblind, queueVars, IInv, Shapes
  <2> QED
      BY <2>1, <2>2
<1>3. ASSUME NEW w \in Worker, Unblind(w)
      PROVE  /\ DOMAIN recovery' = Transfer
             /\ \A t \in Transfer : recovery'[t] \subseteq recovery[t]
             /\ visit[w].change # {} => recovery'[visit[w].tx] = {}
             /\ ~TakeAnswer
             /\ \A v \in Worker : Unblind(v) => v = w
  <2>1. recovery' = [recovery EXCEPT ![visit[w].tx] = IF visit[w].change = {} THEN @ ELSE {}]
        /\ visit[w].pc = "unblind" /\ visit'[w].pc # "unblind" /\ UNCHANGED job /\ visit[w].tx \in Transfer
        /\ \A v \in Worker : v # w => visit'[v] = visit[v]
    <3>1. visit'[w].pc # "unblind" /\ \A v \in Worker : v # w => visit'[v] = visit[v]
        BY <1>3 DEF Unblind, EndVisit, Ended, NoVisit, IInv, Shapes
    <3> QED
        BY <1>3, <1>0, <3>1 DEF Unblind, queueVars
  <2>2. ~TakeAnswer
      BY <2>1 DEF TakeAnswer, IInv, Shapes
  <2>3. ASSUME NEW v \in Worker, Unblind(v), v # w PROVE FALSE
    <3>1. visit[v].pc = "unblind" /\ visit'[v].pc # "unblind"
        BY <2>3 DEF Unblind, EndVisit, Ended, NoVisit, IInv, Shapes
    <3> QED
        BY <2>1, <2>3, <3>1
  <2> QED
      BY <2>1, <2>2, <2>3
<1>4. CASE Submit
  <2>1. /\ recovery' = [recovery EXCEPT ![job.tx] = IF @ = {} THEN ChangeOutputs(job.tx, job.attempt) ELSE @]
        /\ UNCHANGED visit /\ job.pc = "submit" /\ job.tx \in Transfer
      BY <1>4, <1>0 DEF Submit
  <2>2. ASSUME NEW w \in Worker PROVE ~Unblind(w)
      BY <1>4, <2>1 DEF Unblind, queueVars, IInv, Shapes, Submit
  <2>3. ~TakeAnswer
      BY <2>1 DEF TakeAnswer
  <2> QED
      BY <1>4, <2>1, <2>2, <2>3
<1>5. CASE TakeError
  <2>1. /\ recovery' = [recovery EXCEPT ![job.tx] = {}]
        /\ UNCHANGED visit /\ job.pc = "wait" /\ job.tx \in Transfer /\ job.answer \in {"spent", "taken", "signed"}
      BY <1>5, <1>0 DEF TakeError
  <2>2. ASSUME NEW w \in Worker PROVE ~Unblind(w)
    <3>1. job' # job
        BY <1>5, <2>1 DEF TakeError, IInv, Shapes
    <3> QED
        BY <3>1 DEF Unblind, queueVars
  <2>3. ~TakeAnswer
      BY <2>1 DEF TakeAnswer
  <2> QED
      BY <2>1, <2>2, <2>3
<1>6. ASSUME NEW w \in Worker, SeesForRecovery(w)
      PROVE  /\ DOMAIN recovery' = Transfer /\ \A t \in Transfer : recovery'[t] \subseteq recovery[t]
             /\ ~TakeAnswer /\ \A v \in Worker : ~Unblind(v)
  <2>1. /\ recovery' = [recovery EXCEPT ![visit[w].tx] = IF visit[w].seen = "UNPAID" THEN {} ELSE @]
        /\ UNCHANGED job /\ visit[w].tx \in Transfer /\ visit[w].pc = "act" /\ visit'[w].pc # "act"
        /\ \A v \in Worker : v # w => visit'[v] = visit[v]
    <3>1. visit'[w].pc # "act" /\ \A v \in Worker : v # w => visit'[v] = visit[v]
        BY <1>6 DEF SeesForRecovery, EndVisit, Ended, NoVisit, IInv, Shapes
    <3> QED
        BY <1>6, <1>0, <3>1 DEF SeesForRecovery, queueVars
  <2>2. ~TakeAnswer
      BY <2>1 DEF TakeAnswer, IInv, Shapes
  <2>3. ASSUME NEW v \in Worker, Unblind(v) PROVE FALSE
    <3>1. visit[v].pc = "unblind" /\ visit'[v].pc # "unblind"
        BY <2>3 DEF Unblind, EndVisit, Ended, NoVisit, IInv, Shapes
    <3> QED
        BY <2>1, <2>3, <3>1
  <2> QED
      BY <2>1, <2>2, <2>3
<1>7. CASE UNCHANGED recovery
  <2>1. ASSUME NEW w \in Worker, Unblind(w) PROVE DOMAIN recovery' = Transfer /\ visit[w].change # {} => recovery'[visit[w].tx] = {}
      BY <1>3, <2>1
  <2> QED
      BY <1>1, <1>2, <1>3, <1>7
<1>8. UNCHANGED recovery \/ Submit \/ TakeAnswer \/ TakeError \/ \E w \in Worker : Unblind(w) \/ SeesForRecovery(w)
  <2>2. CASE Running
      BY <2>2 DEF Running, JobRuns, SyncRuns, VisitRuns, Lock, Prepared, Execute, SettlePaid, SettlePending,
       SettleUnpaid, Fail, Rescued, OnchainChecked, Dispatched, Register, Unregister, GoneRefreshed, Synced,
       SettleShort, SkipSettled, Dispatch, RefreshGone, ReleaseFailed, MarkReverted, SettleVisit
  <2>3. CASE Resuming
      BY <2>3 DEF Resuming, JobResumes, SyncResumes, VisitResumes, Select, CommitSwap,
       Recheck, JudgePaid, JudgePending, JudgeUnpaid, NestedDone, Check, WriteOff, MarkPending,
       AskQuote, SeesPaid, SeesUnpaid
  <2>4. CASE Failures
      BY <2>4 DEF Failures, SwapFails, LoseAnswer, RecheckFails, CheckFails, AskFails, UnblindFails
  <2>5. CASE Starts
      BY <2>5 DEF Starts, StartTransfer, CheckOnchain, RecoverByHand, MonitorRefreshes, ExpireTransfer, ReloadTransfer, SyncAll
  <2>6. CASE MintSteps \/ NetworkSteps
      BY <2>6 DEF MintSteps, NetworkSteps, MintSwaps, TakeMelt, RefuseMelt, AnswerMelt,
       Broadcast, PaymentSucceeds, PaymentFails
  <2> QED
      BY <2>2, <2>3, <2>4, <2>5, <2>6 DEF Lives
<1> QED
    BY <1>2, <1>3, <1>4, <1>5, <1>6, <1>7, <1>8

\* The change in the hands of a visit.
LEMMA VisitChange ==
    ASSUME IInv, \A v \in Worker : VisitTrue(visit[v]), Lives, NEW w \in Worker, visit'[w].pc # "none"
    PROVE  /\ \/ visit'[w].change \subseteq visit[w].change /\ visit'[w].tx = visit[w].tx /\ visit[w].pc # "none"
              \/ visit'[w].change = {}
              \/ visit[w].pc = "ask" /\ visit'[w].change = change[visit[w].tx] /\ visit'[w].tx = visit[w].tx /\ UNCHANGED change
              \/ JudgePaid /\ visit'[w].change = job.change /\ visit'[w].tx = job.tx
           /\ visit'[w].pc = "unblind" => \/ visit'[w] = visit[w]
                                          \/ visit'[w].change \subseteq recovery[visit'[w].tx] /\ visit[w].pc = "act" /\ UNCHANGED <<disk, mem>>
           /\ visit'[w].pc = "settle" => visit'[w] = visit[w] \/ Unblind(w) \/ visit'[w].change = {}
<1> DEFINE Goal ==
           /\ \/ visit'[w].change \subseteq visit[w].change /\ visit'[w].tx = visit[w].tx /\ visit[w].pc # "none"
              \/ visit'[w].change = {}
              \/ visit[w].pc = "ask" /\ visit'[w].change = change[visit[w].tx] /\ visit'[w].tx = visit[w].tx /\ UNCHANGED change
              \/ JudgePaid /\ visit'[w].change = job.change /\ visit'[w].tx = job.tx
           /\ visit'[w].pc = "unblind" => \/ visit'[w] = visit[w]
                                          \/ visit'[w].change \subseteq recovery[visit'[w].tx] /\ visit[w].pc = "act" /\ UNCHANGED <<disk, mem>>
           /\ visit'[w].pc = "settle" => visit'[w] = visit[w] \/ Unblind(w) \/ visit'[w].change = {}
<1> USE DEF IInv, Shapes
<1>0. Queue \in Worker /\ Screen \in Worker /\ Transfer \subseteq Worker
    BY TransferAssumptions DEF Queue, Screen, Worker
<1>1. CASE visit'[w] = visit[w]
    BY <1>1
<1>2. CASE visit'[w] = NoVisit
    BY <1>2 DEF NoVisit
<1>3. ASSUME NEW t, NEW mode, Enter(w, t, mode) PROVE Goal
  <2>1. visit'[w] = [NoVisit EXCEPT !.pc = EntryPc(t, mode), !.tx = t, !.mode = mode] /\ EntryPc(t, mode) \in {"ask", "returned", "threw"}
      BY <1>3 DEF Enter, EntryPc
  <2> QED
      BY <2>1 DEF NoVisit
<1>4. ASSUME visit[w].pc # "none", visit'[w] = [visit[w] EXCEPT !.pc = "returned"] \/ visit'[w] = [visit[w] EXCEPT !.pc = "threw"]
      PROVE  Goal
    BY <1>4
<1>5. ASSUME visit[w].pc # "none", EndVisit(w, "returned") \/ EndVisit(w, "threw") PROVE Goal
    BY <1>2, <1>4, <1>5 DEF EndVisit, Ended
<1>6. CASE ReleaseFailed(w)
    BY <1>6 DEF ReleaseFailed, GoOn
<1>7. CASE MarkReverted(w) \/ SettleVisit(w) \/ AskFails(w)
    BY <1>5, <1>7 DEF MarkReverted, SettleVisit, AskFails
<1>8. CASE AskQuote(w)
    BY <1>8 DEF AskQuote, mintVars
<1>9. CASE SeesPaid(w)
    BY <1>9 DEF SeesPaid, storeVars
<1>10. CASE SeesUnpaid(w)
  <2>1. visit[w].pc = "act"
      BY <1>10 DEF SeesUnpaid
  <2>2. EndVisit(w, "returned") \/ EndVisit(w, "threw") \/ GoOn(w, "release")
      BY <1>10, <2>1 DEF SeesUnpaid
  <2> QED
      BY <1>5, <2>1, <2>2 DEF GoOn
<1>11. CASE SeesForRecovery(w)
  <2>1. visit[w].pc = "act" /\ visit[w].mode = "recover" /\ UNCHANGED <<disk, mem>>
      BY <1>11 DEF SeesForRecovery, storeVars
  <2>2. EndVisit(w, "returned") \/ EndVisit(w, "threw")
        \/ visit' = [visit EXCEPT ![w].pc = "unblind", ![w].change = visit[w].change \cap recovery[visit[w].tx]]
      BY <1>11 DEF SeesForRecovery
  <2> QED
      BY <1>5, <2>1, <2>2
<1>12. CASE Unblind(w)
  <2>1. visit[w].pc = "unblind"
      BY <1>12 DEF Unblind
  <2>2. EndVisit(w, "returned") \/ \E C \in SUBSET visit[w].change : visit' = [visit EXCEPT ![w].pc = "settle", ![w].change = C]
      BY <1>12 DEF Unblind
  <2> QED
      BY <1>5, <1>12, <2>1, <2>2
<1>12a. CASE UnblindFails(w)
  <2>1. visit[w].pc = "unblind"
      BY <1>12a DEF UnblindFails
  <2>2. EndVisit(w, "returned") \/ visit' = [visit EXCEPT ![w].pc = "settle", ![w].change = {}]
      BY <1>12a DEF UnblindFails
  <2> QED
      BY <1>5, <2>1, <2>2
<1>13. CASE w = Queue /\ (Rescued \/ OnchainChecked \/ Dispatched \/ GoneRefreshed)
    BY <1>2, <1>13 DEF Rescued, OnchainChecked, Dispatched, GoneRefreshed
<1>14. CASE w = Queue /\ JudgePaid
  <2>1. visit'[w] = [NoVisit EXCEPT !.pc = "act", !.tx = job.tx, !.mode = "recover", !.seen = "PAID", !.change = job.change]
      BY <1>14 DEF JudgePaid
  <2> QED
      BY <1>14, <2>1 DEF NoVisit
<1>15. CASE w = Queue /\ \E t \in Tx : Dispatch(t) \/ RefreshGone(t)
    BY <1>3, <1>15 DEF Dispatch, RefreshGone
<1>16. CASE w = Queue /\ \E t \in Transfer : CheckOnchain(t)
    BY <1>3, <1>16 DEF CheckOnchain
<1>17. CASE w = Screen /\ \E t \in Transfer : RecoverByHand(t)
    BY <1>3, <1>17 DEF RecoverByHand
<1>18. CASE w \in Transfer /\ MonitorRefreshes(w)
    BY <1>3, <1>18 DEF MonitorRefreshes, ExpireTransfer, ReloadTransfer
<1> QED
    BY <1>1, <1>6, <1>7, <1>8, <1>9, <1>10, <1>11, <1>12, <1>12a, <1>13, <1>14, <1>15, <1>16, <1>17, <1>18, VisitMoves DEF VisitSteps

\* Steps at an await leave the hot ones alone.
LEMMA SubmitIsCold == ASSUME IInv, Lives, Submit PROVE AtAwait
<1>1. job.pc = "submit"
    BY DEF Submit
<1>2. ASSUME Running PROVE FALSE
  <2>1. job'.pc = "wait" /\ job' # job
      BY <1>1 DEF Submit, IInv, Shapes
  <2>2. CASE JobRuns
      BY <1>1, <2>2 DEF JobRuns, Lock, Prepared, Execute, SettlePaid, SettlePending, SettleUnpaid, Fail, Rescued, OnchainChecked
  <2>3. CASE SyncRuns
      BY <2>1, <2>3 DEF SyncRuns, Dispatched, Register, Unregister, GoneRefreshed, Synced,
       SettleShort, SkipSettled, Dispatch, RefreshGone
  <2>4. CASE VisitRuns
      BY <2>1, <2>4 DEF VisitRuns, ReleaseFailed, MarkReverted, SettleVisit, queueVars
  <2> QED
      BY <1>2, <2>2, <2>3, <2>4 DEF Running
<1> QED
    BY <1>2 DEF Lives

\* Change stays with the transfer whose blanks it was signed on.
LEMMA ChangeStaysTrue ==
    ASSUME IInv, StoreTrue, TaskTrue, SyncTrue, \A w \in Worker : VisitTrue(visit[w]), MintTrue, RequestsTrue, ChangeTrue, Lives
    PROVE  ChangeTrue'
<1>0. \A p \in Proof : /\ disk[p] # Absent => disk'[p] # Absent
                       /\ disk[p] = Absent => disk'[p] = Absent \/ (Appears(p) /\ mem'[p] # Absent)
                       /\ mem[p] # Absent => mem'[p] # Absent
    BY StoreStaysTrue
<1>i. IInv'
    BY NextStep DEF Next, Lives
<1>1. DOMAIN recovery' = Transfer /\ \A t \in Transfer : \/ recovery'[t] \subseteq recovery[t]
                                                         \/ Submit /\ t = job.tx /\ recovery'[t] = ChangeOutputs(job.tx, job.attempt)
    BY RecoveryMoves2 DEF ChangeTrue
<1>2. ASSUME NEW t \in Transfer, NEW p \in Blanks(t), Appears(p) PROVE Taken(t) /\ recovery[t] = {}
  <2>1. p = <<t, "change1">> \/ p = <<t, "change2">>
      BY <1>2 DEF Blanks
  <2>2. ~(p \in {<<job.tx, "swap">>, <<job.tx, "rest">>})
      BY <2>1
  <2>3. CASE (SettlePaid \/ SettlePending) /\ p \in job.change
    <3>1. job.pc = "settle" /\ p \in Blanks(job.tx) /\ Taken(job.tx) /\ recovery[job.tx] = {}
        BY <2>3 DEF SettlePaid, SettlePending, ChangeTrue
    <3>2. job.tx = t
        BY <2>1, <3>1 DEF Blanks
    <3> QED
        BY <3>1, <3>2
  <2>4. ASSUME NEW w \in Worker, SettleVisit(w), p \in visit[w].change PROVE Taken(t) /\ recovery[t] = {}
    <3>1. visit[w].pc = "settle" /\ p \in Blanks(visit[w].tx) /\ Taken(visit[w].tx) /\ recovery[visit[w].tx] = {}
        BY <2>4 DEF SettleVisit, ChangeTrue
    <3>2. visit[w].tx = t
        BY <2>1, <3>1 DEF Blanks
    <3> QED
        BY <3>1, <3>2
  <2> QED
      BY <1>2, <2>2, <2>3, <2>4 DEF Appears
<1>3. ASSUME NEW t \in Transfer, Submit, t = job.tx PROVE ChangeOutputs(job.tx, job.attempt) \subseteq Blanks(t) /\ ~Taken(t)
    BY <1>3 DEF Submit, ChangeOutputs, Blanks, RequestsTrue, Asking
<1>4. ASSUME NEW t \in Transfer PROVE /\ recovery'[t] \subseteq Blanks(t)
                                      /\ \A p \in recovery'[t] : disk'[p] = Absent
                                      /\ ~Taken(t)' => \A p \in Blanks(t) : disk'[p] = Absent
  <2>1. Blanks(t) \subseteq Proof
      BY BlanksAreProofs
  <2>2. recovery'[t] \subseteq Blanks(t)
      BY <1>1, <1>3 DEF ChangeTrue
  <2>3. ~Taken(t)' => ~Taken(t)
      BY MintFacts
  <2>4. ~Taken(t) => \A p \in Blanks(t) : disk'[p] = Absent
      BY <1>0, <1>2, <2>1 DEF ChangeTrue
  <2>5. CASE recovery'[t] \subseteq recovery[t]
      BY <1>0, <1>2, <2>1, <2>2, <2>3, <2>4, <2>5 DEF ChangeTrue
  <2>6. CASE Submit /\ t = job.tx
      BY <1>3, <2>2, <2>3, <2>4, <2>6
  <2> QED
      BY <1>1, <2>5, <2>6
<1>5. ASSUME NEW t \in Transfer PROVE Taken(t) => Taken(t)'
    BY MintFacts
<1>6. /\ job'.pc # "idle" => job'.change \subseteq Blanks(job'.tx)
      /\ job'.pc # "idle" /\ job'.change # {} => Taken(job.tx)' /\ job'.tx = job.tx
  <2> SUFFICES ASSUME job'.pc # "idle", job'.change # {}
               PROVE  job'.change \subseteq Blanks(job'.tx) /\ Taken(job.tx)' /\ job'.tx = job.tx
      OBVIOUS
  <2>1. job'.tx = job.tx /\ job.tx \in Transfer
    <3>1. job'.tx = job.tx
        BY JobTransfer DEF IdleJob
    <3> QED
        BY <3>1, <1>i DEF IInv, JobKnows
  <2>2. job.pc # "idle"
      BY <2>1, TransferAssumptions, NoTxAssumption DEF TaskTrue, IdleJob
  <2>3. CASE job'.change = job.change
      BY <1>5, <2>1, <2>2, <2>3 DEF ChangeTrue, Taken
  <2>4. CASE job'.change = change[job.tx] /\ UNCHANGED change
    <3>1. change[job.tx] \subseteq Blanks(job.tx) /\ (change[job.tx] # {} => Taken(job.tx))
        BY <2>1 DEF MintTrue
    <3> QED
        BY <1>5, <2>1, <2>4, <3>1 DEF Taken
  <2> QED
      BY <2>3, <2>4, JobChange
<1>7. job'.pc = "wait" /\ job'.answer = "PENDING" /\ job'.tx \in Bolt => job'.change = {}
  <2> SUFFICES ASSUME job'.pc = "wait", job'.answer = "PENDING", job'.tx \in Bolt PROVE job'.change = {}
      OBVIOUS
  <2>1. job'.tx = job.tx /\ job.tx \in Transfer
    <3>1. job'.tx = job.tx
        BY JobTransfer DEF IdleJob
    <3> QED
        BY <3>1, <1>i DEF IInv, JobKnows
  <2>2. CASE AnswerMelt(job.tx)
    <3>1. job'.answer = quote[job.tx].state /\ job'.change = change[job.tx]
        BY <2>1, <2>2 DEF AnswerMelt, IInv, Shapes, Bolt
    <3> QED
        BY <2>1, <3>1 DEF MintTrue
  <2>3. CASE job.pc \in {"wait", "settle"} /\ job.answer \in Answers /\ job'.answer = job.answer /\ job'.change = job.change
    <3>1. job.pc = "wait"
        <4>1. CASE job.pc = "settle"
            <5>1. JobRuns
                BY <4>1 DEF Lives, AtAwait, Running, SyncRuns, VisitRuns, JobRuns, queueVars, Register, Unregister, Dispatched, GoneRefreshed, Synced,
                   SettleShort, SkipSettled, Dispatch, RefreshGone, ReleaseFailed, MarkReverted, SettleVisit
            <5> QED
                BY <4>1, <5>1 DEF JobRuns, Lock, Prepared, Execute, SettlePaid, SettlePending, SettleUnpaid, Fail, Rescued, OnchainChecked, IdleJob, IInv, Shapes
        <4> QED
            BY <2>3, <4>1
    <3> QED
        BY <2>1, <2>3, <3>1 DEF ChangeTrue
  <2> QED
      BY <2>1, <2>2, <2>3, JobCameFrom DEF Answers
<1>8. job'.pc = "settle" /\ job'.change # {} => recovery'[job'.tx] = {}
  <2> SUFFICES ASSUME job'.pc = "settle", job'.change # {} PROVE recovery'[job'.tx] = {}
      OBVIOUS
  <2>1. job'.tx = job.tx /\ job.tx \in Transfer
    <3>1. job'.tx = job.tx
        BY JobTransfer DEF IdleJob
    <3> QED
        BY <3>1, <1>i DEF IInv, JobKnows
  <2>2. CASE TakeAnswer
    <3>1. job.pc = "wait" /\ job.answer \in Answers /\ job'.change = job.change
        BY <2>2 DEF TakeAnswer, Answers, IInv, Shapes
    <3>2. IF job.tx \in Onchain THEN job.change # {} ELSE job.answer # "PENDING"
        BY <2>1, <3>1 DEF ChangeTrue, Bolt
    <3> QED
        BY <2>1, <2>2, <3>2, RecoveryMoves2 DEF ChangeTrue
  <2>3. CASE job.pc = "settle" /\ job'.change = job.change
    <3>1. ~Submit
        BY <2>3 DEF Submit
    <3> QED
        BY <1>1, <2>1, <2>3, <3>1 DEF ChangeTrue
  <2>4. TakeAnswer \/ UNCHANGED job
    <3>1. CASE JobRuns
      <4>1. CASE Lock \/ Prepared \/ Execute \/ SettleUnpaid \/ Rescued
          BY <4>1 DEF Lock, Prepared, Execute, SettleUnpaid, Rescued, IInv, Shapes
      <4>2. CASE SettlePaid \/ SettlePending \/ Fail \/ OnchainChecked
          BY <4>2 DEF SettlePaid, SettlePending, Fail, OnchainChecked, IdleJob
      <4> QED
          BY <3>1, <4>1, <4>2 DEF JobRuns
    <3>2. CASE JobResumes
        BY <3>2, SelectIs DEF JobResumes, CommitSwap, Submit, TakeError, Recheck, JudgePaid, JudgePending, JudgeUnpaid, NestedDone, IInv, Shapes
    <3>3. CASE SwapFails \/ LoseAnswer \/ RecheckFails \/ MintSwaps
        BY <3>3 DEF SwapFails, LoseAnswer, RecheckFails, MintSwaps, IInv, Shapes
    <3>4. ASSUME NEW t \in Transfer, StartTransfer(t) \/ CheckOnchain(t) \/ AnswerMelt(t) PROVE UNCHANGED job
        BY <3>4 DEF StartTransfer, CheckOnchain, AnswerMelt, IInv, Shapes, IdleJob
    <3>5. ASSUME NEW q \in net, RefuseMelt(q) PROVE UNCHANGED job
        BY <3>5 DEF RefuseMelt, Reply, IInv, Shapes
    <3> QED
        BY <3>1, <3>2, <3>3, <3>4, <3>5, JobMoves DEF TaskSteps
  <2> QED
      BY <2>2, <2>3, <2>4
<1>9. ASSUME NEW w \in Worker, visit'[w].pc # "none"
      PROVE  /\ visit'[w].change \subseteq Blanks(visit'[w].tx)
             /\ visit'[w].change # {} => quote'[visit'[w].tx].inputs # {}
             /\ visit'[w].pc = "unblind" => \A p \in visit'[w].change : disk'[p] = Absent \/ mem'[p] # Absent
             /\ visit'[w].pc = "settle" /\ visit'[w].change # {} => recovery'[visit'[w].tx] = {}
  <2> DEFINE t == visit'[w].tx
  <2>0. t \in Transfer
      BY <1>9, <1>i DEF IInv, VisitKnows
  <2>1. visit'[w].change \subseteq Blanks(t) /\ (visit'[w].change # {} => Taken(t))
    <3>1. JudgePaid => job.pc = "judge"
        BY DEF JudgePaid
    <3>2. visit[w].pc = "ask" => visit[w].tx \in Transfer
        BY DEF IInv, VisitKnows
    <3> QED
        BY <1>9, <2>0, <3>1, <3>2, VisitChange DEF ChangeTrue, MintTrue
  <2>2. visit'[w].change # {} => quote'[t].inputs # {}
    <3>1. \A u \in Transfer : Taken(u) => quote'[u].inputs # {}
        BY <1>5 DEF Taken
    <3> QED
        BY <2>0, <2>1, <3>1 DEF Taken
  <2>3. visit'[w].pc = "unblind" => \A p \in visit'[w].change : disk'[p] = Absent \/ mem'[p] # Absent
    <3>1. Blanks(t) \subseteq Proof
        BY <2>0, BlanksAreProofs
    <3>2. CASE visit'[w] = visit[w]
        BY <1>0, <2>1, <3>1, <3>2 DEF ChangeTrue
    <3>3. CASE visit'[w].change \subseteq recovery[t] /\ UNCHANGED <<disk, mem>>
        BY <2>0, <3>3 DEF ChangeTrue
    <3> QED
        BY <1>9, <3>2, <3>3, VisitChange
  <2>4. visit'[w].pc = "settle" /\ visit'[w].change # {} => recovery'[t] = {}
    <3> SUFFICES ASSUME visit'[w].pc = "settle", visit'[w].change # {} PROVE recovery'[t] = {}
        OBVIOUS
    <3>1. CASE visit'[w] = visit[w]
      <4>1. ~AtAwait
          BY <3>1 DEF AtAwait
      <4>2. ~Submit
          BY <4>1, SubmitIsCold
      <4> QED
          BY <1>1, <2>0, <3>1, <4>2 DEF ChangeTrue
    <3>2. CASE Unblind(w)
      <4>1. visit'[w].tx = visit[w].tx /\ visit'[w].change \subseteq visit[w].change
          BY <3>2 DEF Unblind, IInv, Shapes, EndVisit, Ended, NoVisit
      <4> QED
          BY <3>2, <4>1, RecoveryMoves2 DEF ChangeTrue
    <3> QED
        BY <1>9, <3>1, <3>2, VisitChange
  <2> QED
      BY <2>1, <2>2, <2>3, <2>4
<1> QED
    BY <1>1, <1>4, <1>6, <1>7, <1>8, <1>9 DEF ChangeTrue, Taken

------------------------------------------------------------------------------
(* The outputs of swaps.                                                   *)

\* A task that is about to swap was selecting, or has been swapping.
LEMMA SwapCameFrom ==
    ASSUME IInv, TaskTrue, Lives, job'.pc = "swap"
    PROVE  Select \/ job.pc = "swap"
<1> USE DEF IInv, Shapes
<1>1. CASE UNCHANGED job
    BY <1>1
<1>2. CASE JobRuns
  <2>1. CASE SettlePaid \/ SettlePending \/ Fail \/ OnchainChecked
      BY <2>1 DEF SettlePaid, SettlePending, Fail, OnchainChecked, IdleJob
  <2> QED
      BY <1>2, <2>1 DEF JobRuns, Lock, Prepared, Execute, SettleUnpaid, Rescued
<1>3. CASE JobResumes
    BY <1>3 DEF JobResumes, CommitSwap, Submit, TakeAnswer, TakeError, Recheck, JudgePaid, JudgePending, JudgeUnpaid,
       NestedDone
<1>4. CASE SwapFails \/ LoseAnswer \/ RecheckFails \/ MintSwaps
    BY <1>4 DEF SwapFails, LoseAnswer, RecheckFails, MintSwaps
<1>5. CASE \E t \in Transfer : StartTransfer(t) \/ CheckOnchain(t)
  <2>1. UNCHANGED job \/ job'.pc \in {"select", "checking"}
      BY <1>5 DEF StartTransfer, CheckOnchain, IdleJob
  <2> QED
      BY <1>1, <2>1
<1>6. CASE \E t \in Transfer : AnswerMelt(t)
    BY <1>6 DEF AnswerMelt
<1>7. CASE \E q \in net : RefuseMelt(q)
    BY <1>7 DEF RefuseMelt, Reply
<1> QED
    BY <1>1, <1>2, <1>3, <1>4, <1>5, <1>6, <1>7, JobMoves DEF TaskSteps

\* The outputs of a preemptive swap are not there before their commit, and what a request names stays on disk.
LEMMA OutputsStayTrue ==
    ASSUME IInv, StoreTrue, TaskTrue, SyncTrue, \A w \in Worker : VisitTrue(visit[w]), MintTrue, RequestsTrue, ChangeTrue,
           OutputsTrue, Lives
    PROVE  OutputsTrue'
<1>0. \A p \in Proof : /\ disk[p] # Absent => disk'[p] # Absent
                       /\ disk[p] = Absent => disk'[p] = Absent \/ (Appears(p) /\ mem'[p] # Absent)
                       /\ mem[p] # Absent => mem'[p] # Absent
    BY StoreStaysTrue
<1>m. \A p \in Proof : mem[p] # Absent => disk[p] # Absent
    BY DEF StoreTrue
<1>i. IInv' /\ TaskTrue'
    BY NextStep, TaskKept2 DEF Next, Lives
<1>r. \A t \in Transfer : <<t, "swap">> \in Proof /\ <<t, "rest">> \in Proof
    BY TransferAssumptions DEF Role
<1>1. ASSUME NEW t \in Transfer, NEW p \in {<<t, "swap">>, <<t, "rest">>}, Appears(p) PROVE CommitSwap /\ job.tx = t
  <2>1. p = <<t, "swap">> \/ p = <<t, "rest">>
      BY <1>1
  <2>2. \A u : p \notin Blanks(u)
      BY <2>1 DEF Blanks
  <2>3. SettlePaid \/ SettlePending => p \notin job.change
      BY <2>2 DEF SettlePaid, SettlePending, ChangeTrue
  <2>4. \A w \in Worker : SettleVisit(w) => p \notin visit[w].change
      BY <2>2 DEF SettleVisit, ChangeTrue
  <2>5. CommitSwap /\ p \in {<<job.tx, "swap">>, <<job.tx, "rest">>}
      BY <1>1, <2>3, <2>4 DEF Appears
  <2> QED
      BY <2>1, <2>5
<1>c. CommitSwap => job.pc = "swap" /\ job'.pc = "lock" /\ job'.tx = job.tx /\ UNCHANGED <<mintVars, status, sync>>
                    /\ job'.inputs = {<<job.tx, "swap">>} /\ job.tx \in Transfer
    BY DEF CommitSwap, IInv, Shapes, JobKnows
<1>2. ASSUME NEW t \in Transfer, status'[t] = "none" \/ (job'.tx = t /\ job'.pc \in {"select", "swap"})
      PROVE  disk'[<<t, "swap">>] = Absent /\ disk'[<<t, "rest">>] = Absent
  <2>1. ~(CommitSwap /\ job.tx = t)
    <3>1. status'[t] = "none" => status[t] = "none"
        BY StatusMoves
    <3> QED
        BY <1>2, <1>c, <3>1 DEF TaskTrue
  <2>2. status[t] = "none" \/ (job.tx = t /\ job.pc \in {"select", "swap"})
    <3>1. status'[t] = "none" => status[t] = "none"
        BY StatusMoves
    <3>2. CASE job'.tx = t /\ job'.pc = "select"
      <4>1. CASE job'.tx = job.tx
        <5>1. job.pc \in Asking \cup {"nested", "nestedtwice"} \/ job.pc \in {"wait", "judge"}
            BY <3>2, <4>1, JobCameFrom DEF Asking
        <5>2. UNCHANGED job
          <6>1. CASE JobRuns
            <7>1. CASE Lock \/ Prepared \/ Execute \/ SettleUnpaid \/ Rescued
                BY <3>2, <7>1 DEF Lock, Prepared, Execute, SettleUnpaid, Rescued, IInv, Shapes
            <7>2. CASE SettlePaid \/ SettlePending \/ Fail \/ OnchainChecked
                BY <3>2, <7>2 DEF SettlePaid, SettlePending, Fail, OnchainChecked, IdleJob
            <7> QED
                BY <6>1, <7>1, <7>2 DEF JobRuns
          <6>2. CASE JobResumes /\ ~Select
            <7>1. CASE Submit \/ TakeAnswer \/ JudgePaid \/ JudgePending \/ CommitSwap \/ Recheck
                BY <3>2, <7>1 DEF Submit, TakeAnswer, JudgePaid, JudgePending, CommitSwap, Recheck, IInv, Shapes
            <7>2. CASE TakeError \/ JudgeUnpaid \/ NestedDone
                BY <3>2, <7>2 DEF TakeError, JudgeUnpaid, NestedDone, IInv, Shapes
            <7> QED
                BY <6>2, <7>1, <7>2 DEF JobResumes
          <6>3. CASE Select
              BY <3>2, <6>3, SelectIs
          <6>4. CASE SwapFails \/ LoseAnswer \/ RecheckFails \/ MintSwaps
              BY <3>2, <6>4 DEF SwapFails, LoseAnswer, RecheckFails, MintSwaps, IInv, Shapes
          <6>5. ASSUME NEW u \in Transfer, StartTransfer(u) \/ CheckOnchain(u) PROVE UNCHANGED job
            <7>1. job.pc = "idle"
                BY <6>5 DEF StartTransfer, CheckOnchain, Ready, IdleJob
            <7> QED
                BY <5>1, <7>1 DEF Asking
          <6>6. ASSUME NEW u \in Transfer, AnswerMelt(u) PROVE UNCHANGED job
              BY <3>2, <6>6 DEF AnswerMelt, IInv, Shapes
          <6>7. ASSUME NEW q \in net, RefuseMelt(q) PROVE UNCHANGED job
              BY <3>2, <6>7 DEF RefuseMelt, Reply, IInv, Shapes
          <6> QED
              BY <6>1, <6>2, <6>3, <6>4, <6>5, <6>6, <6>7, JobMoves DEF TaskSteps
        <5> QED
            BY <3>2, <5>2
      <4>2. CASE job'.tx # job.tx
          BY <3>2, <4>2, JobTransfer DEF IdleJob
      <4> QED
          BY <4>1, <4>2
    <3>3. CASE job'.tx = t /\ job'.pc = "swap"
      <4>1. CASE Select
          BY <3>3, <4>1, SelectIs
      <4>2. CASE Lock
          BY <3>3, <4>2 DEF Lock, IInv, Shapes
      <4>3. CASE job'.tx = job.tx
          BY <3>3, <4>1, <4>3, SwapCameFrom
      <4> QED
          BY <3>3, <4>1, <4>2, <4>3, RowHeld DEF WithRow, Holding
    <3> QED
        BY <1>2, <3>1, <3>2, <3>3
  <2> QED
      BY <1>0, <1>1, <1>r, <2>1, <2>2 DEF OutputsTrue
<1>3. \A p \in job'.inputs : disk'[p] # Absent
  <2>1. CASE Select
    <3>1. PICK S \in SUBSET Proof, op \in {"transfer-swap", "transfer-melt"} : Reserve(job.tx, op, S, "UNSPENT") /\ job'.inputs = S
        BY <2>1, SelectIs
    <3>2. \A p \in S : p \in Proof /\ mem[p] # Absent
        BY <3>1 DEF Reserve, Live
    <3> QED
        BY <1>0, <1>m, <3>1, <3>2
  <2>2. CASE CommitSwap
    <3>1. Commit(job.row, job.inputs, {}, SwapOutputs(job.tx)) /\ job.tx \in Transfer /\ job.tx \in Tx
        BY <2>2, <1>c, TransferAssumptions DEF CommitSwap
    <3>2. disk'[<<job.tx, "swap">>] = Held("PENDING", job.tx)
      <4>1. Kinded
          BY StoreParts
      <4>2. /\ DOMAIN SwapOutputs(job.tx) = {<<job.tx, "swap">>, <<job.tx, "rest">>}
            /\ SwapOutputs(job.tx)[<<job.tx, "swap">>] = Held("PENDING", job.tx)
            /\ \A p \in DOMAIN SwapOutputs(job.tx) : SwapOutputs(job.tx)[p] \in Rec
          BY <3>1, OutputsDo
      <4>3. \A p \in Proof : p \in DOMAIN SwapOutputs(job.tx) => disk'[p] = SwapOutputs(job.tx)[p]
          BY <3>1, <4>1, <4>2, CommitDoes
      <4> QED
          BY <3>1, <1>r, <4>2, <4>3
    <3> QED
        BY <2>2, <1>c, <3>2 DEF Held, Absent
  <2>3. CASE job'.inputs \in {job.inputs, {}}
      BY <1>0, <2>3 DEF OutputsTrue, TaskTrue
  <2> QED
      BY <2>1, <2>2, <2>3, JobInputs
<1>4. \A p \in mintSpent' : disk'[p] # Absent
  <2>1. CASE UNCHANGED mintSpent
      BY <1>0, <2>1 DEF OutputsTrue, MintTrue
  <2>2. CASE MintSwaps
    <3>1. mintSpent' = mintSpent \cup job.inputs
        BY <2>2 DEF MintSwaps
    <3> QED
        BY <1>0, <3>1 DEF OutputsTrue, MintTrue, TaskTrue
  <2>3. ASSUME NEW t \in Transfer, Broadcast(t) \/ PaymentSucceeds(t) \/ PaymentFails(t) PROVE \A p \in mintSpent' : disk'[p] # Absent
    <3>1. mintSpent' \subseteq mintSpent \cup quote[t].inputs
        BY <2>3, NetworkIs
    <3> QED
        BY <1>0, <3>1 DEF OutputsTrue, MintTrue
  <2>4. ASSUME NEW q \in net, TakeMelt(q) PROVE UNCHANGED mintSpent
      BY <2>4, TakeIs
  <2> QED
      BY <2>1, <2>2, <2>3, <2>4, MintDoesSo DEF MintDoes, mintVars
<1>5. \A p \in sync'.batch : disk'[p] # Absent
  <2>0. \A s : \A p \in Having(mem, s) : s # "none" => p \in Proof /\ mem[p] # Absent
      BY RecIs DEF Having
  <2>1. ASSUME NEW S, NEW s, StartSync(S, s), \A p \in S : p \in Proof /\ disk[p] # Absent PROVE \A p \in sync'.batch : disk'[p] # Absent
    <3>1. sync' = sync \/ sync'.batch = S
        BY <2>1 DEF StartSync, IdleSync
    <3> QED
        BY <1>0, <2>1, <3>1 DEF OutputsTrue, SyncTrue
  <2>2. CASE sync'.batch \in {sync.batch, {}}
      BY <1>0, <2>2 DEF OutputsTrue, SyncTrue
  <2>3. CASE JudgeUnpaid
    <3>1. UNCHANGED sync \/ StartSync(Having(mem, "PENDING"), "PENDING") \/ StartSync(job.inputs, "PENDING")
        BY <2>3 DEF JudgeUnpaid
    <3> QED
        BY <1>m, <2>0, <2>1, <2>2, <3>1 DEF OutputsTrue, TaskTrue
  <2>4. CASE NestedDone
    <3>1. UNCHANGED sync \/ StartSync(Having(mem, "PENDING"), "PENDING")
        BY <2>4 DEF NestedDone
    <3> QED
        BY <1>m, <2>0, <2>1, <2>2, <3>1
  <2>5. ASSUME NEW s \in {"PENDING", "UNSPENT"}, SyncAll(s) PROVE \A p \in sync'.batch : disk'[p] # Absent
    <3>1. StartSync(Having(mem, s), s)
        BY <2>5 DEF SyncAll
    <3> QED
        BY <1>m, <2>0, <2>1, <3>1
  <2>6. CASE SyncRuns
    <3>1. CASE Synced
        BY <2>2, <3>1 DEF Synced, IdleSync
    <3>2. CASE Dispatched \/ Register \/ Unregister \/ GoneRefreshed
        BY <2>2, <3>2 DEF Dispatched, Register, Unregister, GoneRefreshed, SyncTrue
    <3>3. ASSUME NEW t \in Tx, SettleShort(t) \/ SkipSettled(t) \/ Dispatch(t) \/ RefreshGone(t)
          PROVE  sync'.batch = sync.batch
        BY <3>3 DEF SettleShort, SkipSettled, Dispatch, RefreshGone, SyncTrue
    <3> QED
        BY <2>2, <2>6, <3>1, <3>2, <3>3 DEF SyncRuns
  <2>7. CASE SyncResumes
      BY <2>2, <2>7 DEF SyncResumes, Check, WriteOff, MarkPending, SyncTrue
  <2>8. CASE CheckFails
      BY <2>2, <2>8 DEF CheckFails, IdleSync
  <2> QED
      BY <2>2, <2>3, <2>4, <2>5, <2>6, <2>7, <2>8, SyncMoves DEF SyncSteps
<1>6. \A q \in net' : \A p \in q.inputs : disk'[p] # Absent
  <2>1. CASE net' \subseteq net
      BY <1>0, <2>1 DEF OutputsTrue, RequestsTrue
  <2>2. CASE Submit
    <3>1. net' = net \cup {[tx |-> job.tx, inputs |-> job.inputs, blank |-> ChangeOutputs(job.tx, job.attempt)]}
        BY <2>2 DEF Submit
    <3> QED
        BY <1>0, <3>1 DEF OutputsTrue, RequestsTrue, TaskTrue
  <2>3. ASSUME NEW q \in net, TakeMelt(q) PROVE net' \subseteq net
      BY <2>3, TakeIs
  <2>4. ASSUME NEW t \in Transfer, Broadcast(t) \/ PaymentSucceeds(t) \/ PaymentFails(t) PROVE net' \subseteq net
      BY <2>4, NetworkIs
  <2> QED
      BY <2>1, <2>2, <2>3, <2>4, MintDoesSo DEF MintDoes, mintVars
<1>7. ASSUME NEW t \in Transfer, NEW p \in quote'[t].inputs PROVE disk'[p] # Absent
  <2>1. CASE p \in quote[t].inputs
      BY <1>0, <2>1 DEF OutputsTrue, MintTrue
  <2>2. ASSUME NEW q \in net, p \in q.inputs PROVE disk'[p] # Absent
      BY <1>0, <2>2 DEF OutputsTrue, RequestsTrue
  <2> QED
      BY <1>7, <2>1, <2>2, MintFacts
<1>8. job'.pc \in Holding => job'.inputs \cap Blanks(job'.tx) = {}
  <2>1. CASE Select
    <3>1. PICK S \in SUBSET Proof, op \in {"transfer-swap", "transfer-melt"} : Reserve(job.tx, op, S, "UNSPENT") /\ job'.inputs = S /\ job'.tx = job.tx
        BY <2>1, SelectIs
    <3>2. \A p \in S : p \in Proof /\ mem[p] # Absent
        BY <3>1 DEF Reserve, Live
    <3>3. job.tx \in Transfer /\ ~Taken(job.tx)
        BY <2>1, SelectIs DEF IInv, JobKnows, RequestsTrue, Asking
    <3> QED
        BY <1>m, <3>1, <3>2, <3>3 DEF ChangeTrue
  <2>2. <<job.tx, "swap">> \notin Blanks(job.tx)
      BY DEF Blanks
  <2> QED
      BY <2>1, <2>2, JobHolds DEF OutputsTrue
<1> QED
    BY <1>2, <1>3, <1>4, <1>5, <1>6, <1>7, <1>8 DEF OutputsTrue

------------------------------------------------------------------------------
(* All together.                                                           *)

\* A step of a wallet that is alive keeps all of it.
LEMMA LivesKeep == ASSUME IInv, AInv, Lives PROVE AInv'
<1> USE DEF AInv
<1>1. IInv'
    BY NextStep DEF Next, Lives
<1>2. OneRuns' /\ StoreTrue' /\ TaskTrue' /\ SyncTrue' /\ MintTrue' /\ RequestsTrue'
    BY OneRunsKept, StoreStaysTrue, TaskKept2, SyncKept2, MintStaysTrue, RequestsStayTrue
<1>3. ChangeTrue' /\ OutputsTrue'
    BY ChangeStaysTrue, OutputsStayTrue
<1>4. \A w \in Worker : VisitTrue(visit'[w])
    BY VisitKept2
<1>5. (\A w \in Worker : VisitTrue(visit[w]))'
    BY <1>4 DEF VisitTrue
<1> QED
    BY <1>2, <1>3, <1>5

\* The empty task, sync and visit.
LEMMA IdleIs ==
    /\ IdleJob.pc = "idle" /\ IdleJob.tx = NoTx /\ IdleJob.inputs = {} /\ IdleJob.answer = "none" /\ IdleJob.change = {}
    /\ IdleSync.pc = "idle" /\ IdleSync.from = "PENDING" /\ IdleSync.batch = {} /\ IdleSync.spent = {} /\ IdleSync.pend = {}
    /\ NoVisit.pc = "none" /\ NoVisit.pending = {} /\ NoVisit.mode = "none" /\ NoVisit.seen = "none" /\ NoVisit.change = {}
BY DEF IdleJob, IdleSync, NoVisit

\* Nothing runs after a crash and before the recovery has ended.
LEMMA DeadIsTrue ==
    ASSUME job = IdleJob, sync = IdleSync, \A w \in Worker : visit[w] = NoVisit
    PROVE  OneRuns /\ TaskTrue /\ SyncTrue /\ (\A w \in Worker : VisitTrue(visit[w]))
<1>1. OneRuns
    BY IdleIs DEF OneRuns, JobHot, SyncHot, VisitHot
<1>2. TaskTrue
    BY IdleIs DEF TaskTrue
<1>3. SyncTrue
    BY IdleIs DEF SyncTrue, IdleSync
<1>4. \A w \in Worker : VisitTrue(visit[w])
    BY IdleIs DEF VisitTrue
<1> QED
    BY <1>1, <1>2, <1>3, <1>4

\* A crash keeps all of it.
LEMMA CrashKeeps == ASSUME IInv, AInv, Crash PROVE AInv'
<1> USE DEF AInv
<1>1. /\ job' = IdleJob /\ sync' = IdleSync /\ \A w \in Worker : visit'[w] = NoVisit
      /\ \A p \in Proof : mem'[p] = Absent
      /\ \A t \in Transfer : status'[t] = "none" <=> status[t] = "none"
      /\ UNCHANGED <<disk, rows, recovery, quote, change, mintSpent, net>>
    BY TransferAssumptions, ReadingAgain DEF Crash, Rereads, mintVars
<1>2. OneRuns' /\ TaskTrue' /\ SyncTrue' /\ (\A w \in Worker : VisitTrue(visit[w]))'
  <2>1. OneRuns'
      BY <1>1, IdleIs DEF OneRuns, JobHot, SyncHot, VisitHot
  <2>2. TaskTrue'
      BY <1>1, IdleIs DEF TaskTrue
  <2>3. SyncTrue'
      BY <1>1, IdleIs DEF SyncTrue, IdleSync
  <2>4. (\A w \in Worker : VisitTrue(visit[w]))'
      BY <1>1, IdleIs DEF VisitTrue
  <2> QED
      BY <2>1, <2>2, <2>3, <2>4
<1>3. StoreTrue'
    BY <1>1, IdleIs DEF StoreTrue, WithRow, Holding
<1>4. MintTrue'
    BY <1>1 DEF MintTrue, Standing, Taken
<1>5. RequestsTrue'
    BY <1>1, IdleIs DEF RequestsTrue, Taken, Requested, Holding, Asking
<1>6. ChangeTrue'
    BY <1>1, IdleIs DEF ChangeTrue, Taken
<1>7. OutputsTrue'
    BY <1>1, IdleIs DEF OutputsTrue, Holding
<1> QED
    BY <1>2, <1>3, <1>4, <1>5, <1>6, <1>7

\* So do the steps of a restart.
LEMMA RestartKeeps == ASSUME IInv, AInv, Restart PROVE AInv'
<1> USE DEF AInv
<1>0. /\ UNCHANGED <<status, recovery, job, sync, visit, quote, change, mintSpent, net>>
      /\ phase \in {"loading", "recovering"}
    BY DEF Restart, Load, Recovered, RecoverOrphan, transferVars, queueVars, mintVars
<1>1. job = IdleJob /\ sync = IdleSync /\ \A w \in Worker : visit[w] = NoVisit
    BY <1>0 DEF TaskTrue
<1>2. OneRuns' /\ TaskTrue' /\ SyncTrue' /\ (\A w \in Worker : VisitTrue(visit[w]))'
  <2>1. OneRuns'
      BY <1>0, <1>1, IdleIs DEF OneRuns, JobHot, SyncHot, VisitHot
  <2>2. TaskTrue'
      BY <1>0, <1>1, IdleIs DEF TaskTrue
  <2>3. SyncTrue'
      BY <1>0, <1>1, IdleIs DEF SyncTrue, IdleSync
  <2>4. (\A w \in Worker : VisitTrue(visit[w]))'
      BY <1>0, <1>1, IdleIs DEF VisitTrue
  <2> QED
      BY <2>1, <2>2, <2>3, <2>4
<1>3. StoreTrue' /\ \A p \in Proof : disk[p] # Absent <=> disk'[p] # Absent
  <2>1. CASE Load
      BY <1>0, <1>1, <2>1, IdleIs DEF StoreTrue, Load, LoadProofs, WithRow, Holding
  <2>2. CASE Recovered
      BY <2>2 DEF StoreTrue, Recovered, storeVars, queueVars
  <2>3. ASSUME NEW r \in rows, RecoverOrphan(r) PROVE StoreTrue' /\ \A p \in Proof : disk[p] # Absent <=> disk'[p] # Absent
    <3>1. Kinded /\ RowsTrue
        BY StoreParts
    <3>2. /\ Kinded' /\ rows' = rows \ {r}
          /\ \A p \in Proof : disk'[p] = IF p \in DOMAIN r.locked /\ disk[p] # Absent THEN r.locked[p] ELSE disk[p]
        BY <2>3, <3>1, RollbackDoes DEF RecoverOrphan, RowsTrue
    <3>3. RowsTrue' /\ RowTrue'
        BY <1>0, <1>1, <3>1, <3>2, IdleIs DEF RowsTrue, RowTrue, WithRow, Holding
    <3>4. StoreTrue'
        BY <3>2, <3>3 DEF StoreTrue, Kinded, Kind, RowsTrue, RowTrue
    <3>5. \A p \in DOMAIN r.locked : r.locked[p] # Absent
        BY <3>1, NoTxAssumption DEF RowsTrue, Absent, Held
    <3> QED
        BY <3>2, <3>4, <3>5
  <2> QED
      BY <2>1, <2>2, <2>3 DEF Restart
<1>4. MintTrue'
    BY <1>0 DEF MintTrue, Standing, Taken
<1>5. RequestsTrue'
    BY <1>0, <1>1, IdleIs DEF RequestsTrue, Taken, Requested, Holding, Asking
<1>6. ChangeTrue'
  <2>1. \A t \in Transfer : Blanks(t) \subseteq Proof
      BY TransferAssumptions DEF Blanks, Role
  <2>2. \A t \in Transfer : Taken(t)' <=> Taken(t)
      BY <1>0 DEF Taken
  <2> QED
      BY <1>0, <1>1, <1>3, <2>1, <2>2, IdleIs DEF ChangeTrue
<1>7. OutputsTrue'
  <2>1. \A t \in Transfer : <<t, "swap">> \in Proof /\ <<t, "rest">> \in Proof
      BY TransferAssumptions DEF Role
  <2>2. mintSpent \subseteq Proof /\ (\A q \in net : q.inputs \subseteq Proof) /\ \A t \in Transfer : quote[t].inputs \subseteq Proof
      BY DEF MintTrue, RequestsTrue
  <2> QED
      BY <1>0, <1>1, <1>3, <2>1, <2>2, IdleIs DEF OutputsTrue, Holding
<1> QED
    BY <1>2, <1>3, <1>4, <1>5, <1>6, <1>7

\* Every step keeps it.
LEMMA AlwaysStep == IInv /\ AInv /\ [Next]_vars => AInv'
<1> SUFFICES ASSUME IInv, AInv, [Next]_vars PROVE AInv'
    OBVIOUS
<1>1. CASE UNCHANGED vars
  <2>1. UNCHANGED <<disk, mem, rows, status, recovery, job, sync, visit, phase, quote, change, mintSpent, net>>
      BY <1>1 DEF vars, storeVars, transferVars, mintVars, queueVars
  <2>2. OneRuns' /\ StoreTrue' /\ TaskTrue' /\ SyncTrue' /\ (\A w \in Worker : VisitTrue(visit[w]))'
      BY <2>1 DEF AInv, OneRuns, JobHot, SyncHot, VisitHot, StoreTrue, TaskTrue, SyncTrue, VisitTrue
  <2>3. MintTrue' /\ RequestsTrue' /\ ChangeTrue' /\ OutputsTrue'
      BY <2>1 DEF AInv, MintTrue, RequestsTrue, ChangeTrue, OutputsTrue, Taken, Standing, Requested
  <2> QED
      BY <2>2, <2>3 DEF AInv
<1> QED
    BY <1>1, LivesKeep, CrashKeeps, RestartKeeps DEF Next, Lives

\* It holds at the start.
LEMMA AlwaysInit == Init => AInv
<1> SUFFICES ASSUME Init PROVE AInv
    OBVIOUS
<1>1. /\ job = IdleJob /\ sync = IdleSync /\ \A w \in Worker : visit[w] = NoVisit
      /\ rows = {} /\ phase = "up" /\ net = {} /\ mintSpent = {} /\ mem = disk
      /\ \A p \in Proof : disk[p] = IF p \in Base THEN Held("UNSPENT", Genesis) ELSE Absent
      /\ \A t \in Transfer : /\ status[t] = "none" /\ recovery[t] = {} /\ change[t] = {}
                             /\ quote[t].state = "UNPAID" /\ quote[t].inputs = {} /\ quote[t].blank = {}
      /\ DOMAIN change = Transfer /\ DOMAIN recovery = Transfer
    BY TransferAssumptions DEF Init
<1>2. OneRuns /\ TaskTrue /\ SyncTrue /\ (\A w \in Worker : VisitTrue(visit[w]))
    BY <1>1, DeadIsTrue
<1>3. StoreTrue
  <2>1. \A p \in Proof : disk[p] \in Rec \cup {Absent}
      BY <1>1, TransferAssumptions, RecIs DEF ProofState
  <2> QED
      BY <1>1, <2>1, IdleIs DEF StoreTrue, WithRow, Holding
<1>4. MintTrue
    BY <1>1 DEF MintTrue, Standing, Taken, Answers
<1>5. RequestsTrue
    BY <1>1, IdleIs DEF RequestsTrue, Taken, Requested, Holding, Asking
<1>6. \A t \in Transfer, r \in Role : disk[<<t, r>>] = Absent
    BY <1>1, TransferAssumptions
<1>7. ChangeTrue
    BY ZenonT(30), <1>1, <1>6, IdleIs DEF ChangeTrue, Taken, Blanks, Role
<1>8. OutputsTrue
    BY <1>1, <1>6, IdleIs DEF OutputsTrue, Holding, Role
<1> QED
    BY <1>2, <1>3, <1>4, <1>5, <1>7, <1>8 DEF AInv
==============================================================================
