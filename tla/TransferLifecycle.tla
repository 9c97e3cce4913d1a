--------------------------- MODULE TransferLifecycle ---------------------------
(***************************************************************************)
(* Paying out: melting ecash for a lightning or an onchain payment.        *)
(* transferTask over TransferOperationApi (prepare, execute, the re-check  *)
(* after an error, finalize, refresh), the recovery of change, and the     *)
(* branches of the sync that settle, mark and revert transfers.            *)
(*                                                                         *)
(* Three kinds of worker settle a transfer and run past each other: the    *)
(* queue (one task at a time, the sync among them), the monitor of each    *)
(* lightning payment, which calls refresh from a websocket or a poller     *)
(* OUTSIDE the queue, and the user on the recovery screen.  A visit is one *)
(* of them being inside finalize, refresh or recoverMeltQuoteChange.       *)
(*                                                                         *)
(* A sweep writes EXPIRED over a lightning payment whose invoice is out of *)
(* date, also while it is in flight.  Memory does not hear of it before    *)
(* the transaction is read again; then refresh leaves the payment alone    *)
(* and finalize refuses it.                                                *)
(*                                                                         *)
(* A transfer's outputs are <<t, role>>: the proofs of the preemptive swap *)
(* (what will be melted, the rest) and the change of its first and second  *)
(* attempt.  Fees are zero; what the network does not use of the reserve   *)
(* comes back as change.                                                   *)
(***************************************************************************)
EXTENDS ProofsStore, Integers, Sequences, FiniteSets, FiniteSetsExt

CONSTANTS
    Base,           \* proofs the wallet holds at the start
    Value,          \* Proof -> what each is worth
    Genesis,        \* the completed transaction that received them
    Transfer,       \* the other transactions: transfers
    Onchain,        \* those of them that pay onchain
    Dated,          \* lightning transfers that keep an expiry: of invoices that came over Nostr
    Need,           \* Transfer -> amount and fee reserve, what the inputs must cover
    Amount,         \* Transfer -> the amount alone
    Mishap,         \* which of {"crash", "timeout", "signed", "byhand", "late"} may happen
    MaxMishaps      \* bound: how many of them in all

Role == {"swap", "rest", "change1", "change2"}

ASSUME TransferAssumptions ==
    /\ Genesis \notin Transfer /\ Tx = Transfer \cup {Genesis}
    /\ Onchain \subseteq Transfer /\ Dated \subseteq Transfer \ Onchain
    /\ Base \cap (Transfer \X Role) = {}
    /\ Proof = Base \cup (Transfer \X Role)

VARIABLES
    status,     \* Tx -> TransactionStatus, in the table and in memory; "EXPIRING" if they differ
    recovery,   \* melt_recovery table: Transfer -> change outputs, or {}
    registry,   \* pendingByMintSecrets
    job,        \* the queue's transfer task
    sync,       \* the queue's syncStateWithMintTask, alone or inside a transfer task
    visit,      \* Worker -> its visit to a transfer
    watched,    \* lightning transfers with a live websocket or poller
    phase,      \* where the process is in its life
    quote,      \* mint: Transfer -> its melt quote, with the inputs and blank outputs
    change,     \* mint: Transfer -> change it has signed
    mintSpent,  \* mint: spent proofs
    net,        \* melt requests the mint may still process
    faults      \* mishaps so far

mintVars     == <<quote, change, mintSpent, net>>
queueVars    == <<job, sync>>
transferVars == <<status, recovery, registry, queueVars, visit, watched, phase, mintVars, faults>>
vars         == <<storeVars, transferVars>>

\* Who visits: the queue, the recovery screen, or the monitor of transfer t as t.
Queue  == NoTx
Screen == Genesis
Worker == Tx \cup {NoTx}

Bolt == Transfer \ Onchain

Worth(S) == MapThenSumSet(LAMBDA p : Value[p], S)

\* What a payment may need at most is at least what it pays; the preemptive swap asks for exactly
\* that.
ASSUME ValueAssumptions ==
    /\ IsFiniteSet(Proof) /\ Value \in [Proof -> Nat]
    /\ \A t \in Transfer :
        /\ Amount[t] \in Nat \ {0} /\ Need[t] \in Nat /\ Amount[t] <= Need[t]
        /\ Need[t] <= Value[<<t, "swap">>]

NoRow    == [tx |-> NoTx]
IdleJob  == [pc |-> "idle", tx |-> NoTx, row |-> NoRow, inputs |-> {}, attempt |-> 0,
             answer |-> "none", seen |-> "none", change |-> {}]
IdleSync == [pc |-> "idle", from |-> "PENDING", batch |-> {}, spent |-> {}, pend |-> {},
             todo |-> {}, short |-> {}, ids |-> {}, at |-> NoTx]
NoVisit  == [pc |-> "none", tx |-> NoTx, mode |-> "none", seen |-> "none",
             pending |-> {}, change |-> {}]

------------------------------------------------------------------------------
Init ==
    /\ disk = [p \in Proof |-> IF p \in Base THEN Held("UNSPENT", Genesis) ELSE Absent]
    /\ mem = disk
    /\ rows = {}
    /\ status = [t \in Tx |-> IF t = Genesis THEN "COMPLETED" ELSE "none"]
    /\ recovery = [t \in Transfer |-> {}]
    /\ registry = {} /\ watched = {}
    /\ job = IdleJob /\ sync = IdleSync
    /\ visit = [w \in Worker |-> NoVisit]
    /\ phase = "up"
    /\ quote = [t \in Transfer |-> [state |-> "UNPAID", inputs |-> {}, blank |-> {}]]
    /\ change = [t \in Transfer |-> {}]
    /\ mintSpent = {} /\ net = {}
    /\ faults = <<>>

Spendable    == Having(mem, "UNSPENT")
PendingOf(t) == {p \in Having(mem, "PENDING") : mem[p].tx = t}
OwnersOf(S)  == {mem[p].tx : p \in S} \ {NoTx}

Ready == phase = "up" /\ job = IdleJob /\ sync = IdleSync /\ visit[Queue] = NoVisit

\* One more mishap, if the bound allows it.
Suffer(kind) ==
    /\ kind \in Mishap /\ Len(faults) < MaxMishaps
    /\ faults' = Append(faults, kind)

TimeOut == Suffer("timeout")

SetStatus(t, s) == status' = [status EXCEPT ![t] = s]

\* "EXPIRING": the table says EXPIRED and the transaction in memory still PENDING.  Every other
\* write of a status goes to both.
InFlight(t) == status[t] \in {"PENDING", "EXPIRING"}

\* A transaction that is read again from the table forgets what memory said of it.
ReadAgain(T) == [t \in Tx |-> IF t \in T /\ status[t] = "EXPIRING" THEN "EXPIRED" ELSE status[t]]

Unspent(S, t) == [p \in S |-> Held("UNSPENT", t)]

------------------------------------------------------------------------------
(* transferTask: prepare.                                                  *)

\* The draft is written first; if the balance does not cover the amount and the fee
\* reserve, prepare throws and nothing ever touches the draft again.
StartTransfer(t) ==
    /\ Ready
    /\ status[t] = "none"
    /\ SetStatus(t, "DRAFT")
    /\ job' = IF Worth(Spendable) >= Need[t]
              THEN [IdleJob EXCEPT !.pc = "select", !.tx = t] ELSE job
    /\ UNCHANGED <<storeVars, recovery, registry, sync, visit, watched, phase, mintVars, faults>>

Covers(S, n) == Worth(S) >= n /\ \A p \in S : Worth(S \ {p}) < n

\* Inputs more than a tenth over what is needed are swapped for tighter ones first.
Overshoots(t, S) == 10 * Worth(S) > 11 * Need[t]

Select ==
    /\ job.pc = "select"
    /\ \E S \in SUBSET Spendable :
        /\ Covers(S, Need[job.tx])
        /\ LET swap == Overshoots(job.tx, S)
               op   == IF swap THEN "transfer-swap" ELSE "transfer-melt"
           IN  /\ Reserve(job.tx, op, S, "UNSPENT")
               /\ job' = [job EXCEPT !.pc = IF swap THEN "swap" ELSE "locked", !.inputs = S,
                                     !.row = RowFor(job.tx, op, S, "UNSPENT")]
    /\ UNCHANGED <<status, recovery, registry, sync, visit, watched, phase, mintVars, faults>>

AtMint(t) == IF quote[t].state = "PENDING" THEN quote[t].inputs ELSE {}
HeldAtMint == (UNION {AtMint(t) : t \in Transfer}) \ mintSpent
Free(S) == S \cap (mintSpent \cup HeldAtMint) = {}

MintSwaps ==
    /\ job.pc = "swap" /\ job.answer = "none" /\ Free(job.inputs)
    /\ mintSpent' = mintSpent \cup job.inputs
    /\ job' = [job EXCEPT !.answer = "swapped"]
    /\ UNCHANGED <<storeVars, status, recovery, registry, sync, visit, watched, phase,
                   quote, change, net, faults>>

SwapOutputs(t) ==
    [p \in {<<t, "swap">>, <<t, "rest">>} |->
        Held(IF p = <<t, "swap">> THEN "PENDING" ELSE "UNSPENT", t)]

CommitSwap ==
    /\ job.pc = "swap" /\ job.answer = "swapped"
    /\ Commit(job.row, job.inputs, {}, SwapOutputs(job.tx))
    /\ registry' = registry \ job.inputs
    /\ job' = [job EXCEPT !.pc = "lock", !.inputs = {<<job.tx, "swap">>}, !.answer = "none"]
    /\ UNCHANGED <<status, recovery, sync, visit, watched, phase, mintVars, faults>>

\* The swap is best effort: on any error the original proofs are melted.
SwapFails ==
    /\ job.pc = "swap"
    /\ \/ job.answer = "none" /\ ~Free(job.inputs) /\ UNCHANGED faults
       \/ TimeOut
    /\ Rollback(job.row)
    /\ job' = [job EXCEPT !.pc = "lock", !.answer = "none"]
    /\ UNCHANGED <<status, recovery, registry, sync, visit, watched, phase, mintVars>>

\* The melt reservation, which stays open until the payment is settled.
Lock ==
    /\ job.pc = "lock"
    /\ Reserve(job.tx, "transfer-melt", job.inputs, "UNSPENT")
    /\ job' = [job EXCEPT !.pc = "locked",
                          !.row = RowFor(job.tx, "transfer-melt", job.inputs, "UNSPENT")]
    /\ UNCHANGED <<status, recovery, registry, sync, visit, watched, phase, mintVars, faults>>

Prepared ==
    /\ job.pc = "locked"
    /\ SetStatus(job.tx, "PREPARED")
    /\ job' = [job EXCEPT !.pc = "prepared"]
    /\ UNCHANGED <<storeVars, recovery, registry, sync, visit, watched, phase, mintVars, faults>>

------------------------------------------------------------------------------
(* transferTask: execute.                                                  *)

Execute ==
    /\ job.pc = "prepared" /\ status[job.tx] = "PREPARED" /\ job.row \in rows
    /\ SetStatus(job.tx, "EXECUTING")
    /\ job' = [job EXCEPT !.pc = "submit", !.attempt = 1]
    /\ UNCHANGED <<storeVars, recovery, registry, sync, visit, watched, phase, mintVars, faults>>

ChangeOutputs(t, attempt) == {<<t, IF attempt = 1 THEN "change1" ELSE "change2">>}

\* Mutant: the preview is not stored before the request goes out.
SubmitWithoutPreview ==
    /\ job.pc = "submit"
    /\ LET blank == ChangeOutputs(job.tx, job.attempt)
       IN  net' = net \cup {[tx |-> job.tx, inputs |-> job.inputs, blank |-> blank]}
    /\ job' = [job EXCEPT !.pc = "wait", !.answer = "none"]
    /\ UNCHANGED <<storeVars, status, recovery, registry, sync, visit, watched, phase,
                   quote, change, mintSpent, faults>>

\* payLightningMelt, payOnchainMelt: the blank outputs go to melt_recovery (the first
\* row of a transaction wins), then the request to the mint.
Submit ==
    /\ job.pc = "submit"
    /\ LET blank == ChangeOutputs(job.tx, job.attempt)
       IN  /\ recovery' = [recovery EXCEPT ![job.tx] = IF @ = {} THEN blank ELSE @]
           /\ net' = net \cup {[tx |-> job.tx, inputs |-> job.inputs, blank |-> blank]}
    /\ job' = [job EXCEPT !.pc = "wait", !.answer = "none"]
    /\ UNCHANGED <<storeVars, status, registry, sync, visit, watched, phase,
                   quote, change, mintSpent, faults>>

\* An answer: the recovery row goes, unless change is still to come.
TakeAnswer ==
    /\ job.pc = "wait" /\ job.answer \in {"PENDING", "PAID", "UNPAID"}
    /\ LET over == IF job.tx \in Onchain THEN job.change # {} ELSE job.answer # "PENDING"
       IN  recovery' = [recovery EXCEPT ![job.tx] = IF over THEN {} ELSE @]
    /\ job' = [job EXCEPT !.pc = "settle"]
    /\ UNCHANGED <<storeVars, status, registry, sync, visit, watched, phase, mintVars, faults>>

\* An error from the mint: the recovery row goes too.  Outputs that are already signed
\* are worth one more attempt.
TakeError ==
    /\ job.pc = "wait" /\ job.answer \in {"spent", "taken", "signed"}
    /\ recovery' = [recovery EXCEPT ![job.tx] = {}]
    /\ job' = IF job.answer = "signed" /\ job.attempt = 1
              THEN [job EXCEPT !.pc = "submit", !.attempt = 2]
              ELSE [job EXCEPT !.pc = "recheck"]
    /\ UNCHANGED <<storeVars, status, registry, sync, visit, watched, phase, mintVars, faults>>

\* No answer: the row is kept.
LoseAnswer ==
    /\ job.pc = "wait"
    /\ TimeOut
    /\ job' = [job EXCEPT !.pc = "recheck", !.answer = "lost"]
    /\ UNCHANGED <<storeVars, status, recovery, registry, sync, visit, watched, phase, mintVars>>

SettlePaid ==
    /\ job.pc = "settle" /\ job.answer = "PAID"
    /\ Commit(job.row, job.inputs, {}, Unspent(job.change, job.tx))
    /\ SetStatus(job.tx, "COMPLETED")
    /\ registry' = registry \ job.inputs
    /\ job' = IdleJob
    /\ UNCHANGED <<recovery, sync, visit, watched, phase, mintVars, faults>>

\* The inputs stay PENDING; change that came already is stored.  A lightning payment
\* gets its monitor.
SettlePending ==
    /\ job.pc = "settle" /\ job.answer = "PENDING"
    /\ Commit(job.row, {}, {}, Unspent(job.change, job.tx))
    /\ SetStatus(job.tx, "PENDING")
    /\ watched' = watched \cup ({job.tx} \ Onchain)
    /\ job' = IdleJob
    /\ UNCHANGED <<recovery, registry, sync, visit, phase, mintVars, faults>>

\* Mutant: the proofs of a payment the mint refused stay locked.
SettleUnpaidKeepingLock ==
    /\ job.pc = "settle" /\ job.answer = "UNPAID"
    /\ Commit(job.row, {}, {}, <<>>)
    /\ job' = [job EXCEPT !.pc = "fail"]
    /\ UNCHANGED <<status, recovery, registry, sync, visit, watched, phase, mintVars, faults>>

SettleUnpaid ==
    /\ job.pc = "settle" /\ job.answer = "UNPAID"
    /\ Rollback(job.row)
    /\ job' = [job EXCEPT !.pc = "fail"]
    /\ UNCHANGED <<status, recovery, registry, sync, visit, watched, phase, mintVars, faults>>

------------------------------------------------------------------------------
(* _handleExecuteError: ask the mint for the quote, then clean up.         *)

Recheck ==
    /\ job.pc = "recheck"
    /\ job' = [job EXCEPT !.pc = "judge", !.seen = quote[job.tx].state, !.change = change[job.tx]]
    /\ UNCHANGED <<storeVars, status, recovery, registry, sync, visit, watched, phase,
                   mintVars, faults>>

\* The reservation is left open.  An outage that swallowed the answer may last.
RecheckFails ==
    /\ job.pc = "recheck"
    /\ IF job.answer = "lost" THEN UNCHANGED faults ELSE TimeOut
    /\ job' = [job EXCEPT !.pc = "fail"]
    /\ UNCHANGED <<storeVars, status, recovery, registry, sync, visit, watched, phase, mintVars>>

\* PAID in spite of the error: the inputs are gone, the change is fetched.
JudgePaid ==
    /\ job.pc = "judge" /\ job.seen = "PAID"
    /\ Commit(job.row, job.inputs, {}, <<>>)
    /\ registry' = registry \ job.inputs
    /\ job' = [job EXCEPT !.pc = "rescue"]
    /\ visit' = [visit EXCEPT ![Queue] = [NoVisit EXCEPT !.pc = "act", !.tx = job.tx,
                    !.mode = "recover", !.seen = "PAID", !.change = job.change]]
    /\ UNCHANGED <<status, recovery, sync, watched, phase, mintVars, faults>>

Rescued ==
    /\ job.pc = "rescue" /\ visit[Queue].pc \in {"returned", "threw"}
    /\ SetStatus(job.tx, "RECOVERED")
    /\ visit' = [visit EXCEPT ![Queue] = NoVisit]
    /\ job' = [job EXCEPT !.pc = "fail"]
    /\ UNCHANGED <<storeVars, recovery, registry, sync, watched, phase, mintVars, faults>>

\* PENDING: the lock is dropped and the proofs stay PENDING.
JudgePending ==
    /\ job.pc = "judge" /\ job.seen = "PENDING"
    /\ Commit(job.row, {}, {}, <<>>)
    /\ job' = [job EXCEPT !.pc = "fail"]
    /\ UNCHANGED <<status, recovery, registry, sync, visit, watched, phase, mintVars, faults>>

StartSync(S, from) ==
    sync' = IF S = {} THEN sync
            ELSE [IdleSync EXCEPT !.pc = "check", !.from = from, !.batch = S]

\* UNPAID.  If the inputs are spent or taken, only the mint knows by what: the lock is
\* dropped and a sync runs in this task (two of them if they are taken).  Otherwise the
\* ecash comes back.
JudgeUnpaid ==
    /\ job.pc = "judge" /\ job.seen = "UNPAID"
    /\ CASE job.answer = "spent" ->
               /\ Commit(job.row, {}, {}, <<>>)
               /\ StartSync(Having(mem, "PENDING"), "PENDING")
               /\ job' = [job EXCEPT !.pc = "nested"]
         [] job.answer = "taken" ->
               /\ Commit(job.row, {}, {}, <<>>)
               /\ StartSync(job.inputs, "PENDING")
               /\ job' = [job EXCEPT !.pc = "nestedtwice"]
         [] OTHER ->
               /\ Rollback(job.row)
               /\ job' = [job EXCEPT !.pc = "fail"]
               /\ UNCHANGED sync
    /\ UNCHANGED <<status, recovery, registry, visit, watched, phase, mintVars, faults>>

NestedDone ==
    /\ job.pc \in {"nested", "nestedtwice"} /\ sync.pc = "idle"
    /\ IF job.pc = "nested" THEN job' = [job EXCEPT !.pc = "fail"] /\ UNCHANGED sync
       ELSE /\ job' = [job EXCEPT !.pc = "nested"]
            /\ StartSync(Having(mem, "PENDING"), "PENDING")
    /\ UNCHANGED <<storeVars, status, recovery, registry, visit, watched, phase, mintVars, faults>>

\* The task's catch.
Fail ==
    /\ job.pc = "fail"
    /\ IF InFlight(job.tx) \/ status[job.tx] \in {"RECOVERED", "ERROR"} THEN UNCHANGED status
       ELSE SetStatus(job.tx, "ERROR")
    /\ job' = IdleJob
    /\ UNCHANGED <<storeVars, recovery, registry, sync, visit, watched, phase, mintVars, faults>>

------------------------------------------------------------------------------
(* A visit: refresh, finalize or recoverMeltQuoteChange by one worker.     *)

\* What the first lines decide before the quote is asked for.
EntryPc(t, mode) ==
    CASE mode = "recover"                                   -> "ask"
      [] InFlight(t)                                        -> "ask"
      [] mode = "refresh" \/ status[t] = "COMPLETED"        -> "returned"
      [] OTHER                                              -> "threw"

Enter(w, t, mode) ==
    visit' = [visit EXCEPT ![w] = [NoVisit EXCEPT !.pc = EntryPc(t, mode), !.tx = t, !.mode = mode]]

\* A visit of the queue reports back to the task; nobody waits for the others.
Ended(w, outcome) == IF w = Queue THEN [visit[w] EXCEPT !.pc = outcome] ELSE NoVisit
EndVisit(w, outcome) == visit' = [visit EXCEPT ![w] = Ended(w, outcome)]
GoOn(w, pc) == visit' = [visit EXCEPT ![w].pc = pc]

AskQuote(w) ==
    /\ visit[w].pc = "ask"
    /\ LET t == visit[w].tx
       IN  visit' = [visit EXCEPT ![w] = [@ EXCEPT !.pc = "act", !.seen = quote[t].state,
                                                   !.change = change[t]]]
    /\ UNCHANGED <<storeVars, status, recovery, registry, queueVars, watched, phase, mintVars, faults>>

AskFails(w) ==
    /\ visit[w].pc = "ask"
    /\ TimeOut
    /\ EndVisit(w, "threw")
    /\ UNCHANGED <<storeVars, status, recovery, registry, queueVars, watched, phase, mintVars>>

\* refresh and finalize on PAID: capture the PENDING proofs and the change the stored
\* preview can unblind, then wait for the wallet instance.
SeesPaid(w) ==
    /\ visit[w].pc = "act" /\ visit[w].mode # "recover" /\ visit[w].seen = "PAID"
    /\ LET t == visit[w].tx
       IN  visit' = [visit EXCEPT ![w].pc = "unblind", ![w].pending = PendingOf(t),
                                  ![w].change = @ \cap recovery[t]]
    /\ UNCHANGED <<storeVars, status, recovery, registry, queueVars, watched, phase, mintVars, faults>>

\* Mutant: refresh takes a payment that is still in flight for a failed one.
SeesUnpaidReleasing(w) ==
    /\ visit[w].pc = "act" /\ visit[w].mode # "recover" /\ visit[w].seen # "PAID"
    /\ IF visit[w].mode = "finalize" THEN EndVisit(w, "threw") ELSE GoOn(w, "release")
    /\ UNCHANGED <<storeVars, status, recovery, registry, queueVars, watched, phase, mintVars, faults>>

\* finalize refuses anything else; refresh waits on PENDING.
SeesUnpaid(w) ==
    /\ visit[w].pc = "act" /\ visit[w].mode # "recover" /\ visit[w].seen # "PAID"
    /\ CASE visit[w].mode = "finalize"    -> EndVisit(w, "threw")
         [] visit[w].seen = "PENDING"     -> EndVisit(w, "returned")
         [] OTHER                         -> GoOn(w, "release")
    /\ UNCHANGED <<storeVars, status, recovery, registry, queueVars, watched, phase, mintVars, faults>>

\* The payment failed: the proofs that are PENDING now come back, then REVERTED.
ReleaseFailed(w) ==
    /\ visit[w].pc = "release"
    /\ RevertToSpendable(PendingOf(visit[w].tx))
    /\ GoOn(w, "revert")
    /\ UNCHANGED <<status, recovery, registry, queueVars, watched, phase, mintVars, faults>>

MarkReverted(w) ==
    /\ visit[w].pc = "revert"
    /\ SetStatus(visit[w].tx, "REVERTED")
    /\ EndVisit(w, "returned")
    /\ UNCHANGED <<storeVars, recovery, registry, queueVars, watched, phase, mintVars, faults>>

\* recoverMeltQuoteChange, which reads the transaction from the table.
SeesForRecovery(w) ==
    /\ visit[w].pc = "act" /\ visit[w].mode = "recover"
    /\ LET t    == visit[w].tx
           sigs == visit[w].change
       IN  /\ recovery' = [recovery EXCEPT ![t] = IF visit[w].seen = "UNPAID" THEN {} ELSE @]
           /\ CASE visit[w].seen # "PAID" \/ sigs = {} ->
                      EndVisit(w, "threw") /\ status' = ReadAgain({t})
                [] visit[w].seen = "PAID" /\ sigs # {} /\ recovery[t] = {} ->
                      EndVisit(w, "returned") /\ SetStatus(t, "ERROR")
                [] OTHER ->
                      /\ visit' = [visit EXCEPT ![w].pc = "unblind",
                                                ![w].change = sigs \cap recovery[t]]
                      /\ status' = ReadAgain({t})
    /\ UNCHANGED <<storeVars, registry, queueVars, watched, phase, mintVars, faults>>

\* A visit that settles waits for the wallet instance between reading the preview and storing the
\* change.  The instance is cached, but for an eviction: only if it comes "late" can another visit
\* have stored the same change meanwhile, and another payment have taken it.
Overtaken(v) == v.mode # "recover" /\ \E p \in v.change : mem[p].state \in {"PENDING", "SPENT"}

\* Change that was unblinded is no longer in the recovery table; it is not stored yet.
Unblind(w) ==
    /\ visit[w].pc = "unblind"
    /\ IF Overtaken(visit[w]) THEN Suffer("late") ELSE UNCHANGED faults
    /\ LET t   == visit[w].tx
           new == {p \in visit[w].change : mem[p] = Absent}
       IN  /\ recovery' = [recovery EXCEPT ![t] = IF visit[w].change = {} THEN @ ELSE {}]
           /\ IF visit[w].mode = "recover" /\ new = {}
              THEN SetStatus(t, "ERROR") /\ EndVisit(w, "returned")
              ELSE /\ visit' = [visit EXCEPT ![w].pc = "settle",
                                   ![w].change = IF visit[w].mode = "recover" THEN new ELSE @]
                   /\ UNCHANGED status
    /\ UNCHANGED <<storeVars, registry, queueVars, watched, phase, mintVars>>

\* The wallet could not be had: the transfer completes without its change, and the
\* row is kept.
UnblindFails(w) ==
    /\ visit[w].pc = "unblind" /\ visit[w].change # {}
    /\ TimeOut
    /\ IF visit[w].mode = "recover"
       THEN SetStatus(visit[w].tx, "ERROR") /\ EndVisit(w, "returned")
       ELSE /\ visit' = [visit EXCEPT ![w].pc = "settle", ![w].change = {}]
            /\ UNCHANGED status
    /\ UNCHANGED <<storeVars, recovery, registry, queueVars, watched, phase, mintVars>>

\* Reserve and commit, without an await between them: captured proofs SPENT, change
\* UNSPENT and the new status.
SettleVisit(w) ==
    /\ visit[w].pc = "settle"
    /\ LET t    == visit[w].tx
           S    == visit[w].pending
           row  == RowFor(t, "pending-melt-finalize-paid", S, "PENDING")
       IN  /\ Commit(row, S, {}, Unspent(visit[w].change, t))
           /\ SetStatus(t, IF visit[w].mode = "recover" THEN "RECOVERED" ELSE "COMPLETED")
           /\ registry' = registry \ S
    /\ EndVisit(w, "returned")
    /\ UNCHANGED <<recovery, queueVars, watched, phase, mintVars, faults>>

\* The monitor of an asynchronous lightning payment.  It may stop for good at any time
\* (it unsubscribes, or the poller has had its eight polls or two errors), so nothing
\* makes it visit.
MonitorRefreshes(t) ==
    /\ phase = "up" /\ t \in watched /\ visit[t] = NoVisit /\ InFlight(t)
    /\ Enter(t, t, "refresh")
    /\ UNCHANGED <<storeVars, status, recovery, registry, queueVars, watched, phase, mintVars, faults>>

\* The recovery screen, for a quote the user types in.
RecoverByHand(t) ==
    /\ phase = "up" /\ visit[Screen] = NoVisit
    /\ t \in Bolt /\ status[t] \notin {"none", "DRAFT"}
    /\ Suffer("byhand")
    /\ Enter(Screen, t, "recover")
    /\ UNCHANGED <<storeVars, status, recovery, registry, queueVars, watched, phase, mintVars>>

\* handlePendingOnchainTransferTask: the sweep queues one check per pending transfer.
CheckOnchain(t) ==
    /\ Ready
    /\ t \in Onchain /\ status[t] = "PENDING"
    /\ Enter(Queue, t, "refresh")
    /\ job' = [IdleJob EXCEPT !.pc = "checking", !.tx = t]
    /\ UNCHANGED <<storeVars, status, recovery, registry, sync, watched, phase, mintVars, faults>>

OnchainChecked ==
    /\ job.pc = "checking" /\ visit[Queue].pc \in {"returned", "threw"}
    /\ visit' = [visit EXCEPT ![Queue] = NoVisit]
    /\ job' = IdleJob
    /\ UNCHANGED <<storeVars, status, recovery, registry, sync, watched, phase, mintVars, faults>>

\* expirePendingTransfers, from handlePendingQueue and outside the queue: once the date of the
\* invoice has passed, EXPIRED is written to the table, whatever the mint is doing with the payment,
\* through a copy of the transaction: the one in memory stays PENDING.
ExpireTransfer(t) ==
    /\ phase = "up" /\ t \in Dated /\ status[t] = "PENDING"
    /\ SetStatus(t, "EXPIRING")
    /\ UNCHANGED <<storeVars, recovery, registry, queueVars, visit, watched, phase, mintVars, faults>>

\* The screen of the transaction, or a look-up by an NWC client, reads it from the table: from now
\* on refresh leaves it alone, and finalize refuses it.
ReloadTransfer(t) ==
    /\ phase = "up" /\ status[t] = "EXPIRING"
    /\ status' = ReadAgain({t})
    /\ UNCHANGED <<storeVars, recovery, registry, queueVars, visit, watched, phase, mintVars, faults>>

------------------------------------------------------------------------------
(* syncStateWithMintTask.                                                  *)

\* The periodic sync of the PENDING proofs, and the UNSPENT one of the recovery screen.
SyncAll(from) ==
    /\ Ready /\ Having(mem, from) # {}
    /\ StartSync(Having(mem, from), from)
    /\ UNCHANGED <<storeVars, status, recovery, registry, job, visit, watched, phase, mintVars, faults>>

\* The mint's answer about the batch.
Check ==
    /\ sync.pc = "check"
    /\ sync' = [sync EXCEPT !.pc = "move", !.spent = sync.batch \cap mintSpent,
                            !.pend = sync.batch \cap HeldAtMint]
    /\ UNCHANGED <<storeVars, status, recovery, registry, job, visit, watched, phase, mintVars, faults>>

CheckFails ==
    /\ sync.pc = "check"
    /\ TimeOut
    /\ sync' = IdleSync
    /\ UNCHANGED <<storeVars, status, recovery, registry, job, visit, watched, phase, mintVars>>

Total(t) == IF t = Genesis THEN Worth(Base) ELSE Amount[t]

\* Branch 1.  The spent proofs are grouped by transaction, then written off.
WriteOff ==
    /\ sync.pc = "move"
    /\ LET owned(t) == {p \in sync.spent : mem[p].tx = t}
           owners   == OwnersOf(sync.spent)
       IN  sync' = [sync EXCEPT !.pc = "settle", !.todo = owners,
                                !.short = {t \in owners : Worth(owned(t)) < Total(t)}]
    /\ MoveToSpent(sync.spent)
    /\ registry' = registry \ sync.spent
    /\ UNCHANGED <<status, recovery, job, visit, watched, phase, mintVars, faults>>

\* Too little was spent: ERROR, and what the batch has left unspent is released.
SettleShort(t) ==
    /\ sync.pc = "settle" /\ t \in sync.todo \cap sync.short
    /\ SetStatus(t, "ERROR")
    /\ sync' = [sync EXCEPT !.todo = @ \ {t}]
    /\ IF sync.from = "PENDING" THEN RevertToSpendable(sync.batch \ (sync.spent \cup sync.pend))
                                ELSE UNCHANGED storeVars
    /\ UNCHANGED <<recovery, registry, job, visit, watched, phase, mintVars, faults>>

\* The receipt of the proofs has nothing to finalize; a reverted transfer is left alone.
SkipSettled(t) ==
    /\ sync.pc = "settle" /\ t \in sync.todo \ sync.short
    /\ t = Genesis \/ status[t] = "REVERTED"
    /\ sync' = [sync EXCEPT !.todo = @ \ {t},
                            !.ids = IF status[t] \in {"COMPLETED", "REVERTED"} THEN @ ELSE @ \cup {t}]
    /\ UNCHANGED <<storeVars, status, recovery, registry, job, visit, watched, phase, mintVars, faults>>

\* Mutant: an onchain transfer is finalized like a lightning one, without a quote.
DispatchOnSpent(t) ==
    /\ sync.pc = "settle" /\ t \in sync.todo \ sync.short
    /\ t \in Transfer /\ status[t] # "REVERTED"
    /\ visit' = [visit EXCEPT ![Queue] = [NoVisit EXCEPT !.pc = "settle", !.tx = t]]
    /\ sync' = [sync EXCEPT !.todo = @ \ {t}, !.at = t, !.pc = "settling"]
    /\ UNCHANGED <<storeVars, status, recovery, registry, job, watched, phase, mintVars, faults>>

\* Mutant: every transfer is finalized, and finalize throws on a quote that is not PAID.
DispatchFinalizeAlways(t) ==
    /\ sync.pc = "settle" /\ t \in sync.todo \ sync.short
    /\ t \in Transfer /\ status[t] # "REVERTED"
    /\ Enter(Queue, t, "finalize")
    /\ sync' = [sync EXCEPT !.todo = @ \ {t}, !.at = t, !.pc = "settling"]
    /\ UNCHANGED <<storeVars, status, recovery, registry, job, watched, phase, mintVars, faults>>

\* _dispatchFinalize: spent inputs settle a lightning payment, not an onchain one.
Dispatch(t) ==
    /\ sync.pc = "settle" /\ t \in sync.todo \ sync.short
    /\ t \in Transfer /\ status[t] # "REVERTED"
    /\ Enter(Queue, t, IF t \in Onchain THEN "refresh" ELSE "finalize")
    /\ sync' = [sync EXCEPT !.todo = @ \ {t}, !.at = t, !.pc = "settling"]
    /\ UNCHANGED <<storeVars, status, recovery, registry, job, watched, phase, mintVars, faults>>

Dispatched ==
    /\ sync.pc = "settling" /\ visit[Queue].pc \in {"returned", "threw"}
    /\ IF visit[Queue].pc = "threw"
       THEN SetStatus(sync.at, "ERROR") /\ sync' = [sync EXCEPT !.pc = "settle"]
       ELSE /\ sync' = [sync EXCEPT !.pc = "settle",
                           !.ids = IF status[sync.at] = "COMPLETED" THEN @ ELSE @ \cup {sync.at}]
            /\ UNCHANGED status
    /\ visit' = [visit EXCEPT ![Queue] = NoVisit]
    /\ UNCHANGED <<storeVars, recovery, registry, job, watched, phase, mintVars, faults>>

\* addOrUpdateProofs under moveToPending.
MoveToPending(S) == S \subseteq Live /\ Overwrite(S, "PENDING")

\* Branch 2.  Newly seen as pending at the mint: registered, moved, and their
\* transactions marked, those that branch 1 left uncompleted among them.
Register ==
    /\ sync.pc = "settle" /\ sync.todo = {}
    /\ LET new == sync.pend \ registry
       IN  /\ registry' = registry \cup new
           /\ IF sync.from = "PENDING" THEN UNCHANGED storeVars ELSE MoveToPending(new)
           /\ sync' = IF new = {} THEN [sync EXCEPT !.pc = "gone"]
                      ELSE [sync EXCEPT !.pc = "mark", !.ids = @ \cup OwnersOf(new)]
    /\ UNCHANGED <<status, recovery, job, visit, watched, phase, mintVars, faults>>

MarkPending ==
    /\ sync.pc = "mark"
    /\ status' = [t \in Tx |-> IF t \in sync.ids THEN "PENDING" ELSE status[t]]
    /\ sync' = [sync EXCEPT !.pc = "gone"]
    /\ UNCHANGED <<storeVars, recovery, registry, job, visit, watched, phase, mintVars, faults>>

\* Branch 3.  Whatever is registered and not pending in THIS answer is unregistered,
\* and its transactions are refreshed.
Unregister ==
    /\ sync.pc = "gone"
    /\ LET gone == registry \ sync.pend
       IN  /\ registry' = registry \ gone
           /\ sync' = [sync EXCEPT !.pc = "refresh", !.todo = OwnersOf(gone \cap Live)]
    /\ UNCHANGED <<storeVars, status, recovery, job, visit, watched, phase, mintVars, faults>>

RefreshGone(t) ==
    /\ sync.pc = "refresh" /\ t \in sync.todo \cap Transfer
    /\ Enter(Queue, t, "refresh")
    /\ sync' = [sync EXCEPT !.todo = @ \ {t}, !.at = t, !.pc = "refreshing"]
    /\ UNCHANGED <<storeVars, status, recovery, registry, job, watched, phase, mintVars, faults>>

GoneRefreshed ==
    /\ sync.pc = "refreshing" /\ visit[Queue].pc \in {"returned", "threw"}
    /\ IF visit[Queue].pc = "threw" THEN SetStatus(sync.at, "ERROR") ELSE UNCHANGED status
    /\ visit' = [visit EXCEPT ![Queue] = NoVisit]
    /\ sync' = [sync EXCEPT !.pc = "refresh"]
    /\ UNCHANGED <<storeVars, recovery, registry, job, watched, phase, mintVars, faults>>

Synced ==
    /\ sync.pc = "refresh" /\ sync.todo \cap Transfer = {}
    /\ sync' = IdleSync
    /\ UNCHANGED <<storeVars, status, recovery, registry, job, visit, watched, phase, mintVars, faults>>

------------------------------------------------------------------------------
(* The mint and the network behind it.                                     *)

Reply(q, a) ==
    job' = IF job.pc = "wait" /\ job.tx = q.tx /\ job.answer = "none"
           THEN [job EXCEPT !.answer = a] ELSE job

TakeMelt(q) ==
    /\ q \in net /\ Free(q.inputs)
    /\ quote[q.tx].state = "UNPAID" /\ quote[q.tx].inputs = {}
    /\ net' = net \ {q}
    /\ quote' = [quote EXCEPT ![q.tx] = [state |-> "PENDING", inputs |-> q.inputs,
                                         blank |-> q.blank]]
    /\ UNCHANGED <<storeVars, status, recovery, registry, queueVars, visit, watched, phase,
                   change, mintSpent, faults>>

RefuseMelt(q) ==
    /\ q \in net
    /\ net' = net \ {q}
    /\ \/ /\ q.inputs \cap mintSpent # {} /\ Reply(q, "spent") /\ UNCHANGED faults
       \/ /\ q.inputs \cap HeldAtMint # {} /\ Reply(q, "taken") /\ UNCHANGED faults
       \/ Free(q.inputs) /\ Reply(q, "signed") /\ Suffer("signed")
    /\ UNCHANGED <<storeVars, status, recovery, registry, sync, visit, watched, phase,
                   quote, change, mintSpent>>

\* A lightning payment may be over before the mint answers; an onchain melt is always
\* answered PENDING, with whatever change the mint has signed already.
AnswerMelt(t) ==
    /\ job.pc = "wait" /\ job.tx = t /\ job.answer = "none" /\ quote[t].inputs # {}
    /\ job' = [job EXCEPT !.answer = IF t \in Onchain THEN "PENDING" ELSE quote[t].state,
                          !.change = change[t]]
    /\ UNCHANGED <<storeVars, status, recovery, registry, sync, visit, watched, phase,
                   mintVars, faults>>

\* Change is signed when the cost is known: on settlement, or on broadcast.
SignChange(t) ==
    \E C \in {{}, quote[t].blank} :
        change' = [change EXCEPT ![t] = IF @ # {} THEN @ ELSE C]

\* Broadcast: the inputs are spent and the quote is still PENDING.
Broadcast(t) ==
    /\ t \in Onchain /\ quote[t].state = "PENDING" /\ ~(quote[t].inputs \subseteq mintSpent)
    /\ mintSpent' = mintSpent \cup quote[t].inputs
    /\ SignChange(t)
    /\ UNCHANGED <<storeVars, status, recovery, registry, queueVars, visit, watched, phase,
                   quote, net, faults>>

PaymentSucceeds(t) ==
    /\ quote[t].state = "PENDING"
    /\ t \in Onchain => quote[t].inputs \subseteq mintSpent
    /\ quote' = [quote EXCEPT ![t].state = "PAID"]
    /\ mintSpent' = mintSpent \cup quote[t].inputs
    /\ SignChange(t)
    /\ UNCHANGED <<storeVars, status, recovery, registry, queueVars, visit, watched, phase,
                   net, faults>>

\* No route, or never broadcast: the mint lets the inputs go.
PaymentFails(t) ==
    /\ quote[t].state = "PENDING" /\ quote[t].inputs \cap mintSpent = {}
    /\ quote' = [quote EXCEPT ![t].state = "UNPAID"]
    /\ UNCHANGED <<storeVars, status, recovery, registry, queueVars, visit, watched, phase,
                   change, mintSpent, net, faults>>

------------------------------------------------------------------------------
(* Dying and coming back (setupRootStore).                                 *)

Crash ==
    /\ phase # "loading"
    /\ Suffer("crash")
    /\ phase' = "loading"
    /\ mem' = [p \in Proof |-> Absent]
    /\ job' = IdleJob /\ sync' = IdleSync
    /\ visit' = [w \in Worker |-> NoVisit]
    /\ watched' = {}
    \* The registry is part of the snapshot of the tree, saved a moment later.
    /\ registry' \in {registry, {}}
    /\ status' = ReadAgain(Tx)
    /\ UNCHANGED <<disk, rows, recovery, mintVars>>

Load ==
    /\ phase = "loading"
    /\ LoadProofs
    /\ phase' = "recovering"
    /\ UNCHANGED <<disk, rows, status, recovery, registry, queueVars, visit, watched, mintVars, faults>>

RecoverOrphan(r) ==
    /\ phase = "recovering"
    /\ Rollback(r)
    /\ UNCHANGED transferVars

Recovered ==
    /\ phase = "recovering" /\ rows = {}
    /\ phase' = "up"
    /\ UNCHANGED <<storeVars, status, recovery, registry, queueVars, visit, watched, mintVars, faults>>

------------------------------------------------------------------------------
(* JavaScript runs to completion: between two awaits nothing else of the   *)
(* wallet runs, so only the death of the process can come between two      *)
(* writes there.  A worker stands at an await unless it is at one of these. *)

AtAwait ==
    /\ job.pc \notin {"lock", "locked", "prepared", "settle", "fail"}
    /\ sync.pc \notin {"settle", "gone", "refresh"}
    /\ \A w \in Worker : visit[w].pc \notin {"release", "revert", "settle", "returned", "threw"}

JobRuns ==
    \/ Lock \/ Prepared \/ Execute \/ SettlePaid \/ SettlePending \/ SettleUnpaid \/ Fail
    \/ Rescued \/ OnchainChecked

SyncRuns ==
    \/ Dispatched \/ Register \/ Unregister \/ GoneRefreshed \/ Synced
    \/ \E t \in Tx : SettleShort(t) \/ SkipSettled(t) \/ Dispatch(t) \/ RefreshGone(t)

VisitRuns == \E w \in Worker : ReleaseFailed(w) \/ MarkReverted(w) \/ SettleVisit(w)

JobResumes ==
    \/ Select \/ CommitSwap \/ Submit \/ TakeAnswer \/ TakeError
    \/ Recheck \/ JudgePaid \/ JudgePending \/ JudgeUnpaid \/ NestedDone

SyncResumes == Check \/ WriteOff \/ MarkPending

VisitResumes ==
    \E w \in Worker : \/ AskQuote(w) \/ SeesPaid(w) \/ SeesUnpaid(w) \/ SeesForRecovery(w)
                       \/ Unblind(w)

Failures ==
    \/ SwapFails \/ LoseAnswer \/ RecheckFails \/ CheckFails
    \/ \E w \in Worker : AskFails(w) \/ UnblindFails(w)

Starts ==
    \/ \E t \in Transfer : StartTransfer(t) \/ CheckOnchain(t) \/ RecoverByHand(t) \/ MonitorRefreshes(t)
    \/ \E t \in Dated : ExpireTransfer(t) \/ ReloadTransfer(t)
    \/ \E s \in {"PENDING", "UNSPENT"} : SyncAll(s)

MintSteps ==
    \/ MintSwaps
    \/ \E q \in net : TakeMelt(q) \/ RefuseMelt(q)
    \/ \E t \in Transfer : AnswerMelt(t)

NetworkSteps == \E t \in Transfer : Broadcast(t) \/ PaymentSucceeds(t) \/ PaymentFails(t)

Restart == Load \/ Recovered \/ \E r \in rows : RecoverOrphan(r)

Running == JobRuns \/ SyncRuns \/ VisitRuns
Resuming == JobResumes \/ SyncResumes \/ VisitResumes

Next ==
    \/ Running
    \/ AtAwait /\ (Resuming \/ Failures \/ Starts \/ MintSteps \/ NetworkSteps)
    \/ Crash \/ Restart

Spec == Init /\ [][Next]_vars

------------------------------------------------------------------------------
(* Properties.                                                             *)

\* A transfer is COMPLETED or RECOVERED only if the mint has paid: not on broadcast
\* (syncOperations.ts, "it has only been BROADCAST"), not on a stale answer, whichever
\* of the queue, the monitor and the recovery screen settles it, and after any mishap.
CompletedOnlyIfPaid ==
    \A t \in Transfer : status[t] \in {"COMPLETED", "RECOVERED"} => quote[t].state = "PAID"

Quiet == phase = "up" /\ job = IdleJob /\ sync = IdleSync /\ \A w \in Worker : visit[w] = NoVisit

OnlyMishaps(kinds) == \A i \in 1..Len(faults) : faults[i] \in kinds

\* WalletStore.payLightningMelt: "the change can always be recovered".  Short of a crash
\* or of a user who recovers a payment in flight, the change of a completed transfer is
\* in the wallet, or the blank outputs that unblind it are still in melt_recovery.
ChangeKept ==
    OnlyMishaps({"signed", "timeout"}) /\ Quiet =>
        \A t \in Transfer : status[t] = "COMPLETED" =>
            change[t] \subseteq recovery[t] \/ \A p \in change[t] : disk[p] # Absent

\* Ecash the mint holds for a payment, or has taken for it, is never offered for
\* another: not between broadcast and confirmation, not while a monitor, the sync and
\* the recovery screen settle the payment past each other.  (A lost request the mint
\* still executes after the re-check breaks it, as does the orphan rollback after a
\* crash, and change that is stored again after it was paid with: those mishaps are excluded.)
PaidNotSpendable ==
    OnlyMishaps({"signed", "byhand"}) =>
        \A t \in Transfer : quote[t].state # "UNPAID" =>
            \A p \in quote[t].inputs : mem[p].state # "UNSPENT"

\* A failure is true, in every order of events in which no call is lost: a transfer is REVERTED,
\* its ecash given back, only if the mint has let it go, also when the user recovers payments in
\* flight; and, if not, it is ERROR only if nothing was paid (transferTask's catch: "never stamp
\* it ERROR, that would hide a real payment").  Excepted is what expirePendingTransfers makes of a
\* payment in flight: finalize refuses an EXPIRED transfer, and the sync that finds it paid and writes
\* off its ecash stamps it ERROR.  Even then nothing is ERROR while its payment is in flight.
FailureIsTrue ==
    \A t \in Transfer :
        /\ status[t] = "REVERTED" /\ OnlyMishaps({"signed", "byhand"}) => quote[t].state = "UNPAID"
        /\ status[t] = "ERROR" /\ OnlyMishaps({"signed"}) =>
               quote[t].state = "UNPAID" \/ (t \in Dated /\ quote[t].state = "PAID")

\* Completed is written off, on disk.
WrittenOffIfCompleted ==
    \A t \in Transfer : status[t] = "COMPLETED" => \A p \in quote[t].inputs : disk[p].state = "SPENT"

\* Open, or expired while it was open.
Outstanding(t) == status[t] = "PENDING" \/ (t \in Dated /\ status[t] \in {"EXPIRING", "EXPIRED"})

\* At rest ecash is where the status says it is, in every order of events in which no call is lost:
\* the inputs of a completed transfer are written off, whoever completed it; and locked ecash
\* belongs to a transfer that is still open, so that some sweep will look at it again, or to one that
\* has expired in flight.  The sync writes off what such a one has paid; what comes back to it, if its
\* payment fails, nobody gives back, for refresh ignores a transfer that is EXPIRED.
NothingStranded ==
    Quiet =>
        /\ OnlyMishaps({"signed", "byhand"}) => WrittenOffIfCompleted
        /\ OnlyMishaps({"signed"}) =>
               \A p \in Having(mem, "PENDING") : Outstanding(mem[p].tx)

Losses == Cardinality({i \in DOMAIN faults : faults[i] \in {"crash", "timeout"}})

\* One lost call or one crash does not make a status lie: REVERTED still means that the mint has let
\* the ecash go, COMPLETED that it is written off.  Two do: a payment that got no answer and is
\* then found, or closed by a restart, settles on ecash another one has been made with.
OneLossIsSurvived ==
    Losses <= 1 /\ OnlyMishaps(Mishap \ {"late"}) =>
        /\ \A t \in Transfer : status[t] = "REVERTED" => quote[t].state = "UNPAID"
        /\ Quiet => WrittenOffIfCompleted

Terminal == {"COMPLETED", "REVERTED", "RECOVERED", "ERROR", "EXPIRED"}

\* TransactionStates.ts: "Operation has reached a final state -- no further automatic
\* transitions."  A sync that asked the mint while the payment was in flight writes
\* PENDING over the COMPLETED its monitor has set meanwhile.
TerminalIsFinal ==
    [][\A t \in Transfer : status[t] \in Terminal => status'[t] = status[t]]_vars
==============================================================================
