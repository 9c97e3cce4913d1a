----------------------------- MODULE SendLifecycle -----------------------------
(***************************************************************************)
(* Sending ecash, from selecting proofs to learning that the payee has     *)
(* claimed them: sendTask over SendOperationApi (prepare, execute,         *)
(* finalize), revertTask (reclaim), the in-flight sweep that replays a     *)
(* request whose answer was lost, and the sync with the mint.              *)
(*                                                                         *)
(* The wallet runs these as tasks of one queue (syncQueueService,          *)
(* concurrency 1): `job` is the running one and every step of it is one    *)
(* SQLite write or one await.  Around it the payees, the mint, the network *)
(* and the user go on, and the process may die between any two steps.      *)
(*                                                                         *)
(* Ecash.  A proof in Base is worth BaseWorth and every derived proof 1;   *)
(* fees are zero.  The outputs of a request are the proofs <<k, i>> of the *)
(* index k its derivation counter stood at, so deriving twice at the same  *)
(* index gives the same secrets, as cashu's deterministic secrets do.  One *)
(* request takes one index, whatever its number of outputs.                *)
(***************************************************************************)
EXTENDS ProofsStore, Integers, FiniteSets

CONSTANTS
    Base,           \* proofs the wallet holds at the start
    BaseWorth,      \* what each of them is worth
    Genesis,        \* the completed transaction that received them
    Send,           \* the other transactions: sends
    Amount,         \* Send -> what it sends
    P2PK,           \* sends locked to a public key: always swapped
    Offline,        \* sends whose proofs the user selects by hand
    Nut19,          \* does the mint cache answers (NUT-19)?
    Extras,         \* may cashu-ts leave an offered input unused?
    PartialClaims,  \* may a payee redeem part of a token?
    Sweeps,         \* does the in-flight sweep run?
    HealStep,       \* increaseCounterBy of the healing retry
    MaxIndex,       \* bound: derivation indices explored
    MaxCrashes,     \* bound: process deaths
    MaxTimeouts,    \* bound: mint calls whose answer is lost
    MaxDrops        \* bound: counter write-throughs that fail

Index == 1..MaxIndex
Slots == 1..BaseWorth

ASSUME SendAssumptions ==
    /\ Genesis \notin Send
    /\ Tx = Send \cup {Genesis}
    /\ Proof = Base \cup (Index \X Slots) /\ Base \cap (Nat \X Nat) = {}
    /\ Amount \in [Send -> Slots]
    /\ P2PK \subseteq Send /\ Offline \subseteq Send
    /\ IsFiniteSet(Base) /\ BaseWorth \in Nat \ {0} /\ HealStep \in Nat \ {0}
    /\ MaxIndex \in Nat
    /\ {Nut19, Extras, PartialClaims, Sweeps} \subseteq BOOLEAN

VARIABLES
    status,     \* transactions table: Tx -> TransactionStatus
    token,      \* outputToken: Send -> the proofs handed to the payee
    asked,      \* sends and reclaims in the queue
    inflight,   \* in_flight_requests table: Send -> a request or NoRequest
    counter,    \* derivation counter in memory (MintProofsCounter)
    dcounter,   \* derivation counter in SQLite (mint_counters)
    derived,    \* cashu-ts's own counter, alive as long as the wallet instance
    job,        \* the queue's running task
    watches,    \* proof sets captured by _monitorSentProofs
    phase,      \* where the process is in its life
    net,        \* requests the mint may still process
    mintSpent,  \* mint: spent proofs
    signed,     \* mint: outputs it has signed
    cache,      \* mint: requests it answered and will answer the same again
    claimed,    \* proofs the payees redeemed
    faults      \* faults so far, against the bounds

sendVars == <<status, token, asked, inflight, counter, dcounter, derived, job,
              watches, phase, net, mintSpent, signed, cache, claimed, faults>>
vars == <<storeVars, sendVars>>

Status == {"none", "DRAFT", "PREPARED", "EXECUTING", "PENDING", "COMPLETED",
           "REVERTED", "ERROR"}

NoRequest == [kind |-> "none"]
Idle      == [kind |-> "idle"]
Nothing   == [want |-> "none"]

\* The tasks that call the mint to swap.
Calling == {"send", "revert", "retry"}

Maximum(a, b) == IF a >= b THEN a ELSE b

Worth(S) == BaseWorth * Cardinality(S \cap Base) + Cardinality(S \ Base)

\* The outputs a request derives: for a send the first are the payee's.
Outputs(q)    == {<<q.index, i>> : i \in 1..Worth(q.used)}
PayeePart(q)  == {<<q.index, i>> : i \in 1..Amount[q.tx]}
Unchanged(q)  == q.offered \ q.used

------------------------------------------------------------------------------
Init ==
    /\ disk = [p \in Proof |-> IF p \in Base THEN Held("UNSPENT", Genesis) ELSE Absent]
    /\ mem = disk
    /\ rows = {}
    /\ status = [t \in Tx |-> IF t = Genesis THEN "COMPLETED" ELSE "none"]
    /\ token = [t \in Send |-> {}]
    /\ asked = [t \in Send |-> Nothing]
    /\ inflight = [t \in Send |-> NoRequest]
    /\ counter = 1 /\ dcounter = 1 /\ derived = 1
    /\ job = Idle
    /\ watches = {}
    /\ phase = "up"
    /\ net = {} /\ mintSpent = {} /\ signed = {} /\ cache = {}
    /\ claimed = {}
    /\ faults = [crashes |-> 0, timeouts |-> 0, drops |-> 0]

\* The state a task leaves alone, by group.
mintVars    == <<net, mintSpent, signed, cache, claimed>>
counterVars == <<counter, dcounter, derived>>
userVars    == <<token, asked, watches>>

------------------------------------------------------------------------------
(* The user.                                                               *)

Spendable == Having(mem, "UNSPENT")
PendingOf(t) == {p \in Having(mem, "PENDING") : mem[p].tx = t}

\* A send enters the queue; by hand, with the nodes selected on the screen.
AskSend(t) ==
    /\ phase = "up"
    /\ status[t] = "none" /\ asked[t] = Nothing
    /\ \E S \in IF t \in Offline THEN SUBSET Spendable ELSE {{}} :
           /\ t \in Offline => Worth(S) = Amount[t]
           /\ asked' = [asked EXCEPT ![t] = [want |-> "send", picked |-> S]]
    /\ UNCHANGED <<storeVars, status, token, inflight, counterVars, job, watches,
                   phase, mintVars, faults>>

\* TranDetailScreen.onRevertPendingSend: offered while the send is PENDING, and the
\* screen shows a loader until the task ends.
AskRevert(t) ==
    /\ phase = "up"
    /\ status[t] = "PENDING" /\ asked[t] = Nothing /\ PendingOf(t) # {}
    /\ ~(job.kind = "revert" /\ job.tx = t)
    /\ asked' = [asked EXCEPT ![t] = [want |-> "revert"]]
    /\ UNCHANGED <<storeVars, status, token, inflight, counterVars, job, watches,
                   phase, mintVars, faults>>

------------------------------------------------------------------------------
(* sendTask: prepare.                                                      *)

Ready == phase = "up" /\ job = Idle

\* The bound on indices leaves room for the call and its healing retry.
Room == Maximum(derived, counter) + HealStep <= MaxIndex

NoRow == [tx |-> NoTx]

Task(kind, t, pc, r, offered, used) ==
    [kind |-> kind, tx |-> t, pc |-> pc, row |-> r, offered |-> offered,
     used |-> used, index |-> 0, healed |-> FALSE, answer |-> "none"]

\* The balance check, then the DRAFT transaction.
StartSend(t) ==
    /\ Ready /\ Room
    /\ asked[t].want = "send" /\ status[t] = "none"
    /\ Worth(Spendable) >= Amount[t]
    /\ status' = [status EXCEPT ![t] = "DRAFT"]
    /\ job' = Task("send", t, "select", NoRow, {}, {})
    /\ UNCHANGED <<storeVars, userVars, inflight, counterVars, phase, mintVars, faults>>

\* prepare refuses: nothing is written and the caller gets a ValidationError.
RefuseSend(t) ==
    /\ Ready
    /\ asked[t].want = "send" /\ status[t] = "none"
    /\ Worth(Spendable) < Amount[t]
    /\ asked' = [asked EXCEPT ![t] = Nothing]
    /\ UNCHANGED <<storeVars, status, token, inflight, counterVars, job, watches,
                   phase, mintVars, faults>>

\* A cover of the amount without a superfluous proof.
Covers(t, S) == Worth(S) >= Amount[t] /\ \A p \in S : Worth(S \ {p}) < Amount[t]

\* What prepare locks: the hand-picked nodes, whatever has become of them; else a
\* cover, to which the fee reserve may add a proof that the swap will not need.
Selection(t, S) ==
    IF t \in Offline THEN S = asked[t].picked
    ELSE /\ S \subseteq Spendable
         /\ \/ Covers(t, S)
            \/ Extras /\ \E p \in S : Covers(t, S \ {p}) /\ Worth(S \ {p}) # Amount[t]

NeedsSwap(t, S) == t \notin Offline /\ (t \in P2PK \/ Worth(S) # Amount[t])

Select ==
    /\ job.kind = "send" /\ job.pc = "select"
    /\ \E S \in SUBSET Live :
        /\ Selection(job.tx, S)
        /\ Reserve(job.tx, "send", S, "UNSPENT")
        /\ job' = [job EXCEPT !.pc = "reserved", !.offered = S,
                              !.row = RowFor(job.tx, "send", S, "UNSPENT")]
    /\ asked' = [asked EXCEPT ![job.tx] = Nothing]
    /\ UNCHANGED <<status, token, inflight, counterVars, watches, phase, mintVars, faults>>

Prepared ==
    /\ job.kind = "send" /\ job.pc = "reserved"
    /\ status' = [status EXCEPT ![job.tx] = "PREPARED"]
    /\ job' = [job EXCEPT !.pc = "prepared"]
    /\ UNCHANGED <<storeVars, userVars, inflight, counterVars, phase, mintVars, faults>>

------------------------------------------------------------------------------
(* sendTask: execute.                                                      *)

\* Exact ecash: the locked proofs are the token, no mint call.
ExecuteWithoutSwap ==
    /\ job.kind = "send" /\ job.pc = "prepared"
    /\ ~NeedsSwap(job.tx, job.offered)
    /\ Commit(job.row, {}, {}, <<>>)
    /\ status' = [status EXCEPT ![job.tx] = "PENDING"]
    /\ token' = [token EXCEPT ![job.tx] = job.offered]
    /\ watches' = IF job.tx \in Offline THEN watches
                  ELSE watches \cup {Having(mem', "PENDING")}
    /\ job' = Idle
    /\ UNCHANGED <<asked, inflight, counterVars, phase, mintVars, faults>>

ExecuteWithSwap ==
    /\ job.kind = "send" /\ job.pc = "prepared"
    /\ NeedsSwap(job.tx, job.offered)
    /\ status' = [status EXCEPT ![job.tx] = "EXECUTING"]
    /\ job' = [job EXCEPT !.pc = "call"]
    /\ UNCHANGED <<storeVars, userVars, inflight, counterVars, phase, mintVars, faults>>

------------------------------------------------------------------------------
(* revertTask, and one iteration of the in-flight sweep.                   *)

\* The task reads the PENDING proofs when it runs; it does not look at the status.
StartRevert(t) ==
    /\ Ready /\ Room
    /\ asked[t].want = "revert"
    /\ asked' = [asked EXCEPT ![t] = Nothing]
    /\ \/ /\ PendingOf(t) = {}
          /\ job' = Task("revert", t, "failed", NoRow, {}, {})
          /\ UNCHANGED storeVars
       \/ /\ PendingOf(t) # {} /\ Worth(PendingOf(t)) <= BaseWorth
          /\ Reserve(t, "revert", PendingOf(t), "PENDING")
          /\ job' = Task("revert", t, "call", RowFor(t, "revert", PendingOf(t), "PENDING"),
                         PendingOf(t), PendingOf(t))
    /\ UNCHANGED <<status, token, inflight, counterVars, watches, phase, mintVars, faults>>

\* A request whose transaction is settled, or that has no list of input proofs (the
\* token of a reclaim's receive request has another shape), is dropped.
Stale(t) == status[t] \in {"COMPLETED", "REVERTED"} \/ inflight[t].kind = "revert"

SweepDrop(t) ==
    /\ Sweeps /\ Ready
    /\ inflight[t] # NoRequest /\ Stale(t)
    /\ inflight' = [inflight EXCEPT ![t] = NoRequest]
    /\ UNCHANGED <<storeVars, status, userVars, counterVars, job, phase, mintVars, faults>>

SweepRetry(t) ==
    /\ Sweeps /\ Ready /\ Room
    /\ inflight[t] # NoRequest /\ ~Stale(t)
    /\ LET S == inflight[t].offered \cap Live
       IN  /\ Reserve(t, "retry", S, "preserve")
           /\ job' = Task("retry", t, "call", RowFor(t, "retry", S, "preserve"),
                          inflight[t].offered, inflight[t].used)
    /\ UNCHANGED <<status, userVars, inflight, counterVars, phase, mintVars, faults>>

------------------------------------------------------------------------------
(* WalletStore.send and .receive: the mint call.                           *)

\* setProofsCounter and increaseProofsCounter write through to SQLite (W1), where
\* the stored value only rises.  A failed write is logged and dropped.
WriteThrough(value) ==
    \/ /\ dcounter' = Maximum(dcounter, value)
       /\ UNCHANGED faults
    \/ /\ faults.drops < MaxDrops
       /\ faults' = [faults EXCEPT !.drops = @ + 1]
       /\ UNCHANGED dcounter

Wire(j) == [tx |-> j.tx, used |-> j.used, index |-> j.index]

\* Bump the counter if healing, bring cashu's counter up to it, note the request in
\* SQLite (unless replaying one), derive the outputs and send.
CallMint ==
    /\ job.kind \in Calling /\ job.pc = "call"
    /\ IF job.healed THEN /\ counter' = counter + HealStep
                          /\ WriteThrough(dcounter + HealStep)
                     ELSE UNCHANGED <<counter, dcounter, faults>>
    /\ \E U \in IF job.kind = "send"
                THEN {V \in SUBSET job.offered : Covers(job.tx, V)} ELSE {job.used} :
       \E start \in {Maximum(derived, counter')} :
        /\ derived' = start + 1
        /\ job' = [job EXCEPT !.pc = "wait", !.used = U, !.index = start, !.answer = "none"]
        /\ inflight' = IF Nut19 /\ job.kind # "retry"
                       THEN [inflight EXCEPT ![job.tx] = [kind |-> job.kind, used |-> U,
                                                          offered |-> job.offered]]
                       ELSE inflight
    /\ net' = net \cup {Wire(job')}
    /\ UNCHANGED <<storeVars, status, userVars, phase, mintSpent, signed, cache, claimed>>

\* An answer: the request is forgotten, then the counter takes the reserved `next`.
\* The proofs are not stored yet.
Accept ==
    /\ job.kind \in Calling /\ job.pc = "wait" /\ job.answer = "ok"
    /\ inflight' = [inflight EXCEPT ![job.tx] = NoRequest]
    /\ counter' = job.index + 1
    /\ WriteThrough(job.index + 1)
    /\ job' = [job EXCEPT !.pc = "commit"]
    /\ UNCHANGED <<storeVars, status, userVars, derived, phase, mintVars>>

\* A send is retried once when its outputs are already signed.  The retry is not
\* under the try that rolls back: if it fails, the reservation stays open.
AfterError(heal) ==
    CASE heal                              -> [job EXCEPT !.pc = "call", !.healed = TRUE]
      [] job.kind = "send" /\ job.healed   -> [job EXCEPT !.pc = "failed"]
      [] OTHER                             -> [job EXCEPT !.pc = "undo"]

\* The mint says no: the request is forgotten.
Refused ==
    /\ job.kind \in Calling /\ job.pc = "wait"
    /\ job.answer \in {"spent", "signed"}
    /\ inflight' = [inflight EXCEPT ![job.tx] = NoRequest]
    /\ job' = AfterError(job.kind = "send" /\ job.answer = "signed" /\ ~job.healed)
    /\ UNCHANGED <<storeVars, status, userVars, counterVars, phase, mintVars, faults>>

\* No answer: the request is kept for the sweep.
Lost ==
    /\ job.kind \in Calling /\ job.pc = "wait"
    /\ faults.timeouts < MaxTimeouts
    /\ faults' = [faults EXCEPT !.timeouts = @ + 1]
    /\ job' = AfterError(FALSE)
    /\ UNCHANGED <<storeVars, status, userVars, inflight, counterVars, phase, mintVars>>

------------------------------------------------------------------------------
(* Resolving the reservation.                                              *)

\* Mutants: the inputs are released, not spent; the commit leaves the counter alone.
CommitReleasing(toSpent, new) ==
    /\ Commit(job.row, {}, toSpent, new)
    /\ dcounter' = IF DOMAIN new = {} THEN dcounter ELSE Maximum(dcounter, counter)

CommitWithoutCounter(toSpent, new) ==
    /\ Commit(job.row, toSpent, {}, new)
    /\ UNCHANGED dcounter

\* The W2 backstop: the commit's own batch raises the stored counter too.
CommitWithCounter(toSpent, new) ==
    /\ Commit(job.row, toSpent, {}, new)
    /\ dcounter' = IF DOMAIN new = {} THEN dcounter ELSE Maximum(dcounter, counter)

\* Mutant: the change is not stored.
NewProofsWithoutChange(j) == [p \in PayeePart(j) |-> Held("PENDING", j.tx)]

\* Mutant: the payee's part is stored as if it were change.
NewProofsAllChange(j) ==
    [p \in Outputs(j) \cup Unchanged(j) |-> Held("UNSPENT", j.tx)]

NewProofs(j) ==
    [p \in Outputs(j) \cup Unchanged(j) |->
        Held(IF j.kind # "revert" /\ p \in PayeePart(j) THEN "PENDING" ELSE "UNSPENT", j.tx)]

\* The retry spends every input it reserved, the send only those the swap used.
CommitSend ==
    /\ job.kind \in {"send", "retry"} /\ job.pc = "commit"
    /\ CommitWithCounter(IF job.kind = "send" THEN job.used ELSE DOMAIN job.row.locked,
                         NewProofs(job))
    /\ status' = [status EXCEPT ![job.tx] = "PENDING"]
    /\ token' = [token EXCEPT ![job.tx] = PayeePart(job)]
    /\ watches' = IF job.kind = "send" THEN watches \cup {Having(mem', "PENDING")}
                                       ELSE watches
    /\ job' = Idle
    /\ UNCHANGED <<asked, inflight, counter, derived, phase, mintVars, faults>>

\* Mutant: the reclaim commits its proofs and not its status.
CommitRevertKeepingStatus ==
    /\ job.kind = "revert" /\ job.pc = "commit"
    /\ CommitWithCounter(job.offered, NewProofs(job))
    /\ job' = Idle
    /\ UNCHANGED <<status, userVars, inflight, counter, derived, phase, mintVars, faults>>

CommitRevert ==
    /\ job.kind = "revert" /\ job.pc = "commit"
    /\ CommitWithCounter(job.offered, NewProofs(job))
    /\ status' = [status EXCEPT ![job.tx] = "REVERTED"]
    /\ job' = Idle
    /\ UNCHANGED <<userVars, inflight, counter, derived, phase, mintVars, faults>>

Undo ==
    /\ job.kind \in Calling /\ job.pc = "undo"
    /\ Rollback(job.row)
    /\ job' = IF job.kind = "retry" THEN Idle ELSE [job EXCEPT !.pc = "failed"]
    /\ UNCHANGED <<status, userVars, inflight, counterVars, phase, mintVars, faults>>

\* Mutant: a reclaim that failed is called REVERTED.
FailReverting ==
    /\ job.kind \in {"send", "revert"} /\ job.pc = "failed"
    /\ status' = [status EXCEPT ![job.tx] = IF job.kind = "revert" THEN "REVERTED" ELSE "ERROR"]
    /\ job' = Idle
    /\ UNCHANGED <<storeVars, userVars, inflight, counterVars, phase, mintVars, faults>>

\* The task's catch: ERROR, whatever the status was.
Fail ==
    /\ job.kind \in {"send", "revert"} /\ job.pc = "failed"
    /\ status' = [status EXCEPT ![job.tx] = "ERROR"]
    /\ job' = Idle
    /\ UNCHANGED <<storeVars, userVars, inflight, counterVars, phase, mintVars, faults>>

------------------------------------------------------------------------------
(* syncStateWithMintTask: branch 1, the one a send can reach.              *)

\* Whose proofs a sync asks about: all PENDING ones, those of one transaction (the
\* refresh), a set captured when a token was handed out, or all UNSPENT ones.
Batches ==
    {Having(mem, "PENDING")} \cup {PendingOf(t) : t \in Send} \cup {w \cap Live : w \in watches}

StartSync(S, from) ==
    /\ Ready /\ S # {}
    /\ job' = [kind |-> "sync", pc |-> "check", batch |-> S, from |-> from]
    /\ UNCHANGED <<storeVars, status, userVars, inflight, counterVars, phase, mintVars, faults>>

SyncPending == \E S \in Batches : StartSync(S, "PENDING")
SyncUnspent == StartSync(Spendable, "UNSPENT")

\* The mint's answer.  From here on the task works on this snapshot.
Check ==
    /\ job.kind = "sync" /\ job.pc = "check"
    /\ job' = [kind |-> "sync", pc |-> "move", from |-> job.from,
               spent |-> job.batch \cap mintSpent, unspent |-> job.batch \ mintSpent]
    /\ UNCHANGED <<storeVars, status, userVars, inflight, counterVars, phase, mintVars, faults>>

WriteOff ==
    /\ job.kind = "sync" /\ job.pc = "move"
    /\ IF job.spent = {}
       THEN job' = Idle /\ UNCHANGED storeVars
       ELSE /\ MoveToSpent(job.spent)
            /\ job' = [kind |-> "sync", pc |-> "settle", from |-> job.from,
                       spent |-> job.spent, unspent |-> job.unspent,
                       todo |-> {mem[p].tx : p \in job.spent}]
    /\ UNCHANGED <<status, userVars, inflight, counterVars, phase, mintVars, faults>>

Total(t) == IF t = Genesis THEN BaseWorth * Cardinality(Base) ELSE Amount[t]

SpentOf(t) == {p \in job.spent : mem[p].tx = t}
\* Mutant: any spent proof of a transaction stands for all.
NeverPartial(t) == FALSE

Partial(t) == Worth(SpentOf(t)) < Total(t)

\* Mutant: finalize refuses a send in ERROR.
FinalizedFromPending(t) ==
    CASE status[t] = "COMPLETED"                        -> "COMPLETED"
      [] status[t] = "PENDING" /\ PendingOf(t) = {}     -> "COMPLETED"
      [] OTHER                                          -> "ERROR"

\* finalize.  A nested sync cannot start while this task holds the queue, so a send
\* that still has PENDING proofs times out, and the caller stamps ERROR.
Finalized(t) ==
    CASE status[t] = "COMPLETED"                                   -> "COMPLETED"
      [] status[t] \in {"PENDING", "ERROR"} /\ PendingOf(t) = {}   -> "COMPLETED"
      [] OTHER                                                     -> "ERROR"

SettleTx(t) ==
    /\ job.kind = "sync" /\ job.pc = "settle" /\ t \in job.todo
    /\ status' = [status EXCEPT ![t] = CASE Partial(t)              -> "ERROR"
                                         [] status[t] = "REVERTED"  -> "REVERTED"
                                         [] t = Genesis             -> status[t]
                                         [] OTHER                   -> Finalized(t)]
    /\ job' = [job EXCEPT !.todo = @ \ {t},
                          !.pc = IF Partial(t) /\ job.from = "PENDING" THEN "release" ELSE @]
    /\ UNCHANGED <<storeVars, userVars, inflight, counterVars, phase, mintVars, faults>>

\* After a partial spend every proof of the batch that the mint called UNSPENT is
\* made spendable, whosever it is.
Release ==
    /\ job.kind = "sync" /\ job.pc = "release"
    /\ RevertToSpendable(job.unspent)
    /\ job' = [job EXCEPT !.pc = "settle"]
    /\ UNCHANGED <<status, userVars, inflight, counterVars, phase, mintVars, faults>>

Settled ==
    /\ job.kind = "sync" /\ job.pc = "settle" /\ job.todo = {}
    /\ job' = Idle
    /\ UNCHANGED <<storeVars, status, userVars, inflight, counterVars, phase, mintVars, faults>>

------------------------------------------------------------------------------
(* The mint and the payees.                                                *)

Answers(q) ==
    IF q \in cache THEN {"ok"}
    ELSE LET no == {e \in {"spent", "signed"} :
                       \/ e = "spent"  /\ q.used \cap mintSpent # {}
                       \/ e = "signed" /\ Outputs(q) \cap signed # {}}
         IN  IF no = {} THEN {"ok"} ELSE no

MintAnswers(q, a) ==
    /\ a \in Answers(q)
    /\ net' = net \ {q}
    /\ IF a = "ok" THEN /\ mintSpent' = mintSpent \cup q.used
                        /\ signed' = signed \cup Outputs(q)
                        /\ cache' = IF Nut19 THEN cache \cup {q} ELSE cache
                   ELSE UNCHANGED <<mintSpent, signed, cache>>
    /\ job' = IF job.kind \in Calling /\ job.pc = "wait" /\ Wire(job) = q
              THEN [job EXCEPT !.answer = a] ELSE job
    /\ UNCHANGED <<storeVars, status, userVars, inflight, counterVars, phase, claimed, faults>>

\* The payee swaps the token, or part of it, for proofs of its own.
Claim(t) ==
    \E S \in (SUBSET token[t]) \ {{}} :
        /\ PartialClaims \/ S = token[t]
        /\ S \cap mintSpent = {}
        /\ mintSpent' = mintSpent \cup S
        /\ claimed' = claimed \cup S
        /\ UNCHANGED <<storeVars, status, userVars, inflight, counterVars, job, phase,
                       net, signed, cache, faults>>

------------------------------------------------------------------------------
(* Dying and coming back (setupRootStore).                                 *)

Crash ==
    /\ phase # "loading"
    /\ faults.crashes < MaxCrashes
    /\ faults' = [faults EXCEPT !.crashes = @ + 1]
    /\ phase' = "loading"
    /\ job' = Idle
    /\ mem' = [p \in Proof |-> Absent]
    /\ asked' = [t \in Send |-> Nothing]
    /\ watches' = {}
    /\ derived' = 1 /\ counter' = 1
    /\ UNCHANGED <<disk, rows, status, token, inflight, dcounter, mintVars>>

\* Mutant: the counters are not loaded.
LoadProofsOnly ==
    /\ phase = "loading"
    /\ LoadProofs
    /\ phase' = "recovering"
    /\ UNCHANGED <<disk, rows, status, userVars, inflight, counterVars, job, mintVars, faults>>

\* Proofs, then derivation counters, come back from SQLite.
Load ==
    /\ phase = "loading"
    /\ LoadProofs
    /\ counter' = Maximum(counter, dcounter)
    /\ phase' = "recovering"
    /\ UNCHANGED <<disk, rows, status, userVars, inflight, dcounter, derived, job,
                   mintVars, faults>>

RecoverOrphan(r) ==
    /\ phase = "recovering"
    /\ Rollback(r)
    /\ UNCHANGED sendVars

Recovered ==
    /\ phase = "recovering" /\ rows = {}
    /\ phase' = "up"
    /\ UNCHANGED <<storeVars, status, userVars, inflight, counterVars, job, mintVars, faults>>

------------------------------------------------------------------------------
SendSteps   == Select \/ Prepared \/ ExecuteWithoutSwap \/ ExecuteWithSwap
CallSteps   == CallMint \/ Accept \/ Refused \/ CommitSend \/ CommitRevert \/ Undo \/ Fail
SyncSteps   == Check \/ WriteOff \/ Release \/ Settled \/ \E t \in Tx : SettleTx(t)
MintSteps   == \E q \in net, a \in {"ok", "spent", "signed"} : MintAnswers(q, a)
Restart     == Load \/ Recovered \/ \E r \in rows : RecoverOrphan(r)

Next ==
    \/ \E t \in Send : AskSend(t) \/ AskRevert(t) \/ Claim(t)
    \/ \E t \in Send : StartSend(t) \/ RefuseSend(t) \/ StartRevert(t)
    \/ \E t \in Send : SweepDrop(t) \/ SweepRetry(t)
    \/ SyncPending \/ SyncUnspent
    \/ SendSteps \/ CallSteps \/ SyncSteps \/ Lost
    \/ MintSteps
    \/ Crash \/ Restart

Spec == Init /\ [][Next]_vars

\* Fairness.  A task that runs goes on (its awaits end), the mint answers, and a
\* process that died is started again.  Any number of other tasks may be queued, but
\* WalletScreen asks for the sync of all PENDING proofs again and again and the queue
\* is first in, first out, so that sync is not overtaken for ever.
Fairness ==
    /\ WF_vars(SendSteps \/ CallSteps \/ SyncSteps)
    /\ WF_vars(MintSteps)
    /\ WF_vars(Restart)
    /\ SF_vars(StartSync(Having(mem, "PENDING"), "PENDING"))

FairSpec == Spec /\ Fairness

------------------------------------------------------------------------------
(* Properties.                                                             *)

\* The records the variables hold, without the parts a task does not have yet.
JobOK ==
    \/ job = Idle
    \/ /\ job.kind \in Calling
       /\ job.pc \in {"select", "reserved", "prepared", "call", "wait", "commit", "undo", "failed"}
       /\ job.tx \in Send /\ job.index \in 0..MaxIndex
       /\ job.used \subseteq job.offered /\ job.offered \subseteq Proof
       /\ job.pc \in {"reserved", "prepared", "call", "wait", "commit", "undo"} => job.row \in rows
    \/ /\ job.kind = "sync" /\ job.pc = "check" /\ job.batch \subseteq Live
    \/ /\ job.kind = "sync" /\ job.pc \in {"move", "settle", "release"}
       /\ job.spent \cap job.unspent = {} /\ job.spent \cup job.unspent \subseteq Live

TypeOK ==
    /\ disk \in [Proof -> ProofRec \cup {Absent}]
    /\ mem \in [Proof -> ProofRec \cup {Absent}]
    /\ status \in [Tx -> Status]
    /\ token \in [Send -> SUBSET Proof]
    /\ \A t \in Send : inflight[t].kind \in {"none", "send", "revert"}
    /\ \A t \in Send : asked[t].want \in {"none", "send", "revert"}
    /\ {counter, dcounter, derived} \subseteq 1..(MaxIndex + 1)
    /\ phase \in {"up", "loading", "recovering"}
    /\ watches \subseteq SUBSET Proof
    /\ mintSpent \cup signed \cup claimed \subseteq Proof
    /\ JobOK

\* The proofs with a row on disk, whatever their state.
Stored == {p \in Proof : disk[p] # Absent}

\* No task is half way through and nothing is being recovered.
Quiet == phase = "up" /\ job = Idle

\* A proof that is in a token somebody holds is never in the balance the wallet
\* spends from, unless that send was reclaimed.  PENDING is what keeps it out, through
\* failed reclaims, crashes, recovery and replays of requests that used all they offered
\* (sendOperationApi.ts 442-456, revertTask.ts 71-77 rollbackTo PENDING,
\* recoverOrphanReservations).
HandedOutNotSpendable ==
    \A t \in Send : status[t] # "REVERTED" => token[t] \cap Having(mem, "UNSPENT") = {}

\* While a send is PENDING its token belongs to the payee: whatever sync concludes about
\* another transaction of the batch releases "siblings" only (syncOperations.ts 144-163).
PendingTokenIsHeld ==
    \A t \in Send : status[t] = "PENDING" => token[t] \cap Having(disk, "UNSPENT") = {}

\* Between tasks the nodes the screens and the coin selection read are the rows of
\* the proofs table; a node may be SPENT or gone only if the row is SPENT or absent
\* (ProofsStore.ts 492-534, rollbackReservation 580-600).
MemoryMirrorsDisk ==
    Quiet => \A p \in Proof :
        CASE mem[p].state \in {"UNSPENT", "PENDING"} -> disk[p] = mem[p]
          [] OTHER -> disk[p].state \in {"none", "SPENT"}

\* COMPLETED means settled (TransactionStates.ts 84): the payee has redeemed the
\* token.  The mint only says that proofs are spent, not by whom, so finalize could
\* mistake the wallet's own reclaim for the payee's claim (sendOperationApi.ts 589-636).
CompletedOnlyIfDelivered ==
    \A t \in Send : status[t] = "COMPLETED" => token[t] # {} /\ token[t] \subseteq claimed

\* REVERTED means the ecash came back (TransactionStates.ts 80): no payee has any of it,
\* although the payee may redeem while the reclaim is under way (revertTask.ts 114-125).
RevertedOnlyIfKept ==
    \A t \in Send : status[t] = "REVERTED" => token[t] \cap claimed = {}

\* Between tasks the balance is real: no proof the wallet calls UNSPENT is spent at the
\* mint (sendOperationApi.ts 411-413 decides which inputs the swap took).
SpendableIsReal == Quiet => Having(mem, "UNSPENT") \cap mintSpent = {}

\* Between tasks no ecash is lost: every unspent proof the mint signed for the wallet
\* is on disk, spendable or handed out (commitReservation stores change and token), and no
\* reservation is left that holds any: each is resolved before its operation completes
\* (proofReservation.ts 9-12), whichever way the mint call failed.
NothingStranded ==
    Quiet =>
        /\ rows = {}
        /\ \A p \in (Base \cup signed) \ mintSpent : disk[p].state \in {"UNSPENT", "PENDING"}

\* Proofs picked by hand are locked as they are when the task runs, without a look at their
\* state (sendOperationApi.ts 209-224): whether they still are what the screen offered.
PicksAreFresh ==
    job.kind = "send" /\ job.pc = "select" /\ job.tx \in Offline
        => asked[job.tx].picked \subseteq Spendable

\* No proof is in two tokens.
Disjoint == \A t, u \in Send : t # u => token[t] \cap token[u] = {}

\* The same ecash is never given to two payees, though sends are queued behind each other,
\* fail and are reclaimed, as long as no proof picked by hand was taken by another task
\* while its send waited in the queue.
TokensDisjoint == []PicksAreFresh => []Disjoint

\* Every stored proof was derived below the derivation counter on disk, even when
\* the write-through of the counter failed: the commit's own batch repeats it
\* (reservationsRepo.ts 173-182, countersRepo.ts 46-61).
CounterCoversCommitted ==
    \A k \in Index, i \in Slots : <<k, i>> \in Stored => k < dcounter

\* A request never asks the mint to sign outputs whose secrets are already in the proofs
\* table, also after a restart that began from the stored counter: the commit would
\* overwrite ecash (WalletStore.ts 732-739, Mint.ts 164).
FreshOutputs ==
    (job.kind \in Calling /\ job.pc = "wait") => Outputs(job) \cap Stored = {}

\* Written off: SPENT on disk, or locked by operations that will all put SPENT back.
WrittenOff ==
    {p \in Proof : /\ disk[p].state = "SPENT" \/ Locked(p)
                   /\ \A r \in rows : p \in DOMAIN r.locked => r.locked[p].state = "SPENT"}

\* A proof that is written off stays so, through a retry that locks SPENT inputs, makes
\* them PENDING on disk and fails or dies half way (inFlightOperations.ts 142-151, "never
\* un-spends").
SpentStaysSpent == [][WrittenOff \subseteq WrittenOff']_storeVars

\* A replay is safe: if the mint has already honoured this request, asking again
\* gives its answer again and not "already spent" (inFlightOperations.ts 29-32).
ReplayIsIdempotent ==
    (/\ job.kind = "retry" /\ job.pc = "wait"
     /\ \E q \in cache : q.tx = job.tx /\ q.used = job.used) => job.answer # "spent"

\* When the payee has redeemed all of the token of a PENDING send, the wallet
\* notices: the send becomes COMPLETED, even if the user tries to reclaim it first
\* (sendOperationApi.ts 589-615, syncOperations.ts 127-216).
ClaimedIsNoticed ==
    \A t \in Send :
        (status[t] = "PENDING" /\ token[t] \subseteq claimed) ~> (status[t] = "COMPLETED")

\* When the payee has redeemed any of it, the rest does not stay handed out for ever:
\* the send ends with none of its proofs PENDING (syncOperations.ts 144-163).
ClaimIsResolved ==
    \A t \in Send :
        (status[t] = "PENDING" /\ token[t] \cap claimed # {}) ~> (PendingOf(t) = {})
==============================================================================
