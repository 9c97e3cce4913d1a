--------------------- MODULE IncomingLifecycle_proofs ---------------------
(***************************************************************************)
(* Ecash coming in, for any number of tokens, quotes and transactions, and *)
(* whatever interleaving of the queue, the recovery screen, the watchers,  *)
(* the mint, other devices, lost answers and restarts.                     *)
(***************************************************************************)
EXTENDS IncomingLifecycle, FiniteSums

Starting == {"receive", "offline", "request", "topup", "deposit"}

Statuses ==
    {"none", "DRAFT", "PREPARED", "PREPARED_OFFLINE", "PENDING", "COMPLETED", "RECOVERED",
     "EXPIRED", "BLOCKED", "ERROR"}

JobRecord ==
    [kind : {"idle", "receive", "complete", "payload", "topup", "deposit", "refresh", "check",
             "retry", "recover"},
     tx : InTx \cup {"none"}, src : Source \cup {"none"},
     pc : {"idle", "open", "quote", "ask", "told", "call", "wait", "commit", "raise"},
     n : Nat, index : Nat, healed : BOOLEAN, answer : {"none", "ok", "signed", "spent"},
     told : [paid : Nat, issued : Nat]]

LedgerRecord == {r \in [paid : Nat, issued : Nat, elsewhere : Nat] : r.issued <= r.paid}

RecordTypes ==
    /\ inStatus \in [InTx -> Statuses]
    /\ credit \in [InTx -> Nat] /\ inRows \in [InTx -> Nat]

BookTypes ==
    /\ quoteRow \in [Source -> [paid : Int, issued : Nat]]
    /\ made \in [Source -> Seq(InTx)]
    /\ noted \subseteq InTx /\ fullToken \subseteq InTx

TaskTypes ==
    /\ inJob \in [Lanes -> JobRecord]
    /\ inTodo \subseteq [kind : Starting \cup {"complete", "payload", "refresh", "check"},
                         of : InTx \cup Source]

WatchTypes ==
    /\ polled \subseteq InTx /\ socketed \subseteq InTx
    /\ timedOut \subseteq InTx \cup Source

MintTypes ==
    /\ ledger \in [Source -> LedgerRecord]
    /\ inNet \subseteq [tx : InTx, src : Source, n : Nat, index : Nat]
    /\ answered \in [DOMAIN answered -> [src : Source, n : Nat]] /\ DOMAIN answered \subseteq Nat

RestTypes ==
    /\ session \in Sessions /\ mintBlocked \in BOOLEAN /\ inFaults \in Nat
    /\ inCounter \in Nat /\ inDerived \in Nat

Types == RecordTypes /\ BookTypes /\ TaskTypes /\ WatchTypes /\ MintTypes /\ RestTypes

\* What waits in the queue still makes sense when it is taken up.
TaskFits(k) ==
    /\ k.kind \in Starting =>
        k.of \in InTx /\ InKind[k.of] = k.kind /\ inStatus[k.of] = "none"
    /\ k.kind = "complete" => k.of \in InTx /\ InKind[k.of] = "offline" /\ inStatus[k.of] # "none"
    /\ k.kind = "payload" => k.of \in InTx /\ InKind[k.of] = "request" /\ inStatus[k.of] # "none"
    /\ k.kind = "refresh" => k.of \in InTx /\ InKind[k.of] = "topup"
    /\ k.kind = "check" => k.of \in Source /\ made[k.of] # <<>>

TasksFit == \A k \in inTodo : TaskFits(k)

\* A deposit that waits to be asked for is the first of its quote.
DepositsFirst ==
    \A t \in InTx : [kind |-> "deposit", of |-> t] \in inTodo =>
        /\ made[Origin[t]] = <<>>
        /\ ~(inJob["queue"].kind = "deposit" /\ inJob["queue"].src = Origin[t])
        /\ \A u \in InTx :
               [kind |-> "deposit", of |-> u] \in inTodo /\ Origin[u] = Origin[t] => u = t

\* A status that only one kind of transaction has.
Suits(t, st) ==
    /\ st = "PREPARED_OFFLINE" => InKind[t] = "offline"
    /\ st = "RECOVERED" => InKind[t] = "recover"

BooksFit ==
    /\ \A s \in Source :
        /\ quoteRow[s] # NoQuoteRow => made[s] # <<>>
        /\ \A i \in DOMAIN made[s] : Origin[made[s][i]] = s /\ inStatus[made[s][i]] # "none"
    /\ \A t \in InTx : inRows[t] > 0 => inStatus[t] # "none"
    /\ \A t \in InTx : Suits(t, inStatus[t])
    /\ \A t \in socketed : InKind[t] = "topup"

\* The task of the queue is alone with its transaction, and finds it as it left it.
HasTx(j) ==
    \/ j.kind \in {"receive", "complete", "payload", "topup", "deposit", "refresh", "retry"}
    \/ j.kind = "check" /\ j.pc \in {"call", "wait", "commit", "raise"}

QueueFits(j) ==
    /\ j.kind # "recover"
    /\ j.pc = "idle" => j.kind = "idle"
    /\ j.pc = "open" => j.kind \in {"receive", "complete"}
    /\ (j.pc = "quote" <=> j.kind \in {"topup", "deposit"})
    /\ j.pc \in {"ask", "told"} => j.kind \in {"refresh", "check"}
    /\ j.pc \in {"call", "wait", "commit"} =>
        j.kind \in {"receive", "complete", "payload", "refresh", "check", "retry"}
    /\ j.pc = "raise" => j.kind = "check"
    /\ HasTx(j) => j.tx \in InTx /\ Origin[j.tx] = j.src /\ inStatus[j.tx] # "none"
    /\ j.kind = "receive" => InKind[j.tx] = "receive" /\ inStatus[j.tx] = "PREPARED"
    /\ j.kind = "complete" => InKind[j.tx] = "offline" /\ inStatus[j.tx] = "PREPARED_OFFLINE"
    /\ j.kind = "payload" => InKind[j.tx] = "request" /\ inStatus[j.tx] = "PENDING"
    /\ j.kind \in {"topup", "deposit"} => InKind[j.tx] = j.kind /\ inStatus[j.tx] = "DRAFT"
    /\ j.kind = "refresh" => InKind[j.tx] = "topup" /\ inStatus[j.tx] = "PENDING"
    /\ j.kind = "check" => j.src \in Source /\ made[j.src] # <<>>

ScreenFits(j) ==
    /\ j.kind \in {"idle", "recover"}
    /\ j.kind = "idle" => j.pc = "idle"
    /\ j.kind = "recover" =>
        /\ j.tx \in InTx /\ InKind[j.tx] = "recover" /\ Origin[j.tx] = j.src
        /\ j.pc \in {"ask", "told", "call", "wait", "commit"}
        /\ (j.pc \in {"ask", "told"} <=> inStatus[j.tx] = "none")

\* Ecash of t is reported.
Reported(t) ==
    \/ inStatus[t] \in {"COMPLETED", "RECOVERED"}
    \/ InKind[t] = "offline" /\ inStatus[t] = "ERROR"

JobsFit == QueueFits(inJob["queue"]) /\ ScreenFits(inJob["screen"])

IInv == Types /\ TasksFit /\ DepositsFirst /\ BooksFit /\ JobsFit /\ EcashIsReported

-----------------------------------------------------------------------------
(* What a step that makes no new transaction for a deposit leaves.         *)

\* No task that starts t waits.
NotAsked(t) == \A k \in inTodo : k.kind \in Starting => k.of # t

LEMMA TasksStay ==
    ASSUME TasksFit, inTodo' \subseteq inTodo,
           \A t \in InTx : inStatus'[t] = inStatus[t] \/ (inStatus'[t] # "none" /\ NotAsked(t)'),
           \A s \in Source : made[s] # <<>> => made'[s] # <<>>
    PROVE  TasksFit'
<1> SUFFICES ASSUME NEW k \in inTodo' PROVE TaskFits(k)'
    BY DEF TasksFit
<1>1. TaskFits(k)
    BY DEF TasksFit
<1>2. CASE k.kind \in Starting
    <2>1. k.of \in InTx /\ InKind[k.of] = k.kind /\ inStatus[k.of] = "none"
        BY <1>1, <1>2 DEF TaskFits
    <2>2. inStatus'[k.of] = inStatus[k.of]
        BY <1>2, <2>1 DEF NotAsked
    <2> QED
        BY <1>2, <2>1, <2>2 DEF TaskFits, Starting
<1>3. CASE k.kind \notin Starting
    BY <1>1, <1>3 DEF TaskFits
<1> QED
    BY <1>2, <1>3

LEMMA DepositsStay ==
    ASSUME DepositsFirst, inTodo' \subseteq inTodo, made' = made,
           inJob'["queue"].kind = "deposit" =>
               inJob["queue"].kind = "deposit" /\ inJob'["queue"].src = inJob["queue"].src
    PROVE  DepositsFirst'
BY DEF DepositsFirst

LEMMA BooksStay ==
    ASSUME BooksFit, made' = made,
           \A t \in InTx : inStatus'[t] = inStatus[t] \/ inStatus'[t] # "none",
           \A t \in InTx : inStatus'[t] = inStatus[t] \/ Suits(t, inStatus'[t]),
           \A t \in InTx : inRows'[t] > 0 => inRows[t] > 0 \/ inStatus'[t] # "none",
           \A s \in Source : quoteRow'[s] = quoteRow[s] \/ made[s] # <<>>,
           \A t \in socketed' : t \in socketed \/ InKind[t] = "topup",
           made \in [Source -> Seq(InTx)]
    PROVE  BooksFit'
<1>1. ASSUME NEW s \in Source
      PROVE  /\ quoteRow'[s] # NoQuoteRow => made'[s] # <<>>
             /\ \A i \in DOMAIN made'[s] :
                    Origin[made'[s][i]] = s /\ inStatus'[made'[s][i]] # "none"
    <2>1. quoteRow'[s] # NoQuoteRow => made'[s] # <<>>
        BY DEF BooksFit
    <2>2. ASSUME NEW i \in DOMAIN made[s]
          PROVE  Origin[made[s][i]] = s /\ inStatus'[made[s][i]] # "none"
        <3>1. Origin[made[s][i]] = s /\ inStatus[made[s][i]] # "none"
            BY DEF BooksFit
        <3>2. made[s][i] \in InTx
            OBVIOUS
        <3> QED
            BY <3>1, <3>2
    <2> QED
        BY <2>1, <2>2
<1>2. \A t \in InTx : inRows'[t] > 0 => inStatus'[t] # "none"
    BY DEF BooksFit
<1>3. \A t \in InTx : Suits(t, inStatus'[t])
    BY DEF BooksFit
<1>4. \A t \in socketed' : InKind[t] = "topup"
    BY DEF BooksFit
<1> QED
    BY <1>1, <1>2, <1>3, <1>4 DEF BooksFit, NoQuoteRow

LEMMA ReportedStays ==
    ASSUME EcashIsReported,
           \A t \in InTx : \/ credit'[t] = credit[t] /\ inStatus'[t] = inStatus[t]
                           \/ credit'[t] = credit[t] /\ ~(credit[t] > 0)
                           \/ Reported(t)'
    PROVE  EcashIsReported'
BY DEF EcashIsReported, Reported

\* The task of the queue that a step leaves alone.
LEMMA QueueStays ==
    ASSUME QueueFits(inJob["queue"]), inJob'["queue"] = inJob["queue"],
           HasTx(inJob["queue"]) =>
               \/ inStatus'[inJob["queue"].tx] = inStatus[inJob["queue"].tx]
               \/ /\ inJob["queue"].kind \in {"retry", "check"}
                  /\ inStatus'[inJob["queue"].tx] # "none",
           \A s \in Source : made[s] # <<>> => made'[s] # <<>>
    PROVE  QueueFits(inJob["queue"])'
<1>1. HasTx(inJob["queue"])' <=> HasTx(inJob["queue"])
    BY DEF HasTx
<1>2. inJob["queue"].kind \in {"receive", "complete", "payload", "topup", "deposit", "refresh"} =>
          inStatus'[inJob["queue"].tx] = inStatus[inJob["queue"].tx]
    BY DEF HasTx
<1> QED
    BY <1>1, <1>2 DEF QueueFits

LEMMA ScreenStays ==
    ASSUME ScreenFits(inJob["screen"]), inJob'["screen"] = inJob["screen"],
           inJob["screen"].kind = "recover" =>
               (inStatus'[inJob["screen"].tx] = "none" <=> inStatus[inJob["screen"].tx] = "none")
    PROVE  ScreenFits(inJob["screen"])'
BY DEF ScreenFits

\* A step that changes no status, and nothing in the lanes.
LEMMA NothingMoves ==
    ASSUME IInv, Types', UNCHANGED <<inStatus, credit, inRows, quoteRow, made, inJob>>,
           inTodo' \subseteq inTodo, socketed' \subseteq socketed
    PROVE  IInv'
<1>1. TasksFit'
    <2>1. \A t \in InTx : inStatus'[t] = inStatus[t] \/ (inStatus'[t] # "none" /\ NotAsked(t)')
        OBVIOUS
    <2>2. \A s \in Source : made[s] # <<>> => made'[s] # <<>>
        OBVIOUS
    <2> QED
        BY <2>1, <2>2, TasksStay DEF IInv
<1>2. DepositsFirst'
    BY DepositsStay DEF IInv
<1>3. BooksFit'
    BY BooksStay DEF IInv, Types, BookTypes
<1>4. JobsFit'
    BY QueueStays, ScreenStays DEF IInv, JobsFit
<1>5. EcashIsReported'
    BY ReportedStays DEF IInv
<1> QED
    BY <1>1, <1>2, <1>3, <1>4, <1>5 DEF IInv

\* A task is put into the queue.
LEMMA TaskWaits ==
    ASSUME IInv, Types', UNCHANGED <<inStatus, credit, inRows, quoteRow, made, inJob>>,
           socketed' \subseteq socketed,
           NEW k, inTodo' \subseteq inTodo \cup {k}, TaskFits(k), k.kind # "deposit"
    PROVE  IInv'
<1>1. TasksFit'
    BY DEF IInv, TasksFit, TaskFits
<1>2. DepositsFirst'
    <2>1. \A t : [kind |-> "deposit", of |-> t] \in inTodo' => [kind |-> "deposit", of |-> t] \in inTodo
        OBVIOUS
    <2> QED
        BY <2>1 DEF IInv, DepositsFirst
<1>3. BooksFit'
    BY BooksStay DEF IInv, Types, BookTypes
<1>4. JobsFit'
    BY QueueStays, ScreenStays DEF IInv, JobsFit
<1>5. EcashIsReported'
    BY ReportedStays DEF IInv
<1> QED
    BY <1>1, <1>2, <1>3, <1>4, <1>5 DEF IInv

\* A lane goes on; no status changes.
LEMMA LaneMoves ==
    ASSUME IInv, Types', UNCHANGED <<inStatus, credit, made>>, JobsFit',
           inTodo' \subseteq inTodo, socketed' \subseteq socketed,
           inJob'["queue"].kind = "deposit" =>
               inJob["queue"].kind = "deposit" /\ inJob'["queue"].src = inJob["queue"].src,
           \A t \in InTx : inRows'[t] > 0 => inRows[t] > 0 \/ inStatus'[t] # "none",
           \A s \in Source : quoteRow'[s] = quoteRow[s] \/ made[s] # <<>>
    PROVE  IInv'
<1>1. TasksFit'
    <2>1. \A t \in InTx : inStatus'[t] = inStatus[t] \/ (inStatus'[t] # "none" /\ NotAsked(t)')
        OBVIOUS
    <2>2. \A s \in Source : made[s] # <<>> => made'[s] # <<>>
        OBVIOUS
    <2> QED
        BY <2>1, <2>2, TasksStay DEF IInv
<1>2. DepositsFirst'
    BY DepositsStay DEF IInv
<1>3. BooksFit'
    BY BooksStay DEF IInv, Types, BookTypes
<1>5. EcashIsReported'
    BY ReportedStays DEF IInv
<1> QED
    BY <1>1, <1>2, <1>3, <1>5 DEF IInv

\* A lane goes on, and the status of its transaction changes.
LEMMA StatusMoves ==
    ASSUME IInv, Types', UNCHANGED made, JobsFit',
           inTodo' \subseteq inTodo, socketed' \subseteq socketed,
           inJob'["queue"].kind = "deposit" =>
               inJob["queue"].kind = "deposit" /\ inJob'["queue"].src = inJob["queue"].src,
           \A t \in InTx : inRows'[t] > 0 => inRows[t] > 0 \/ inStatus'[t] # "none",
           quoteRow' = quoteRow,
           NEW t \in InTx, NEW st, inStatus' = [inStatus EXCEPT ![t] = st], st # "none",
           inStatus[t] # "none" \/ NotAsked(t)',
           Suits(t, st),
           \A u \in InTx \ {t} : credit'[u] = credit[u],
           Reported(t)' \/ (credit'[t] = credit[t] /\ ~(credit[t] > 0))
    PROVE  IInv'
<1>0. /\ inStatus'[t] = st
      /\ \A u \in InTx \ {t} : inStatus'[u] = inStatus[u]
    BY DEF IInv, Types, RecordTypes
<1>6. NotAsked(t)'
    <2>1. inStatus[t] # "none" => NotAsked(t)'
        BY DEF IInv, TasksFit, TaskFits, NotAsked
    <2> QED
        BY <2>1
<1>1. TasksFit'
    <2>1. \A u \in InTx : inStatus'[u] = inStatus[u] \/ (inStatus'[u] # "none" /\ NotAsked(u)')
        BY <1>0, <1>6
    <2>2. \A s \in Source : made[s] # <<>> => made'[s] # <<>>
        OBVIOUS
    <2> QED
        BY <2>1, <2>2, TasksStay DEF IInv
<1>2. DepositsFirst'
    BY DepositsStay DEF IInv
<1>3. BooksFit'
    BY <1>0, BooksStay DEF IInv, Types, BookTypes
<1>5. EcashIsReported'
    BY <1>0, ReportedStays DEF IInv
<1> QED
    BY <1>1, <1>2, <1>3, <1>5 DEF IInv

-----------------------------------------------------------------------------
(* Around the tasks: the screens, the watchers, the payer and the mint.    *)

\* The detail of an offline receive opens and closes.
LEMMA OpenDetailKeeps ==
    ASSUME NEW t \in InTx, IInv, OpenDetail(t)
    PROVE  IInv'
<1>1. UNCHANGED <<session, inStatus, noted, credit, inRows, quoteRow, made, inJob, inTodo,
            polled, socketed, timedOut, inCounter, inDerived, ledger, inNet, answered,
            mintBlocked, inFaults>>
    BY DEF OpenDetail, bookVars, drawVars, mintSide, restVars, watchVars
<1>3. fullToken' = fullToken \cup {t}
    BY DEF OpenDetail
<1>2. Types'
    <2>1. RecordTypes'
        BY <1>1 DEF IInv, Types, RecordTypes
    <2>2. BookTypes'
        BY <1>1, <1>3 DEF IInv, Types, BookTypes
    <2>3. TaskTypes'
        BY <1>1 DEF IInv, Types, TaskTypes
    <2>4. WatchTypes'
        BY <1>1 DEF IInv, Types, WatchTypes
    <2>5. MintTypes'
        BY <1>1 DEF IInv, Types, MintTypes
    <2>6. RestTypes'
        BY <1>1 DEF IInv, Types, RestTypes
    <2> QED
        BY <2>1, <2>2, <2>3, <2>4, <2>5, <2>6 DEF Types
<1> QED
    BY <1>1, <1>2, <1>3, NothingMoves

\* The detail closes.
LEMMA LeaveDetailKeeps ==
    ASSUME NEW t \in InTx, IInv, LeaveDetail(t)
    PROVE  IInv'
<1>1. UNCHANGED <<session, inStatus, noted, credit, inRows, quoteRow, made, inJob, inTodo,
            polled, socketed, timedOut, inCounter, inDerived, ledger, inNet, answered,
            mintBlocked, inFaults>>
    BY DEF LeaveDetail, bookVars, drawVars, mintSide, restVars, watchVars
<1>3. fullToken' \subseteq fullToken
    BY DEF LeaveDetail
<1>2. Types'
    <2>1. RecordTypes'
        BY <1>1 DEF IInv, Types, RecordTypes
    <2>2. BookTypes'
        BY <1>1, <1>3 DEF IInv, Types, BookTypes
    <2>3. TaskTypes'
        BY <1>1 DEF IInv, Types, TaskTypes
    <2>4. WatchTypes'
        BY <1>1 DEF IInv, Types, WatchTypes
    <2>5. MintTypes'
        BY <1>1 DEF IInv, Types, MintTypes
    <2>6. RestTypes'
        BY <1>1 DEF IInv, Types, RestTypes
    <2> QED
        BY <2>1, <2>2, <2>3, <2>4, <2>5, <2>6 DEF Types
<1> QED
    BY <1>1, <1>2, <1>3, NothingMoves

\* The mint is blocked.
LEMMA BlockMintKeeps ==
    ASSUME IInv, BlockMint
    PROVE  IInv'
<1>1. UNCHANGED <<session, inStatus, noted, credit, fullToken, inRows, quoteRow, made, inJob,
            inTodo, polled, socketed, timedOut, inCounter, inDerived, ledger, inNet, answered,
            inFaults>>
    BY DEF BlockMint, bookVars, drawVars, mintSide, restVars, watchVars
<1>3. mintBlocked' = TRUE
    BY DEF BlockMint
<1>2. Types'
    <2>1. RecordTypes'
        BY <1>1 DEF IInv, Types, RecordTypes
    <2>2. BookTypes'
        BY <1>1 DEF IInv, Types, BookTypes
    <2>3. TaskTypes'
        BY <1>1 DEF IInv, Types, TaskTypes
    <2>4. WatchTypes'
        BY <1>1 DEF IInv, Types, WatchTypes
    <2>5. MintTypes'
        BY <1>1 DEF IInv, Types, MintTypes
    <2>6. RestTypes'
        BY <1>1, <1>3 DEF IInv, Types, RestTypes
    <2> QED
        BY <2>1, <2>2, <2>3, <2>4, <2>5, <2>6 DEF Types
<1> QED
    BY <1>1, <1>2, <1>3, NothingMoves

\* A poller ends.
LEMMA PollerEndsKeeps ==
    ASSUME NEW t \in InTx, IInv, PollerEnds(t)
    PROVE  IInv'
<1>1. UNCHANGED <<session, inStatus, noted, credit, fullToken, inRows, quoteRow, made, inJob,
            inTodo, socketed, timedOut, inCounter, inDerived, ledger, inNet, answered,
            mintBlocked, inFaults>>
    BY DEF PollerEnds, bookVars, drawVars, mintSide, restVars, watchVars
<1>3. polled' \subseteq polled
    BY DEF PollerEnds
<1>2. Types'
    <2>1. RecordTypes'
        BY <1>1 DEF IInv, Types, RecordTypes
    <2>2. BookTypes'
        BY <1>1 DEF IInv, Types, BookTypes
    <2>3. TaskTypes'
        BY <1>1 DEF IInv, Types, TaskTypes
    <2>4. WatchTypes'
        BY <1>1, <1>3 DEF IInv, Types, WatchTypes
    <2>5. MintTypes'
        BY <1>1 DEF IInv, Types, MintTypes
    <2>6. RestTypes'
        BY <1>1 DEF IInv, Types, RestTypes
    <2> QED
        BY <2>1, <2>2, <2>3, <2>4, <2>5, <2>6 DEF Types
<1> QED
    BY <1>1, <1>2, <1>3, NothingMoves

\* A payment comes in.
LEMMA PaidKeeps ==
    ASSUME NEW s \in Source, IInv, Paid(s)
    PROVE  IInv'
<1>1. UNCHANGED <<session, inStatus, noted, credit, fullToken, inRows, quoteRow, made, inJob,
            inTodo, polled, socketed, timedOut, inCounter, inDerived, inNet, answered,
            mintBlocked, inFaults>>
    BY DEF Paid, bookVars, drawVars, mintSide, restVars, watchVars
<1>3. ledger' = [ledger EXCEPT ![s].paid = @ + 1]
    BY DEF Paid
<1>2. Types'
    <2>1. RecordTypes'
        BY <1>1 DEF IInv, Types, RecordTypes
    <2>2. BookTypes'
        BY <1>1 DEF IInv, Types, BookTypes
    <2>3. TaskTypes'
        BY <1>1 DEF IInv, Types, TaskTypes
    <2>4. WatchTypes'
        BY <1>1 DEF IInv, Types, WatchTypes
    <2>5. MintTypes'
        <3>1. ledger[s] \in LedgerRecord /\ ledger \in [Source -> LedgerRecord]
            BY DEF IInv, Types, MintTypes
        <3>2. [ledger[s] EXCEPT !.paid = @ + 1] \in LedgerRecord
            BY <3>1 DEF LedgerRecord
        <3>3. ledger' \in [Source -> LedgerRecord]
            BY <1>3, <3>1, <3>2
        <3> QED
            BY <1>1, <3>3 DEF IInv, Types, MintTypes
    <2>6. RestTypes'
        BY <1>1 DEF IInv, Types, RestTypes
    <2> QED
        BY <2>1, <2>2, <2>3, <2>4, <2>5, <2>6 DEF Types
<1> QED
    BY <1>1, <1>2, <1>3, NothingMoves

\* Someone else takes what is there.
LEMMA TakenElsewhereKeeps ==
    ASSUME NEW s \in Source, IInv, TakenElsewhere(s)
    PROVE  IInv'
<1>1. UNCHANGED <<session, inStatus, noted, credit, fullToken, inRows, quoteRow, made, inJob,
            inTodo, polled, socketed, timedOut, inCounter, inDerived, inNet, answered,
            mintBlocked, inFaults>>
    BY DEF TakenElsewhere, bookVars, drawVars, mintSide, restVars, watchVars
<1>3. /\ ledger[s].paid > ledger[s].issued
      /\ ledger' = [ledger EXCEPT ![s].elsewhere = @ + ledger[s].paid - ledger[s].issued,
                                  ![s].issued = ledger[s].paid]
    BY DEF TakenElsewhere
<1>2. Types'
    <2>1. RecordTypes'
        BY <1>1 DEF IInv, Types, RecordTypes
    <2>2. BookTypes'
        BY <1>1 DEF IInv, Types, BookTypes
    <2>3. TaskTypes'
        BY <1>1 DEF IInv, Types, TaskTypes
    <2>4. WatchTypes'
        BY <1>1 DEF IInv, Types, WatchTypes
    <2>5. MintTypes'
        <3>1. ledger[s] \in LedgerRecord /\ ledger \in [Source -> LedgerRecord]
            BY DEF IInv, Types, MintTypes
        <3>2. [ledger[s] EXCEPT !.elsewhere = @ + ledger[s].paid - ledger[s].issued,
                                !.issued = ledger[s].paid] \in LedgerRecord
            BY <1>3, <3>1 DEF LedgerRecord
        <3>3. ledger' \in [Source -> LedgerRecord]
            BY <1>3, <3>1, <3>2
        <3> QED
            BY <1>1, <3>3 DEF IInv, Types, MintTypes
    <2>6. RestTypes'
        BY <1>1 DEF IInv, Types, RestTypes
    <2> QED
        BY <2>1, <2>2, <2>3, <2>4, <2>5, <2>6 DEF Types
<1> QED
    BY <1>1, <1>2, <1>3, NothingMoves

\* Time passes an expiry or a watch window.
LEMMA TimeOutKeeps ==
    ASSUME NEW x \in InTx \cup Source, IInv, TimeOut(x)
    PROVE  IInv'
<1>1. UNCHANGED <<session, inStatus, noted, credit, fullToken, inRows, quoteRow, made, inJob,
            inTodo, polled, socketed, inCounter, inDerived, ledger, inNet, answered,
            mintBlocked, inFaults>>
    BY DEF TimeOut, bookVars, drawVars, mintSide, restVars, watchVars
<1>3. timedOut' = timedOut \cup {x}
    BY DEF TimeOut
<1>2. Types'
    <2>1. RecordTypes'
        BY <1>1 DEF IInv, Types, RecordTypes
    <2>2. BookTypes'
        BY <1>1 DEF IInv, Types, BookTypes
    <2>3. TaskTypes'
        BY <1>1 DEF IInv, Types, TaskTypes
    <2>4. WatchTypes'
        BY <1>1, <1>3 DEF IInv, Types, WatchTypes
    <2>5. MintTypes'
        BY <1>1 DEF IInv, Types, MintTypes
    <2>6. RestTypes'
        BY <1>1 DEF IInv, Types, RestTypes
    <2> QED
        BY <2>1, <2>2, <2>3, <2>4, <2>5, <2>6 DEF Types
<1> QED
    BY <1>1, <1>2, <1>3, NothingMoves

\* The button of an offline receive.
LEMMA AskCompleteKeeps ==
    ASSUME NEW t \in InTx, IInv, AskComplete(t)
    PROVE  IInv'
<1>1. UNCHANGED <<session, inStatus, noted, credit, fullToken, inRows, quoteRow, made, inJob,
            polled, socketed, timedOut, inCounter, inDerived, ledger, inNet, answered,
            mintBlocked, inFaults>>
    BY DEF AskComplete, bookVars, drawVars, mintSide, restVars, watchVars
<1>3. inTodo' \subseteq inTodo \cup {[kind |-> "complete", of |-> t]}
    BY DEF AskComplete, Want
<1>4. TaskFits([kind |-> "complete", of |-> t])
    <2>1. inStatus[t] = "PREPARED_OFFLINE"
        BY DEF AskComplete
    <2> QED
        BY <2>1 DEF IInv, BooksFit, Suits, TaskFits, Starting
<1>2. Types'
    <2>1. RecordTypes'
        BY <1>1 DEF IInv, Types, RecordTypes
    <2>2. BookTypes'
        BY <1>1 DEF IInv, Types, BookTypes
    <2>3. TaskTypes'
        <3>1. [kind |-> "complete", of |-> t]
                  \in [kind : Starting \cup {"complete", "payload", "refresh", "check"}, of : InTx \cup Source]
            OBVIOUS
        <3> QED
            BY <1>1, <1>3, <3>1 DEF IInv, Types, TaskTypes
    <2>4. WatchTypes'
        BY <1>1 DEF IInv, Types, WatchTypes
    <2>5. MintTypes'
        BY <1>1 DEF IInv, Types, MintTypes
    <2>6. RestTypes'
        BY <1>1 DEF IInv, Types, RestTypes
    <2> QED
        BY <2>1, <2>2, <2>3, <2>4, <2>5, <2>6 DEF Types
<1>9. [kind |-> "complete", of |-> t].kind # "deposit"
    OBVIOUS
<1> QED
    BY <1>1, <1>2, <1>3, <1>4, <1>9, TaskWaits

\* A payload comes in.
LEMMA DeliveredKeeps ==
    ASSUME NEW t \in InTx, IInv, Delivered(t)
    PROVE  IInv'
<1>1. UNCHANGED <<session, inStatus, noted, credit, fullToken, inRows, quoteRow, made, inJob,
            polled, socketed, timedOut, inCounter, inDerived, ledger, inNet, answered,
            mintBlocked, inFaults>>
    BY DEF Delivered, bookVars, drawVars, mintSide, restVars, watchVars
<1>3. inTodo' \subseteq inTodo \cup {[kind |-> "payload", of |-> t]}
    BY DEF Delivered, Want
<1>4. TaskFits([kind |-> "payload", of |-> t])
    <2>1. inStatus[t] # "none" /\ InKind[t] = "request"
        BY DEF Delivered
    <2> QED
        BY <2>1 DEF TaskFits, Starting
<1>2. Types'
    <2>1. RecordTypes'
        BY <1>1 DEF IInv, Types, RecordTypes
    <2>2. BookTypes'
        BY <1>1 DEF IInv, Types, BookTypes
    <2>3. TaskTypes'
        <3>1. [kind |-> "payload", of |-> t]
                  \in [kind : Starting \cup {"complete", "payload", "refresh", "check"}, of : InTx \cup Source]
            OBVIOUS
        <3> QED
            BY <1>1, <1>3, <3>1 DEF IInv, Types, TaskTypes
    <2>4. WatchTypes'
        BY <1>1 DEF IInv, Types, WatchTypes
    <2>5. MintTypes'
        BY <1>1 DEF IInv, Types, MintTypes
    <2>6. RestTypes'
        BY <1>1 DEF IInv, Types, RestTypes
    <2> QED
        BY <2>1, <2>2, <2>3, <2>4, <2>5, <2>6 DEF Types
<1>9. [kind |-> "payload", of |-> t].kind # "deposit"
    OBVIOUS
<1> QED
    BY <1>1, <1>2, <1>3, <1>4, <1>9, TaskWaits

\* The sweep of the pending topups.
LEMMA SweepPendingKeeps ==
    ASSUME NEW t \in InTx, IInv, SweepPending(t)
    PROVE  IInv'
<1>1. UNCHANGED <<session, inStatus, noted, credit, fullToken, inRows, quoteRow, made, inJob,
            polled, socketed, timedOut, inCounter, inDerived, ledger, inNet, answered,
            mintBlocked, inFaults>>
    BY DEF SweepPending, bookVars, drawVars, mintSide, restVars, watchVars
<1>3. inTodo' \subseteq inTodo \cup {[kind |-> "refresh", of |-> t]}
    BY DEF SweepPending, Want
<1>4. TaskFits([kind |-> "refresh", of |-> t])
    <2>1. InKind[t] = "topup"
        BY DEF SweepPending
    <2> QED
        BY <2>1 DEF TaskFits, Starting
<1>2. Types'
    <2>1. RecordTypes'
        BY <1>1 DEF IInv, Types, RecordTypes
    <2>2. BookTypes'
        BY <1>1 DEF IInv, Types, BookTypes
    <2>3. TaskTypes'
        <3>1. [kind |-> "refresh", of |-> t]
                  \in [kind : Starting \cup {"complete", "payload", "refresh", "check"}, of : InTx \cup Source]
            OBVIOUS
        <3> QED
            BY <1>1, <1>3, <3>1 DEF IInv, Types, TaskTypes
    <2>4. WatchTypes'
        BY <1>1 DEF IInv, Types, WatchTypes
    <2>5. MintTypes'
        BY <1>1 DEF IInv, Types, MintTypes
    <2>6. RestTypes'
        BY <1>1 DEF IInv, Types, RestTypes
    <2> QED
        BY <2>1, <2>2, <2>3, <2>4, <2>5, <2>6 DEF Types
<1>9. [kind |-> "refresh", of |-> t].kind # "deposit"
    OBVIOUS
<1> QED
    BY <1>1, <1>2, <1>3, <1>4, <1>9, TaskWaits

\* The web socket of a topup.
LEMMA SocketPaidKeeps ==
    ASSUME NEW t \in InTx, IInv, SocketPaid(t)
    PROVE  IInv'
<1>1. UNCHANGED <<session, inStatus, noted, credit, fullToken, inRows, quoteRow, made, inJob,
            polled, timedOut, inCounter, inDerived, ledger, inNet, answered, mintBlocked,
            inFaults>>
    BY DEF SocketPaid, bookVars, drawVars, mintSide, restVars, watchVars
<1>3. inTodo' \subseteq inTodo \cup {[kind |-> "refresh", of |-> t]}
    BY DEF SocketPaid, Want
<1>4. TaskFits([kind |-> "refresh", of |-> t])
    <2>1. t \in socketed
        BY DEF SocketPaid
    <2>2. InKind[t] = "topup"
        BY <2>1 DEF IInv, BooksFit
    <2> QED
        BY <2>2 DEF TaskFits, Starting
<1>5. socketed' \subseteq socketed
    BY DEF SocketPaid
<1>2. Types'
    <2>1. RecordTypes'
        BY <1>1 DEF IInv, Types, RecordTypes
    <2>2. BookTypes'
        BY <1>1 DEF IInv, Types, BookTypes
    <2>3. TaskTypes'
        <3>1. [kind |-> "refresh", of |-> t]
                  \in [kind : Starting \cup {"complete", "payload", "refresh", "check"}, of : InTx \cup Source]
            OBVIOUS
        <3> QED
            BY <1>1, <1>3, <3>1 DEF IInv, Types, TaskTypes
    <2>4. WatchTypes'
        BY <1>1, <1>3, <1>4, <1>5 DEF IInv, Types, WatchTypes
    <2>5. MintTypes'
        BY <1>1 DEF IInv, Types, MintTypes
    <2>6. RestTypes'
        BY <1>1 DEF IInv, Types, RestTypes
    <2> QED
        BY <2>1, <2>2, <2>3, <2>4, <2>5, <2>6 DEF Types
<1>9. [kind |-> "refresh", of |-> t].kind # "deposit"
    OBVIOUS
<1> QED
    BY <1>1, <1>2, <1>3, <1>4, <1>5, <1>9, TaskWaits

\* The sweep of the onchain quotes.
LEMMA SweepQuotesKeeps ==
    ASSUME NEW s \in Source, IInv, SweepQuotes(s)
    PROVE  IInv'
<1>1. UNCHANGED <<session, inStatus, noted, credit, fullToken, inRows, quoteRow, made, inJob,
            polled, socketed, timedOut, inCounter, inDerived, ledger, inNet, answered,
            mintBlocked, inFaults>>
    BY DEF SweepQuotes, bookVars, drawVars, mintSide, restVars, watchVars
<1>3. inTodo' \subseteq inTodo \cup {[kind |-> "check", of |-> s]}
    BY DEF SweepQuotes, Want
<1>4. TaskFits([kind |-> "check", of |-> s])
    <2>1. quoteRow[s] # NoQuoteRow
        BY DEF SweepQuotes, Watched
    <2> QED
        BY <2>1 DEF IInv, BooksFit, TaskFits, Starting
<1>2. Types'
    <2>1. RecordTypes'
        BY <1>1 DEF IInv, Types, RecordTypes
    <2>2. BookTypes'
        BY <1>1 DEF IInv, Types, BookTypes
    <2>3. TaskTypes'
        <3>1. [kind |-> "check", of |-> s]
                  \in [kind : Starting \cup {"complete", "payload", "refresh", "check"}, of : InTx \cup Source]
            OBVIOUS
        <3> QED
            BY <1>1, <1>3, <3>1 DEF IInv, Types, TaskTypes
    <2>4. WatchTypes'
        BY <1>1 DEF IInv, Types, WatchTypes
    <2>5. MintTypes'
        BY <1>1 DEF IInv, Types, MintTypes
    <2>6. RestTypes'
        BY <1>1 DEF IInv, Types, RestTypes
    <2> QED
        BY <2>1, <2>2, <2>3, <2>4, <2>5, <2>6 DEF Types
<1>9. [kind |-> "check", of |-> s].kind # "deposit"
    OBVIOUS
<1> QED
    BY <1>1, <1>2, <1>3, <1>4, <1>9, TaskWaits

\* A check of an onchain quote.
LEMMA AskCheckKeeps ==
    ASSUME NEW s \in Source, IInv, AskCheck(s)
    PROVE  IInv'
<1>1. UNCHANGED <<session, inStatus, noted, credit, fullToken, inRows, quoteRow, made, inJob,
            polled, socketed, inCounter, inDerived, ledger, inNet, answered, mintBlocked,
            inFaults>>
    BY DEF AskCheck, bookVars, drawVars, mintSide, restVars, watchVars
<1>3. inTodo' \subseteq inTodo \cup {[kind |-> "check", of |-> s]}
    BY DEF AskCheck, Want
<1>4. TaskFits([kind |-> "check", of |-> s])
    <2>1. quoteRow[s] # NoQuoteRow
        BY DEF AskCheck
    <2> QED
        BY <2>1 DEF IInv, BooksFit, TaskFits, Starting
<1>5. timedOut' \subseteq timedOut
    BY DEF AskCheck
<1>2. Types'
    <2>1. RecordTypes'
        BY <1>1 DEF IInv, Types, RecordTypes
    <2>2. BookTypes'
        BY <1>1 DEF IInv, Types, BookTypes
    <2>3. TaskTypes'
        <3>1. [kind |-> "check", of |-> s]
                  \in [kind : Starting \cup {"complete", "payload", "refresh", "check"}, of : InTx \cup Source]
            OBVIOUS
        <3> QED
            BY <1>1, <1>3, <3>1 DEF IInv, Types, TaskTypes
    <2>4. WatchTypes'
        BY <1>1, <1>3, <1>4, <1>5 DEF IInv, Types, WatchTypes
    <2>5. MintTypes'
        BY <1>1 DEF IInv, Types, MintTypes
    <2>6. RestTypes'
        BY <1>1 DEF IInv, Types, RestTypes
    <2> QED
        BY <2>1, <2>2, <2>3, <2>4, <2>5, <2>6 DEF Types
<1>9. [kind |-> "check", of |-> s].kind # "deposit"
    OBVIOUS
<1> QED
    BY <1>1, <1>2, <1>3, <1>4, <1>5, <1>9, TaskWaits

-----------------------------------------------------------------------------
(* What a lane does.                                                       *)

\* A lane is given another record.
LEMMA LaneSet ==
    ASSUME IInv, NEW l \in Lanes, NEW k \in JobRecord, inJob' = [inJob EXCEPT ![l] = k]
    PROVE  /\ inJob' \in [Lanes -> JobRecord] /\ inJob'[l] = k
           /\ \A m \in Lanes \ {l} : inJob'[m] = inJob[m]
BY DEF IInv, Types, TaskTypes

LEMMA LanesTyped ==
    ASSUME IInv
    PROVE  \A l \in Lanes : inJob[l] \in JobRecord
BY DEF IInv, Types, TaskTypes

LEMMA NoJobFits == NoJob \in JobRecord /\ QueueFits(NoJob) /\ QueueFits(NoJob)' /\ ScreenFits(NoJob)'
BY DEF NoJob, Job, JobRecord, QueueFits, ScreenFits, HasTx

LEMMA TypesMove ==
    ASSUME IInv, UNCHANGED <<made, timedOut, ledger, inNet, answered, session, mintBlocked>>,
           inStatus' \in [InTx -> Statuses], credit' \in [InTx -> Nat], inRows' \in [InTx -> Nat],
           quoteRow' \in [Source -> [paid : Int, issued : Nat]],
           inJob' \in [Lanes -> JobRecord], inTodo' \subseteq inTodo,
           noted' \subseteq InTx, fullToken' \subseteq InTx,
           polled' \subseteq InTx, socketed' \subseteq InTx,
           inCounter' \in Nat, inDerived' \in Nat, inFaults' \in Nat
    PROVE  Types'
<1>1. RecordTypes' /\ BookTypes'
    BY DEF IInv, Types, RecordTypes, BookTypes
<1>2. TaskTypes' /\ WatchTypes'
    BY DEF IInv, Types, TaskTypes, WatchTypes
<1>3. MintTypes'
    BY DEF IInv, Types, MintTypes
<1>4. RestTypes'
    BY DEF IInv, Types, RestTypes
<1> QED
    BY <1>1, <1>2, <1>3, <1>4 DEF Types

LEMMA StatusTyped ==
    ASSUME IInv, NEW t \in InTx, NEW st \in Statuses, inStatus' = [inStatus EXCEPT ![t] = st]
    PROVE  /\ inStatus' \in [InTx -> Statuses] /\ inStatus'[t] = st
           /\ \A u \in InTx \ {t} : inStatus'[u] = inStatus[u]
BY DEF IInv, Types, RecordTypes

LEMMA AllTyped ==
    ASSUME IInv
    PROVE  /\ inStatus \in [InTx -> Statuses] /\ credit \in [InTx -> Nat]
           /\ inRows \in [InTx -> Nat]
           /\ quoteRow \in [Source -> [paid : Int, issued : Nat]]
           /\ made \in [Source -> Seq(InTx)]
           /\ noted \subseteq InTx /\ fullToken \subseteq InTx /\ polled \subseteq InTx
           /\ socketed \subseteq InTx /\ timedOut \subseteq InTx \cup Source
           /\ inJob \in [Lanes -> JobRecord]
           /\ inCounter \in Nat /\ inDerived \in Nat /\ inFaults \in Nat
           /\ ledger \in [Source -> LedgerRecord]
           /\ inNet \subseteq [tx : InTx, src : Source, n : Nat, index : Nat]
BY DEF IInv, Types, RecordTypes, BookTypes, TaskTypes, WatchTypes, RestTypes, MintTypes

LEMMA QueueMoves ==
    ASSUME IInv, QueueFits(inJob["queue"])', inJob'["screen"] = inJob["screen"],
           \A u \in InTx : InKind[u] = "recover" =>
               (inStatus'[u] = "none" <=> inStatus[u] = "none")
    PROVE  JobsFit'
<1>1. inJob["screen"].kind = "recover" =>
          inJob["screen"].tx \in InTx /\ InKind[inJob["screen"].tx] = "recover"
    BY DEF IInv, JobsFit, ScreenFits
<1>2. ScreenFits(inJob["screen"])'
    BY <1>1, ScreenStays DEF IInv, JobsFit
<1> QED
    BY <1>2 DEF JobsFit

LEMMA ScreenMoves ==
    ASSUME IInv, ScreenFits(inJob["screen"])', inJob'["queue"] = inJob["queue"], made' = made,
           HasTx(inJob["queue"]) =>
               \/ inStatus'[inJob["queue"].tx] = inStatus[inJob["queue"].tx]
               \/ /\ inJob["queue"].kind \in {"retry", "check"}
                  /\ inStatus'[inJob["queue"].tx] # "none"
    PROVE  JobsFit'
<1>1. QueueFits(inJob["queue"])'
    BY QueueStays DEF IInv, JobsFit
<1> QED
    BY <1>1 DEF JobsFit

\* The queue goes on: its job becomes k, and transaction t is marked, if at all, with st.
LEMMA QueueMarks ==
    ASSUME IInv, UNCHANGED <<credit, inRows, quoteRow, made, noted, polled, socketed, timedOut,
                             inCounter, inDerived, ledger, inNet, answered, session,
                             mintBlocked>>,
           fullToken' \subseteq InTx, inFaults' \in Nat, inTodo' \subseteq inTodo,
           NEW k \in JobRecord, inJob' = [inJob EXCEPT !["queue"] = k], QueueFits(k)',
           k.kind = "deposit" =>
               inJob["queue"].kind = "deposit" /\ k.src = inJob["queue"].src,
           NEW t \in InTx, NEW st \in Statuses \ {"none"},
           inStatus' = [inStatus EXCEPT ![t] = st],
           InKind[t] = "recover" => inStatus[t] # "none",
           inStatus[t] # "none" \/ NotAsked(t)',
           Suits(t, st),
           ~(credit[t] > 0) \/ Reported(t)'
    PROVE  IInv'
<1>1. /\ inJob' \in [Lanes -> JobRecord] /\ inJob'["queue"] = k
      /\ inJob'["screen"] = inJob["screen"]
    BY LaneSet DEF Lanes
<1>2. /\ inStatus' \in [InTx -> Statuses] /\ inStatus'[t] = st
      /\ \A u \in InTx \ {t} : inStatus'[u] = inStatus[u]
    BY StatusTyped
<1>3. Types'
    BY <1>1, <1>2, AllTyped, TypesMove
<1>4. JobsFit'
    BY <1>1, <1>2, QueueMoves
<1>5. inJob'["queue"].kind = "deposit" =>
          inJob["queue"].kind = "deposit" /\ inJob'["queue"].src = inJob["queue"].src
    BY <1>1
<1>6. \A u \in InTx : inRows'[u] > 0 => inRows[u] > 0 \/ inStatus'[u] # "none"
    OBVIOUS
<1> QED
    BY <1>3, <1>4, <1>5, <1>6, StatusMoves

LEMMA QueueGoesOn ==
    ASSUME IInv, UNCHANGED <<inStatus, credit, inRows, quoteRow, made, noted, polled, socketed,
                             timedOut, inCounter, inDerived, ledger, inNet, answered, session,
                             mintBlocked>>,
           fullToken' \subseteq InTx, inFaults' \in Nat, inTodo' \subseteq inTodo,
           NEW k \in JobRecord, inJob' = [inJob EXCEPT !["queue"] = k], QueueFits(k)',
           k.kind = "deposit" =>
               inJob["queue"].kind = "deposit" /\ k.src = inJob["queue"].src
    PROVE  IInv'
<1>1. /\ inJob' \in [Lanes -> JobRecord] /\ inJob'["queue"] = k
      /\ inJob'["screen"] = inJob["screen"]
    BY LaneSet DEF Lanes
<1>3. Types'
    BY <1>1, AllTyped, TypesMove
<1>4. JobsFit'
    BY <1>1, QueueMoves
<1>5. inJob'["queue"].kind = "deposit" =>
          inJob["queue"].kind = "deposit" /\ inJob'["queue"].src = inJob["queue"].src
    BY <1>1
<1>6. \A u \in InTx : inRows'[u] > 0 => inRows[u] > 0 \/ inStatus'[u] # "none"
    OBVIOUS
<1> QED
    BY <1>3, <1>4, <1>5, <1>6, LaneMoves

\* A task of the list is taken up by an idle queue.
LEMMA Takes ==
    ASSUME IInv, NEW k, Take(k)
    PROVE  /\ k \in inTodo /\ TaskFits(k) /\ inJob["queue"] = NoJob
           /\ inTodo' = inTodo \ {k}
BY DEF Take, Idle, IInv, TasksFit

LEMMA TakenIsNotAsked ==
    ASSUME IInv, NEW t \in InTx, NEW kind \in Starting, [kind |-> kind, of |-> t] \in inTodo,
           inTodo' = inTodo \ {[kind |-> kind, of |-> t]}
    PROVE  /\ NotAsked(t)' /\ InKind[t] = kind /\ inStatus[t] = "none" /\ ~(credit[t] > 0)
<1>1. TaskFits([kind |-> kind, of |-> t])
    BY DEF IInv, TasksFit
<1>2. InKind[t] = kind /\ inStatus[t] = "none"
    BY <1>1 DEF TaskFits
<1>3. ASSUME NEW k \in inTodo', k.kind \in Starting, k.of = t PROVE FALSE
    <2>1. TaskFits(k) /\ k \in inTodo
        BY <1>3 DEF IInv, TasksFit
    <2>2. k.kind = kind
        BY <1>2, <1>3, <2>1 DEF TaskFits
    <2>3. k = [kind |-> k.kind, of |-> k.of]
        BY <2>1 DEF IInv, Types, TaskTypes
    <2> QED
        BY <1>3, <2>2, <2>3
<1> QED
    BY <1>2, <1>3 DEF NotAsked, IInv, EcashIsReported

-----------------------------------------------------------------------------
(* AskIncoming                                                             *)

\* A new task, and of a deposit's quote it is the first.
LEMMA AskIncomingKeeps ==
    ASSUME NEW t \in InTx, IInv, AskIncoming(t)
    PROVE  IInv'
<1>1. UNCHANGED <<session, inStatus, noted, credit, fullToken, inRows, quoteRow, made, inJob,
                  polled, socketed, timedOut, inCounter, inDerived, ledger, inNet, answered,
                  mintBlocked, inFaults>>
    BY DEF AskIncoming, bookVars, watchVars, drawVars, mintSide, restVars
<1>2. /\ inStatus[t] = "none" /\ InKind[t] \in Starting
      /\ inTodo' = inTodo \cup {[kind |-> InKind[t], of |-> t]}
    BY IncomingAssumptions DEF AskIncoming, Want, Starting
<1>3. [kind |-> InKind[t], of |-> t] \in
          [kind : Starting \cup {"complete", "payload", "refresh", "check"}, of : InTx \cup Source]
    BY <1>2
<1>4. Types'
    <2>1. RecordTypes' /\ BookTypes' /\ WatchTypes'
        BY <1>1 DEF IInv, Types, RecordTypes, BookTypes, WatchTypes
    <2>2. MintTypes' /\ RestTypes'
        BY <1>1 DEF IInv, Types, MintTypes, RestTypes
    <2>3. TaskTypes'
        BY <1>1, <1>2, <1>3 DEF IInv, Types, TaskTypes
    <2> QED
        BY <2>1, <2>2, <2>3 DEF Types
<1>5. TaskFits([kind |-> InKind[t], of |-> t])
    BY <1>2 DEF TaskFits, Starting
<1>6. CASE InKind[t] # "deposit"
    <2>1. [kind |-> InKind[t], of |-> t].kind # "deposit"
        BY <1>6
    <2> QED
        BY <1>1, <1>2, <1>4, <1>5, <2>1, TaskWaits
<1>7. CASE InKind[t] = "deposit"
    <2>1. \A u \in InTx : Origin[u] = Origin[t] =>
              inStatus[u] = "none" /\ [kind |-> "deposit", of |-> u] \notin inTodo
        BY <1>7 DEF AskIncoming
    <2>2. made[Origin[t]] = <<>>
        <3>1. Origin[t] \in Source /\ made[Origin[t]] \in Seq(InTx)
            BY IncomingAssumptions, AllTyped
        <3>2. SUFFICES ASSUME made[Origin[t]] # <<>> PROVE FALSE
            OBVIOUS
        <3>3. 1 \in DOMAIN made[Origin[t]] /\ made[Origin[t]][1] \in InTx
            BY <3>1, <3>2
        <3>4. /\ Origin[made[Origin[t]][1]] = Origin[t]
              /\ inStatus[made[Origin[t]][1]] # "none"
            BY <3>1, <3>3 DEF IInv, BooksFit
        <3> QED
            BY <2>1, <3>3, <3>4
    <2>3. ~(inJob["queue"].kind = "deposit" /\ inJob["queue"].src = Origin[t])
        BY <2>1 DEF IInv, JobsFit, QueueFits, HasTx
    <2>4. DepositsFirst'
        <3> SUFFICES ASSUME NEW u \in InTx, [kind |-> "deposit", of |-> u] \in inTodo'
                     PROVE  /\ made[Origin[u]] = <<>>
                            /\ ~(inJob["queue"].kind = "deposit" /\ inJob["queue"].src = Origin[u])
                            /\ \A v \in InTx :
                                   [kind |-> "deposit", of |-> v] \in inTodo' /\ Origin[v] = Origin[u] => v = u
            BY <1>1 DEF DepositsFirst
        <3>1. \A v : [kind |-> "deposit", of |-> v] \in inTodo' <=>
                         [kind |-> "deposit", of |-> v] \in inTodo \/ v = t
            BY <1>2, <1>7
        <3>2. CASE u = t
            BY <2>1, <2>2, <2>3, <3>1, <3>2
        <3>3. CASE u # t
            BY <2>1, <3>1, <3>3 DEF IInv, DepositsFirst
        <3> QED
            BY <3>2, <3>3
    <2>5. TasksFit'
        BY <1>1, <1>2, <1>5 DEF IInv, TasksFit, TaskFits
    <2>6. BooksFit'
        BY <1>1, BooksStay, AllTyped DEF IInv
    <2>7. JobsFit'
        BY <1>1, QueueStays, ScreenStays DEF IInv, JobsFit
    <2>8. EcashIsReported'
        BY <1>1, ReportedStays DEF IInv
    <2> QED
        BY <1>4, <2>4, <2>5, <2>6, <2>7, <2>8 DEF IInv
<1> QED
    BY <1>6, <1>7

-----------------------------------------------------------------------------
(* The queue takes up a task.                                              *)

\* A token to redeem, unless its mint is blocked.
LEMMA StartReceiveKeeps ==
    ASSUME NEW t \in InTx, IInv, StartReceive(t)
    PROVE  IInv'
<1>1. UNCHANGED <<session, noted, credit, fullToken, inRows, quoteRow, made, polled, socketed,
                  timedOut, inCounter, inDerived, ledger, inNet, answered, mintBlocked,
                  inFaults>>
    BY DEF StartReceive, bookVars, watchVars, drawVars, mintSide, restVars
<1>2. /\ [kind |-> "receive", of |-> t] \in inTodo /\ inJob["queue"] = NoJob
      /\ inTodo' = inTodo \ {[kind |-> "receive", of |-> t]}
    BY Takes DEF StartReceive
<1>3. NotAsked(t)' /\ InKind[t] = "receive" /\ inStatus[t] = "none" /\ ~(credit[t] > 0)
    BY <1>2, TakenIsNotAsked DEF Starting
<1>4. CASE mintBlocked
    <2>1. inStatus' = [inStatus EXCEPT ![t] = "BLOCKED"]
        BY <1>4 DEF StartReceive, Mark
    <2>2. inJob' = [inJob EXCEPT !["queue"] = NoJob]
        BY <1>2, <1>4, AllTyped DEF StartReceive, Lanes
    <2>3. "BLOCKED" \in Statuses \ {"none"} /\ Suits(t, "BLOCKED") /\ NoJob.kind # "deposit"
        BY DEF Statuses, Suits, NoJob, Job
    <2> QED
        BY <1>1, <1>2, <1>3, <2>1, <2>2, <2>3, NoJobFits, QueueMarks, AllTyped
<1>5. CASE ~mintBlocked
    <2> DEFINE k == Job("receive", t, Origin[t], "open")
    <2>1. inStatus' = [inStatus EXCEPT ![t] = "PREPARED"] /\ inJob' = [inJob EXCEPT !["queue"] = k]
        BY <1>5 DEF StartReceive, Mark, Enter
    <2>2. "PREPARED" \in Statuses \ {"none"} /\ Suits(t, "PREPARED")
        BY DEF Statuses, Suits
    <2>3. inStatus'[t] = "PREPARED"
        BY <2>1, AllTyped
    <2>4. k \in JobRecord /\ k.kind # "deposit" /\ QueueFits(k)'
        BY <1>3, <2>3, IncomingAssumptions DEF Job, JobRecord, QueueFits, HasTx
    <2> HIDE DEF k
    <2> QED
        BY <1>1, <1>2, <1>3, <2>1, <2>2, <2>4, QueueMarks, AllTyped
<1> QED
    BY <1>4, <1>5

\* A token that is only put away.
LEMMA StartOfflineKeeps ==
    ASSUME NEW t \in InTx, IInv, StartOffline(t)
    PROVE  IInv'
<1>1. UNCHANGED <<session, noted, credit, inRows, quoteRow, made, polled, socketed, timedOut,
                  inCounter, inDerived, ledger, inNet, answered, mintBlocked, inFaults>>
    BY DEF StartOffline, watchVars, drawVars, mintSide, restVars
<1>2. /\ [kind |-> "offline", of |-> t] \in inTodo /\ inJob["queue"] = NoJob
      /\ inTodo' = inTodo \ {[kind |-> "offline", of |-> t]}
    BY Takes DEF StartOffline
<1>3. NotAsked(t)' /\ InKind[t] = "offline" /\ inStatus[t] = "none" /\ ~(credit[t] > 0)
    BY <1>2, TakenIsNotAsked DEF Starting
<1>4. PICK st \in {"PREPARED_OFFLINE", "DRAFT", "BLOCKED"} : inStatus' = [inStatus EXCEPT ![t] = st]
    BY DEF StartOffline, Mark
<1>5. inJob' = [inJob EXCEPT !["queue"] = NoJob] /\ fullToken' \subseteq InTx
    BY <1>2, AllTyped DEF StartOffline, Lanes
<1>6. NoJob.kind # "deposit"
    BY DEF NoJob, Job
<1>7. st \in Statuses \ {"none"} /\ Suits(t, st)
    BY <1>3 DEF Statuses, Suits
<1> QED
    BY <1>1, <1>2, <1>3, <1>4, <1>5, <1>6, <1>7, NoJobFits, QueueMarks, AllTyped

\* A request that is handed out.
LEMMA StartRequestKeeps ==
    ASSUME NEW t \in InTx, IInv, StartRequest(t)
    PROVE  IInv'
<1>1. UNCHANGED <<session, noted, credit, fullToken, inRows, quoteRow, made, polled, socketed,
                  timedOut, inCounter, inDerived, ledger, inNet, answered, mintBlocked,
                  inFaults>>
    BY DEF StartRequest, bookVars, watchVars, drawVars, mintSide, restVars
<1>2. /\ [kind |-> "request", of |-> t] \in inTodo /\ inJob["queue"] = NoJob
      /\ inTodo' = inTodo \ {[kind |-> "request", of |-> t]}
    BY Takes DEF StartRequest
<1>3. NotAsked(t)' /\ InKind[t] = "request" /\ inStatus[t] = "none" /\ ~(credit[t] > 0)
    BY <1>2, TakenIsNotAsked DEF Starting
<1>4. /\ inStatus' = [inStatus EXCEPT ![t] = "PENDING"]
      /\ inJob' = [inJob EXCEPT !["queue"] = NoJob]
    BY <1>2, AllTyped DEF StartRequest, Mark, Lanes
<1>6. NoJob.kind # "deposit"
    BY DEF NoJob, Job
<1>7. "PENDING" \in Statuses \ {"none"} /\ Suits(t, "PENDING")
    BY DEF Statuses, Suits
<1> QED
    BY <1>1, <1>2, <1>3, <1>4, <1>6, <1>7, NoJobFits, QueueMarks, AllTyped

\* A token that was put away is redeemed, if it is there in full and still waits.
LEMMA StartCompleteKeeps ==
    ASSUME NEW t \in InTx, IInv, StartComplete(t)
    PROVE  IInv'
<1>1. UNCHANGED <<session, noted, credit, fullToken, inRows, quoteRow, made, polled, socketed,
                  timedOut, inCounter, inDerived, ledger, inNet, answered, mintBlocked,
                  inFaults>>
    BY DEF StartComplete, bookVars, watchVars, drawVars, mintSide, restVars
<1>2. /\ TaskFits([kind |-> "complete", of |-> t]) /\ inJob["queue"] = NoJob
      /\ inTodo' = inTodo \ {[kind |-> "complete", of |-> t]}
    BY Takes DEF StartComplete
<1>3. InKind[t] = "offline" /\ inStatus[t] # "none"
    BY <1>2 DEF TaskFits
<1>4. NoJob.kind # "deposit"
    BY DEF NoJob, Job
<1>5. credit[t] > 0 => inStatus[t] \in {"COMPLETED", "RECOVERED", "ERROR"}
    BY DEF IInv, EcashIsReported
<1>6. inJob' = inJob => inJob' = [inJob EXCEPT !["queue"] = NoJob]
    BY <1>2, AllTyped DEF Lanes
<1>7. \/ StampError(t) /\ inJob' = inJob
      \/ inStatus[t] = "PREPARED_OFFLINE" /\ Mark(t, "BLOCKED") /\ inJob' = inJob
      \/ /\ inStatus[t] = "PREPARED_OFFLINE" /\ inStatus' = inStatus
         /\ inJob' = [inJob EXCEPT !["queue"] = Job("complete", t, Origin[t], "open")]
    BY DEF StartComplete, Enter
<1>8. CASE StampError(t) /\ inJob' = inJob
    <2>1. inStatus' = [inStatus EXCEPT ![t] = IF inStatus[t] \in {"ERROR", "BLOCKED"}
                                              THEN inStatus[t] ELSE "ERROR"]
        BY <1>8 DEF StampError
    <2>2. PICK st \in {"ERROR", "BLOCKED"} : inStatus' = [inStatus EXCEPT ![t] = st] /\ (st = "BLOCKED" => inStatus[t] = st)
        BY <2>1
    <2>3. st \in Statuses \ {"none"} /\ inStatus'[t] = st /\ Suits(t, st)
        BY <2>2, AllTyped DEF Statuses, Suits
    <2>4. ~(credit[t] > 0) \/ Reported(t)'
        BY <1>3, <1>5, <2>2, <2>3 DEF Reported
    <2> QED
        BY <1>1, <1>2, <1>3, <1>4, <1>6, <1>8, <2>2, <2>3, <2>4, NoJobFits, QueueMarks, AllTyped
<1>9. CASE inStatus[t] = "PREPARED_OFFLINE" /\ Mark(t, "BLOCKED") /\ inJob' = inJob
    <2>1. inStatus' = [inStatus EXCEPT ![t] = "BLOCKED"] /\ ~(credit[t] > 0)
        BY <1>5, <1>9 DEF Mark
    <2>2. "BLOCKED" \in Statuses \ {"none"} /\ Suits(t, "BLOCKED")
        BY DEF Statuses, Suits
    <2> QED
        BY <1>1, <1>2, <1>3, <1>4, <1>6, <1>9, <2>1, <2>2, NoJobFits, QueueMarks, AllTyped
<1>10. CASE /\ inStatus[t] = "PREPARED_OFFLINE" /\ inStatus' = inStatus
            /\ inJob' = [inJob EXCEPT !["queue"] = Job("complete", t, Origin[t], "open")]
    <2> DEFINE k == Job("complete", t, Origin[t], "open")
    <2>1. k \in JobRecord /\ k.kind # "deposit" /\ QueueFits(k)'
        BY <1>3, <1>10, IncomingAssumptions DEF Job, JobRecord, QueueFits, HasTx
    <2> HIDE DEF k
    <2> QED
        BY <1>1, <1>2, <1>10, <2>1, QueueGoesOn, AllTyped DEF k
<1> QED
    BY <1>7, <1>8, <1>9, <1>10

\* The payload of a request, the first or another.
LEMMA StartPayloadKeeps ==
    ASSUME NEW t \in InTx, IInv, StartPayload(t)
    PROVE  IInv'
<1>1. UNCHANGED <<session, noted, credit, fullToken, inRows, quoteRow, made, polled, socketed,
                  timedOut, inCounter, inDerived, ledger, inNet, answered, mintBlocked,
                  inFaults>>
    BY DEF StartPayload, bookVars, watchVars, drawVars, mintSide, restVars
<1>2. /\ TaskFits([kind |-> "payload", of |-> t]) /\ inJob["queue"] = NoJob
      /\ inTodo' = inTodo \ {[kind |-> "payload", of |-> t]}
    BY Takes DEF StartPayload
<1>3. InKind[t] = "request" /\ inStatus[t] # "none"
    BY <1>2 DEF TaskFits
<1>4. NoJob.kind # "deposit"
    BY DEF NoJob, Job
<1>6. inJob' = inJob => inJob' = [inJob EXCEPT !["queue"] = NoJob]
    BY <1>2, AllTyped DEF Lanes
<1> DEFINE k == [Job("payload", t, Origin[t], "call") EXCEPT !.n = MaxPaid[Origin[t]]]
<1>7. \/ inStatus[t] # "COMPLETED" /\ StampError(t) /\ inJob' = inJob
      \/ inStatus[t] = "PENDING" /\ Mark(t, "BLOCKED") /\ inJob' = inJob
      \/ inStatus' = inStatus /\ inJob' = inJob
      \/ /\ inStatus[t] = "PENDING" /\ inStatus' = inStatus
         /\ inJob' = [inJob EXCEPT !["queue"] = k]
    BY DEF StartPayload, Enter
<1>8. CASE inStatus[t] # "COMPLETED" /\ StampError(t) /\ inJob' = inJob
    <2>1. inStatus' = [inStatus EXCEPT ![t] = IF inStatus[t] \in {"ERROR", "BLOCKED"}
                                              THEN inStatus[t] ELSE "ERROR"]
        BY <1>8 DEF StampError
    <2>2. PICK st \in {"ERROR", "BLOCKED"} : inStatus' = [inStatus EXCEPT ![t] = st]
        BY <2>1
    <2>3. st \in Statuses \ {"none"} /\ Suits(t, st)
        BY <2>2 DEF Statuses, Suits
    <2>4. ~(credit[t] > 0)
        BY <1>3, <1>8 DEF IInv, EcashIsReported, BooksFit, Suits
    <2> QED
        BY <1>1, <1>2, <1>3, <1>4, <1>6, <1>8, <2>2, <2>3, <2>4, NoJobFits, QueueMarks, AllTyped
<1>9. CASE inStatus[t] = "PENDING" /\ Mark(t, "BLOCKED") /\ inJob' = inJob
    <2>1. inStatus' = [inStatus EXCEPT ![t] = "BLOCKED"] /\ ~(credit[t] > 0)
        BY <1>9 DEF Mark, IInv, EcashIsReported
    <2>2. "BLOCKED" \in Statuses \ {"none"} /\ Suits(t, "BLOCKED")
        BY DEF Statuses, Suits
    <2> QED
        BY <1>1, <1>2, <1>3, <1>4, <1>6, <1>9, <2>1, <2>2, NoJobFits, QueueMarks, AllTyped
<1>10. CASE inStatus' = inStatus /\ inJob' = inJob
    BY <1>1, <1>2, <1>10, NoJobFits, <1>4, <1>6, QueueGoesOn, AllTyped
<1>11. CASE /\ inStatus[t] = "PENDING" /\ inStatus' = inStatus
            /\ inJob' = [inJob EXCEPT !["queue"] = k]
    <2>1. k \in JobRecord /\ k.kind # "deposit" /\ QueueFits(k)'
        BY <1>3, <1>11, IncomingAssumptions DEF Job, JobRecord, QueueFits, HasTx
    <2> HIDE DEF k
    <2> QED
        BY <1>1, <1>2, <1>11, <2>1, QueueGoesOn, AllTyped
<1> QED
    BY <1>7, <1>8, <1>9, <1>10, <1>11

-----------------------------------------------------------------------------
(* A lane goes on with its task.                                           *)

\* The places a task goes to next, with the same transaction.
Onward(kind) ==
    {<<"open", "call">>, <<"ask", "told">>, <<"call", "wait">>, <<"wait", "call">>,
     <<"wait", "commit">>} \cup (IF kind = "refresh" THEN {<<"told", "call">>} ELSE {})

LEMMA SameTask ==
    ASSUME IInv, NEW l \in Lanes, UNCHANGED <<inStatus, made>>,
           inJob'[l].kind = inJob[l].kind, inJob'[l].tx = inJob[l].tx,
           inJob'[l].src = inJob[l].src,
           <<inJob[l].pc, inJob'[l].pc>> \in Onward(inJob[l].kind),
           \A m \in Lanes \ {l} : inJob'[m] = inJob[m]
    PROVE  JobsFit'
<1>1. /\ QueueFits(inJob["queue"]) /\ ScreenFits(inJob["screen"])
      /\ inJob["queue"] \in JobRecord /\ inJob["screen"] \in JobRecord
    BY LanesTyped DEF IInv, JobsFit, Lanes
<1>2. CASE l = "queue"
    <2>1. QueueFits(inJob["queue"])'
        <3>1. HasTx(inJob["queue"])' => HasTx(inJob["queue"])
            BY <1>1, <1>2 DEF HasTx, Onward, QueueFits
        <3> QED
            BY <1>1, <1>2, <3>1 DEF QueueFits, Onward
    <2>2. inJob'["screen"] = inJob["screen"]
        BY <1>2 DEF Lanes
    <2> QED
        BY <2>1, <2>2, QueueMoves
<1>3. CASE l = "screen"
    <2>1. ScreenFits(inJob["screen"])'
        BY <1>1, <1>3 DEF ScreenFits, Onward
    <2>2. inJob'["queue"] = inJob["queue"]
        BY <1>3 DEF Lanes
    <2> QED
        BY <2>1, <2>2, ScreenMoves
<1> QED
    BY <1>2, <1>3 DEF Lanes

\* A lane is through with its task.
LEMMA LaneLeft ==
    ASSUME IInv, NEW l \in Lanes, UNCHANGED <<inStatus, made>>, inJob' = [inJob EXCEPT ![l] = NoJob]
    PROVE  JobsFit' /\ inJob' \in [Lanes -> JobRecord] /\ inJob'["queue"].kind \in {inJob["queue"].kind, "idle"}
                    /\ (inJob'["queue"].kind = inJob["queue"].kind => inJob'["queue"].src = inJob["queue"].src
                            \/ inJob["queue"].kind = "idle")
<1>1. /\ inJob' \in [Lanes -> JobRecord] /\ inJob'[l] = NoJob
      /\ \A m \in Lanes \ {l} : inJob'[m] = inJob[m]
    BY LaneSet, NoJobFits
<1>2. CASE l = "queue"
    <2>1. QueueFits(inJob["queue"])' /\ inJob'["screen"] = inJob["screen"]
        BY <1>1, <1>2, NoJobFits DEF Lanes
    <2>2. JobsFit'
        BY <2>1, QueueMoves
    <2> QED
        BY <1>1, <1>2, <2>2 DEF NoJob, Job
<1>3. CASE l = "screen"
    <2>1. ScreenFits(inJob["screen"])' /\ inJob'["queue"] = inJob["queue"]
        BY <1>1, <1>3, NoJobFits DEF Lanes
    <2>2. JobsFit'
        BY <2>1, ScreenMoves
    <2> QED
        BY <1>1, <2>1, <2>2
<1> QED
    BY <1>2, <1>3 DEF Lanes

\* The mint's answer to a question.
LEMMA MintTellsKeeps ==
    ASSUME NEW l \in Lanes, IInv, MintTells(l)
    PROVE  IInv'
<1>1. UNCHANGED <<session, inStatus, noted, credit, fullToken, inRows, quoteRow, made, inTodo,
                  polled, socketed, timedOut, inCounter, inDerived, ledger, inNet, answered,
                  mintBlocked, inFaults>>
    BY DEF MintTells, bookVars, watchVars, drawVars, mintSide, restVars
<1> DEFINE j == inJob[l]
           k == [j EXCEPT !.pc = "told", !.told = [paid |-> ledger[j.src].paid,
                                                   issued |-> ledger[j.src].issued]]
<1>2. j \in JobRecord /\ j.pc = "ask" /\ inJob' = [inJob EXCEPT ![l] = k]
    BY LanesTyped DEF MintTells, At, Enter
<1>3. j.src \in Source
    <2>1. l = "queue" => j.src \in Source
        BY <1>2, IncomingAssumptions DEF IInv, JobsFit, QueueFits, HasTx
    <2>2. l = "screen" => j.src \in Source
        BY <1>2, IncomingAssumptions DEF IInv, JobsFit, ScreenFits
    <2> QED
        BY <2>1, <2>2 DEF Lanes
<1>4. ledger[j.src].paid \in Nat /\ ledger[j.src].issued \in Nat
    BY <1>3, AllTyped DEF LedgerRecord
<1>5. k \in JobRecord /\ k.kind = j.kind /\ k.tx = j.tx /\ k.src = j.src /\ k.pc = "told"
    BY <1>2, <1>4 DEF JobRecord
<1>6. /\ inJob' \in [Lanes -> JobRecord] /\ inJob'[l] = k
      /\ \A m \in Lanes \ {l} : inJob'[m] = inJob[m]
    BY <1>2, <1>5, LaneSet
<1>7. JobsFit'
    BY <1>1, <1>2, <1>5, <1>6, SameTask DEF Onward
<1>8. Types'
    BY <1>1, <1>6, AllTyped, TypesMove
<1>9. inJob'["queue"].kind = inJob["queue"].kind /\ inJob'["queue"].src = inJob["queue"].src
    BY <1>5, <1>6 DEF Lanes
<1> QED
    BY <1>1, <1>7, <1>8, <1>9, LaneMoves

\* No answer to it.
LEMMA MintSilentKeeps ==
    ASSUME NEW l \in Lanes, IInv, MintSilent(l)
    PROVE  IInv'
<1>1. UNCHANGED <<session, inStatus, noted, credit, fullToken, inRows, quoteRow, made, inTodo,
                  polled, socketed, timedOut, inCounter, inDerived, ledger, inNet, answered,
                  mintBlocked>>
    BY DEF MintSilent, bookVars, watchVars, drawVars, mintSide, restVars
<1>2. inJob' = [inJob EXCEPT ![l] = NoJob] /\ inFaults' = inFaults + 1
    BY DEF MintSilent, Leave, Enter
<1>3. JobsFit' /\ inJob' \in [Lanes -> JobRecord]
    BY <1>1, <1>2, LaneLeft
<1>4. Types'
    BY <1>1, <1>2, <1>3, AllTyped, TypesMove
<1>5. inJob'["queue"].kind = "deposit" =>
          inJob["queue"].kind = "deposit" /\ inJob'["queue"].src = inJob["queue"].src
    BY <1>1, <1>2, LaneLeft
<1> QED
    BY <1>1, <1>3, <1>4, <1>5, LaneMoves

\* The whole request goes out.
LEMMA CallForOutputsKeeps ==
    ASSUME NEW l \in Lanes, IInv, CallForOutputs(l)
    PROVE  IInv'
<1> DEFINE j == inJob[l]
           base == IF j.healed THEN inCounter + InHealStep ELSE inCounter
           start == Max({inDerived, base})
           k == [j EXCEPT !.pc = "wait", !.index = start, !.answer = "none"]
<1>1. UNCHANGED <<session, inStatus, noted, credit, fullToken, quoteRow, made, inTodo, polled,
                  socketed, timedOut, ledger, answered, mintBlocked, inFaults>>
    BY DEF CallForOutputs, watchVars, restVars
<1>2. /\ j \in JobRecord /\ j.pc = "call" /\ inJob' = [inJob EXCEPT ![l] = k]
      /\ inCounter' = base /\ inDerived' = start + 1 /\ inNet' = inNet \cup {InWire(k)}
      /\ inRows' = IF j.kind = "retry" THEN inRows ELSE [inRows EXCEPT ![j.tx] = j.n]
    BY LanesTyped DEF CallForOutputs, At, Enter
<1>3. base \in Nat /\ start \in Nat
    <2>1. base \in Nat
        BY AllTyped, IncomingAssumptions
    <2>2. inDerived \in Nat
        BY AllTyped
    <2> HIDE DEF base
    <2>3. \E x \in {inDerived, base} : \A y \in {inDerived, base} : x >= y
        BY <2>1, <2>2
    <2> QED
        BY <2>1, <2>2, <2>3 DEF Max
<1>4. j.tx \in InTx /\ Origin[j.tx] = j.src /\ inStatus[j.tx] # "none"
    <2>1. l = "queue" => j.tx \in InTx /\ Origin[j.tx] = j.src /\ inStatus[j.tx] # "none"
        BY <1>2 DEF IInv, JobsFit, QueueFits, HasTx
    <2>2. l = "screen" => j.tx \in InTx /\ Origin[j.tx] = j.src /\ inStatus[j.tx] # "none"
        BY <1>2 DEF IInv, JobsFit, ScreenFits
    <2> QED
        BY <2>1, <2>2 DEF Lanes
<1>5. /\ k \in JobRecord /\ k.kind = j.kind /\ k.tx = j.tx /\ k.src = j.src /\ k.pc = "wait"
      /\ k.n = j.n /\ k.index = start
    BY <1>2, <1>3 DEF JobRecord
<1>6. /\ inJob' \in [Lanes -> JobRecord] /\ inJob'[l] = k
      /\ \A m \in Lanes \ {l} : inJob'[m] = inJob[m]
    BY <1>2, <1>5, LaneSet
<1>7. JobsFit'
    BY <1>1, <1>2, <1>5, <1>6, SameTask DEF Onward
<1>8. Types'
    <2>1. inRows' \in [InTx -> Nat]
        BY <1>2, <1>4, AllTyped DEF JobRecord
    <2>2. InWire(k) \in [tx : InTx, src : Source, n : Nat, index : Nat]
        <3>1. k.tx \in InTx /\ k.src \in Source /\ k.n \in Nat /\ k.index \in Nat
            BY <1>2, <1>3, <1>4, <1>5, IncomingAssumptions DEF JobRecord
        <3> HIDE DEF k
        <3> QED
            BY <3>1 DEF InWire
    <2>3. MintTypes'
        BY <1>1, <1>2, <2>2 DEF IInv, Types, MintTypes
    <2>4. RecordTypes' /\ BookTypes' /\ WatchTypes'
        BY <1>1, <2>1 DEF IInv, Types, RecordTypes, BookTypes, WatchTypes
    <2>5. TaskTypes'
        BY <1>1, <1>6 DEF IInv, Types, TaskTypes
    <2>6. RestTypes'
        BY <1>1, <1>2, <1>3 DEF IInv, Types, RestTypes
    <2> QED
        BY <2>3, <2>4, <2>5, <2>6 DEF Types
<1>9. inJob'["queue"].kind = inJob["queue"].kind /\ inJob'["queue"].src = inJob["queue"].src
    BY <1>5, <1>6 DEF Lanes
<1>10. \A t \in InTx : inRows'[t] > 0 => inRows[t] > 0 \/ inStatus'[t] # "none"
    BY <1>1, <1>2, <1>4, AllTyped
<1> QED
    BY <1>1, <1>7, <1>8, <1>9, <1>10, LaneMoves

\* The answer is there.
LEMMA AnswerArrivesKeeps ==
    ASSUME NEW l \in Lanes, IInv, AnswerArrives(l)
    PROVE  IInv'
<1> DEFINE j == inJob[l]
           k == [j EXCEPT !.pc = "commit"]
<1>1. UNCHANGED <<session, inStatus, noted, credit, fullToken, quoteRow, made, inTodo, polled,
                  socketed, timedOut, inDerived, ledger, inNet, answered, mintBlocked,
                  inFaults>>
    BY DEF AnswerArrives, watchVars, mintSide, restVars
<1>2. /\ j \in JobRecord /\ j.pc = "wait" /\ inJob' = [inJob EXCEPT ![l] = k]
      /\ inRows' = [inRows EXCEPT ![j.tx] = 0] /\ inCounter' = j.index + 1
    BY LanesTyped DEF AnswerArrives, At, Enter
<1>5. /\ k \in JobRecord /\ k.kind = j.kind /\ k.tx = j.tx /\ k.src = j.src /\ k.pc = "commit"
    BY <1>2 DEF JobRecord
<1>6. /\ inJob' \in [Lanes -> JobRecord] /\ inJob'[l] = k
      /\ \A m \in Lanes \ {l} : inJob'[m] = inJob[m]
    BY <1>2, <1>5, LaneSet
<1>7. JobsFit'
    BY <1>1, <1>2, <1>5, <1>6, SameTask DEF Onward
<1>8. Types'
    <2>1. j.index \in Nat
        BY <1>2 DEF JobRecord
    <2>2. inCounter' \in Nat
        BY <1>2, <2>1
    <2>3. inRows' \in [InTx -> Nat]
        BY <1>2, AllTyped
    <2> QED
        BY <1>1, <1>6, <2>2, <2>3, AllTyped, TypesMove
<1>9. inJob'["queue"].kind = inJob["queue"].kind /\ inJob'["queue"].src = inJob["queue"].src
    BY <1>5, <1>6 DEF Lanes
<1>10. \A t \in InTx : inRows'[t] > 0 => inRows[t] > 0 \/ inStatus'[t] # "none"
    BY <1>2, AllTyped
<1> QED
    BY <1>1, <1>7, <1>8, <1>9, <1>10, LaneMoves

\* A task that fails stamps its transaction, or leaves it to the sweep.
LEMMA GivenUp ==
    ASSUME IInv, NEW l \in Lanes, GiveUp(l), inJob[l].pc = "wait",
           UNCHANGED <<credit, quoteRow, made, noted, fullToken, inTodo, polled, socketed,
                       timedOut, ledger, inNet, answered, session, mintBlocked, inCounter,
                       inDerived>>,
           inFaults' \in Nat, inRows' \in [InTx -> Nat],
           \A t \in InTx : inRows'[t] > 0 => inRows[t] > 0
    PROVE  IInv'
<1>1. inJob' = [inJob EXCEPT ![l] = NoJob]
    BY DEF GiveUp, Leave, Enter
<1>2. CASE inJob[l].kind \in Stamping
    <2> DEFINE t == inJob[l].tx
    <2>1. l = "queue"
        BY <1>2 DEF IInv, JobsFit, ScreenFits, Stamping, Lanes
    <2>2. /\ t \in InTx /\ inStatus[t] \in {"PREPARED", "PREPARED_OFFLINE", "PENDING"}
          /\ InKind[t] # "recover"
        BY <1>2, <2>1 DEF IInv, JobsFit, QueueFits, HasTx, Stamping
    <2>3. inStatus' = [inStatus EXCEPT ![t] = "ERROR"]
        BY <1>2, <2>2 DEF GiveUp, StampError
    <2>4. "ERROR" \in Statuses \ {"none"} /\ Suits(t, "ERROR")
        BY DEF Statuses, Suits
    <2>5. ~(credit[t] > 0)
        BY <2>2 DEF IInv, EcashIsReported
    <2>6. /\ inJob' \in [Lanes -> JobRecord] /\ inJob'["queue"] = NoJob
          /\ inJob'["screen"] = inJob["screen"]
        BY <1>1, <2>1, NoJobFits, LaneSet DEF Lanes
    <2>7. /\ inStatus' \in [InTx -> Statuses]
          /\ \A u \in InTx \ {t} : inStatus'[u] = inStatus[u]
        BY <2>2, <2>3, <2>4, StatusTyped
    <2> HIDE DEF t
    <2>8. Types'
        BY <2>6, <2>7, AllTyped, TypesMove
    <2>9. JobsFit'
        BY <2>2, <2>6, <2>7, NoJobFits, QueueMoves
    <2>10. inJob'["queue"].kind # "deposit"
        BY <2>6 DEF NoJob, Job
    <2>11. \A u \in InTx : inRows'[u] > 0 => inRows[u] > 0 \/ inStatus'[u] # "none"
        OBVIOUS
    <2> QED
        BY <2>2, <2>3, <2>4, <2>5, <2>8, <2>9, <2>10, <2>11, StatusMoves
<1>3. CASE inJob[l].kind \notin Stamping
    <2>1. inStatus' = inStatus
        BY <1>3 DEF GiveUp
    <2>2. JobsFit' /\ inJob' \in [Lanes -> JobRecord]
        BY <1>1, <2>1, LaneLeft
    <2>3. Types'
        BY <2>1, <2>2, AllTyped, TypesMove
    <2>4. inJob'["queue"].kind = "deposit" =>
              inJob["queue"].kind = "deposit" /\ inJob'["queue"].src = inJob["queue"].src
        BY <1>1, <2>1, LaneLeft
    <2> QED
        BY <2>1, <2>2, <2>3, <2>4, LaneMoves
<1> QED
    BY <1>2, <1>3

\* No answer, or none in time.
LEMMA AnswerLostKeeps ==
    ASSUME NEW l \in Lanes, IInv, AnswerLost(l)
    PROVE  IInv'
<1>1. UNCHANGED <<credit, inRows, quoteRow, made, noted, fullToken, inTodo, polled, socketed,
                  timedOut, ledger, inNet, answered, session, mintBlocked, inCounter,
                  inDerived>>
    BY DEF AnswerLost, bookVars, watchVars, drawVars, mintSide
<1>2. inJob[l].pc = "wait" /\ GiveUp(l) /\ inFaults' = inFaults + 1
    BY DEF AnswerLost, At
<1>3. inFaults' \in Nat /\ inRows' \in [InTx -> Nat]
    BY <1>1, <1>2, AllTyped
<1> QED
    BY <1>1, <1>2, <1>3, GivenUp

\* The mint says no: once more with other outputs, or not at all.
LEMMA MintRefusesKeeps ==
    ASSUME NEW l \in Lanes, IInv, MintRefuses(l)
    PROVE  IInv'
<1> DEFINE j == inJob[l]
           k == [j EXCEPT !.pc = "call", !.healed = TRUE]
<1>1. UNCHANGED <<session, credit, noted, fullToken, quoteRow, made, inTodo, polled, socketed,
                  timedOut, inCounter, inDerived, ledger, inNet, answered, mintBlocked,
                  inFaults>>
    BY DEF MintRefuses, watchVars, drawVars, mintSide, restVars
<1>2. j \in JobRecord /\ j.pc = "wait" /\ inRows' = [inRows EXCEPT ![j.tx] = 0]
    BY LanesTyped DEF MintRefuses, At
<1>3. /\ inRows' \in [InTx -> Nat]
      /\ \A t \in InTx : inRows'[t] > 0 => inRows[t] > 0
    <2>1. inRows' \in [InTx -> Nat]
        BY <1>2, AllTyped
    <2>2. \A t \in InTx : inRows'[t] > 0 => inRows[t] > 0
        BY <1>2, AllTyped
    <2> QED
        BY <2>1, <2>2
<1>4. \/ GiveUp(l)
      \/ inJob' = [inJob EXCEPT ![l] = k] /\ inStatus' = inStatus
    <2>1. CASE j.answer = "signed" /\ ~j.healed /\ j.kind # "retry"
        BY <2>1 DEF MintRefuses, Enter
    <2>2. CASE ~(j.answer = "signed" /\ ~j.healed /\ j.kind # "retry")
        BY <2>2, Zenon DEF MintRefuses
    <2> QED
        BY <2>1, <2>2
<1>5. CASE GiveUp(l)
    BY <1>1, <1>2, <1>3, <1>5, AllTyped, GivenUp
<1>6. CASE inJob' = [inJob EXCEPT ![l] = k] /\ inStatus' = inStatus
    <2>1. k \in JobRecord /\ k.kind = j.kind /\ k.tx = j.tx /\ k.src = j.src /\ k.pc = "call"
        BY <1>2 DEF JobRecord
    <2>2. /\ inJob' \in [Lanes -> JobRecord] /\ inJob'[l] = k
          /\ \A m \in Lanes \ {l} : inJob'[m] = inJob[m]
        BY <1>6, <2>1, LaneSet
    <2>3. JobsFit'
        BY <1>1, <1>2, <1>6, <2>1, <2>2, SameTask DEF Onward
    <2>4. Types'
        BY <1>1, <1>3, <1>6, <2>2, AllTyped, TypesMove
    <2>5. inJob'["queue"].kind = inJob["queue"].kind /\ inJob'["queue"].src = inJob["queue"].src
        BY <2>1, <2>2 DEF Lanes
    <2> QED
        BY <1>1, <1>3, <1>6, <2>3, <2>4, <2>5, LaneMoves
<1> QED
    BY <1>4, <1>5, <1>6

\* A token is opened, or cannot be.
LEMMA OpenTokenKeeps ==
    ASSUME IInv, OpenToken
    PROVE  IInv'
<1> DEFINE j == inJob["queue"]
           k == [j EXCEPT !.pc = "call", !.n = MaxPaid[j.src]]
<1>1. UNCHANGED <<session, noted, credit, fullToken, inRows, quoteRow, made, inTodo, polled,
                  socketed, timedOut, inCounter, inDerived, ledger, inNet, answered,
                  mintBlocked, inFaults>>
    BY DEF OpenToken, bookVars, watchVars, drawVars, mintSide, restVars
<1>2. j \in JobRecord /\ j.pc = "open"
    BY LanesTyped DEF OpenToken, At, Lanes
<1>3. /\ j.tx \in InTx /\ InKind[j.tx] # "recover" /\ Origin[j.tx] = j.src
      /\ inStatus[j.tx] \in {"PREPARED", "PREPARED_OFFLINE"}
    BY <1>2 DEF IInv, JobsFit, QueueFits, HasTx
<1>4. \/ inJob' = [inJob EXCEPT !["queue"] = k] /\ inStatus' = inStatus
      \/ inJob' = [inJob EXCEPT !["queue"] = NoJob] /\ StampError(j.tx)
    BY DEF OpenToken, Enter, Leave
<1>5. CASE inJob' = [inJob EXCEPT !["queue"] = k] /\ inStatus' = inStatus
    <2>1. MaxPaid[j.src] \in Nat
        BY <1>3, IncomingAssumptions
    <2>2. k \in JobRecord /\ k.kind = j.kind /\ k.tx = j.tx /\ k.src = j.src /\ k.pc = "call"
        BY <1>2, <2>1 DEF JobRecord
    <2>3. /\ inJob' \in [Lanes -> JobRecord] /\ inJob'["queue"] = k
          /\ \A m \in Lanes \ {"queue"} : inJob'[m] = inJob[m]
        BY <1>5, <2>2, LaneSet DEF Lanes
    <2>4. JobsFit'
        <3>1. "queue" \in Lanes
            BY DEF Lanes
        <3> HIDE DEF k
        <3> QED
            BY <1>1, <1>2, <1>5, <2>2, <2>3, <3>1, SameTask DEF Onward
    <2>5. Types'
        BY <1>1, <1>5, <2>3, AllTyped, TypesMove
    <2>6. inJob'["queue"].kind = inJob["queue"].kind /\ inJob'["queue"].src = inJob["queue"].src
        BY <2>2, <2>3
    <2> QED
        BY <1>1, <1>5, <2>4, <2>5, <2>6, LaneMoves
<1>6. CASE inJob' = [inJob EXCEPT !["queue"] = NoJob] /\ StampError(j.tx)
    <2>1. inStatus' = [inStatus EXCEPT ![j.tx] = "ERROR"]
        BY <1>3, <1>6 DEF StampError
    <2>2. "ERROR" \in Statuses \ {"none"} /\ Suits(j.tx, "ERROR") /\ NoJob.kind # "deposit"
        BY DEF Statuses, Suits, NoJob, Job
    <2>3. ~(credit[j.tx] > 0) /\ inStatus[j.tx] # "none"
        BY <1>3 DEF IInv, EcashIsReported
    <2> HIDE DEF j
    <2> QED
        BY <1>1, <1>3, <1>6, <2>1, <2>2, <2>3, NoJobFits, QueueMarks, AllTyped
<1> QED
    BY <1>4, <1>5, <1>6

\* The refresh of a topup.
LEMMA StartRefreshKeeps ==
    ASSUME NEW t \in InTx, IInv, StartRefresh(t)
    PROVE  IInv'
<1>1. UNCHANGED <<session, inStatus, noted, credit, fullToken, inRows, quoteRow, made, polled,
                  socketed, timedOut, inCounter, inDerived, ledger, inNet, answered,
                  mintBlocked, inFaults>>
    BY DEF StartRefresh, bookVars, watchVars, drawVars, mintSide, restVars
<1>2. /\ TaskFits([kind |-> "refresh", of |-> t]) /\ inJob["queue"] = NoJob
      /\ inTodo' = inTodo \ {[kind |-> "refresh", of |-> t]}
    BY Takes DEF StartRefresh
<1>3. InKind[t] = "topup"
    BY <1>2 DEF TaskFits
<1> DEFINE k == Job("refresh", t, Origin[t], "ask")
<1>4. CASE inStatus[t] = "PENDING"
    <2>1. inJob' = [inJob EXCEPT !["queue"] = k]
        BY <1>4 DEF StartRefresh, Enter
    <2>2. k \in JobRecord /\ k.kind # "deposit" /\ QueueFits(k)'
        BY <1>1, <1>3, <1>4, IncomingAssumptions DEF Job, JobRecord, QueueFits, HasTx
    <2> HIDE DEF k
    <2> QED
        BY <1>1, <1>2, <2>1, <2>2, QueueGoesOn, AllTyped
<1>5. CASE inStatus[t] # "PENDING"
    <2>1. inJob' = [inJob EXCEPT !["queue"] = NoJob]
        BY <1>2, <1>5, AllTyped DEF StartRefresh, Lanes
    <2>2. NoJob.kind # "deposit"
        BY DEF NoJob, Job
    <2> QED
        BY <1>1, <1>2, <2>1, <2>2, NoJobFits, QueueGoesOn, AllTyped
<1> QED
    BY <1>4, <1>5

\* The check of an onchain quote.
LEMMA StartCheckKeeps ==
    ASSUME NEW s \in Source, IInv, StartCheck(s)
    PROVE  IInv'
<1>1. UNCHANGED <<session, inStatus, noted, credit, fullToken, inRows, quoteRow, made, polled,
                  socketed, timedOut, inCounter, inDerived, ledger, inNet, answered,
                  mintBlocked, inFaults>>
    BY DEF StartCheck, bookVars, watchVars, drawVars, mintSide, restVars
<1>2. /\ TaskFits([kind |-> "check", of |-> s]) /\ inTodo' = inTodo \ {[kind |-> "check", of |-> s]}
    BY Takes DEF StartCheck
<1>3. made'[s] # <<>>
    BY <1>1, <1>2 DEF TaskFits
<1> DEFINE k == Job("check", "none", s, "ask")
<1>4. inJob' = [inJob EXCEPT !["queue"] = k]
    BY DEF StartCheck, Enter
<1>5. k \in JobRecord /\ k.kind # "deposit" /\ QueueFits(k)'
    BY <1>3 DEF Job, JobRecord, QueueFits, HasTx
<1> HIDE DEF k
<1> QED
    BY <1>1, <1>2, <1>4, <1>5, QueueGoesOn, AllTyped

\* The sweep of the requests under way drops a row.
LEMMA SweepInDropKeeps ==
    ASSUME NEW t \in InTx, IInv, SweepInDrop(t)
    PROVE  IInv'
<1>1. UNCHANGED <<session, inStatus, noted, credit, fullToken, quoteRow, made, inJob, inTodo,
                  polled, socketed, timedOut, inCounter, inDerived, ledger, inNet, answered,
                  mintBlocked, inFaults>>
    BY DEF SweepInDrop, watchVars, drawVars, mintSide, restVars
<1>2. inRows' = [inRows EXCEPT ![t] = 0]
    BY DEF SweepInDrop
<1>3. inRows' \in [InTx -> Nat] /\ \A u \in InTx : inRows'[u] > 0 => inRows[u] > 0
    BY <1>2, AllTyped
<1>4. Types'
    BY <1>1, <1>3, AllTyped, TypesMove
<1>5. JobsFit'
    BY <1>1, QueueStays, ScreenStays DEF IInv, JobsFit
<1> QED
    BY <1>1, <1>3, <1>4, <1>5, LaneMoves

\* It asks the mint once more.
LEMMA SweepInRetryKeeps ==
    ASSUME NEW t \in InTx, IInv, SweepInRetry(t)
    PROVE  IInv'
<1>1. UNCHANGED <<session, inStatus, noted, credit, fullToken, inRows, quoteRow, made, inTodo,
                  polled, socketed, timedOut, inCounter, inDerived, ledger, inNet, answered,
                  mintBlocked, inFaults>>
    BY DEF SweepInRetry, bookVars, watchVars, drawVars, mintSide, restVars
<1>2. inStatus[t] # "none" /\ inRows[t] \in Nat
    BY AllTyped DEF SweepInRetry, IInv, BooksFit
<1> DEFINE r == inRows[t]
           k == [Job("retry", t, Origin[t], "call") EXCEPT !.n = r]
<1>4. inJob' = [inJob EXCEPT !["queue"] = k]
    BY DEF SweepInRetry, Enter
<1>5. k \in JobRecord /\ k.kind = "retry" /\ k.tx = t /\ k.src = Origin[t] /\ k.pc = "call"
    BY <1>2, IncomingAssumptions DEF Job, JobRecord
<1> HIDE DEF k
<1>6. /\ inJob' \in [Lanes -> JobRecord] /\ inJob'["queue"] = k
      /\ inJob'["screen"] = inJob["screen"]
    BY <1>4, <1>5, LaneSet DEF Lanes
<1>7. QueueFits(inJob["queue"])'
    BY <1>1, <1>2, <1>5, <1>6 DEF QueueFits, HasTx
<1>8. JobsFit'
    BY <1>1, <1>6, <1>7, QueueMoves
<1>9. Types'
    BY <1>1, <1>6, AllTyped, TypesMove
<1> QED
    BY <1>1, <1>5, <1>6, <1>8, <1>9, LaneMoves

\* The recovery screen.
LEMMA StartRecoverKeeps ==
    ASSUME NEW t \in InTx, IInv, StartRecover(t)
    PROVE  IInv'
<1>1. UNCHANGED <<session, inStatus, noted, credit, fullToken, inRows, quoteRow, made, inTodo,
                  polled, socketed, timedOut, inCounter, inDerived, ledger, inNet, answered,
                  mintBlocked, inFaults>>
    BY DEF StartRecover, bookVars, watchVars, drawVars, mintSide, restVars
<1> DEFINE k == Job("recover", t, Origin[t], "ask")
<1>2. /\ inJob' = [inJob EXCEPT !["screen"] = k]
      /\ inStatus[t] = "none" /\ InKind[t] = "recover"
    BY DEF StartRecover, Enter
<1>3. k \in JobRecord /\ ScreenFits(k)'
    BY <1>1, <1>2, IncomingAssumptions DEF Job, JobRecord, ScreenFits
<1> HIDE DEF k
<1>4. /\ inJob' \in [Lanes -> JobRecord] /\ inJob'["screen"] = k
      /\ inJob'["queue"] = inJob["queue"]
    BY <1>2, <1>3, LaneSet DEF Lanes
<1>5. JobsFit'
    BY <1>1, <1>3, <1>4, ScreenMoves
<1>6. Types'
    BY <1>1, <1>4, AllTyped, TypesMove
<1> QED
    BY <1>1, <1>4, <1>5, <1>6, LaneMoves

\* No quote for a topup.
LEMMA QuoteRefusedKeeps ==
    ASSUME IInv, QuoteRefused
    PROVE  IInv'
<1> DEFINE j == inJob["queue"]
<1>1. UNCHANGED <<session, noted, credit, fullToken, inRows, quoteRow, made, inTodo, polled,
                  socketed, timedOut, inCounter, inDerived, ledger, inNet, answered,
                  mintBlocked, inFaults>>
    BY DEF QuoteRefused, bookVars, watchVars, drawVars, mintSide, restVars
<1>2. inJob' = [inJob EXCEPT !["queue"] = NoJob] /\ j.kind \in {"topup", "deposit"}
    BY DEF QuoteRefused, Leave, Enter, At, IInv, JobsFit, QueueFits
<1>3. j.tx \in InTx /\ InKind[j.tx] # "recover" /\ inStatus[j.tx] = "DRAFT"
    BY <1>2, IncomingAssumptions DEF IInv, JobsFit, QueueFits, HasTx
<1>4. NoJob.kind # "deposit"
    BY DEF NoJob, Job
<1>5. CASE j.kind = "deposit"
    <2>1. inStatus' = [inStatus EXCEPT ![j.tx] = "ERROR"]
        BY <1>5 DEF QuoteRefused, Mark
    <2>2. "ERROR" \in Statuses \ {"none"} /\ Suits(j.tx, "ERROR")
        BY DEF Statuses, Suits
    <2>3. ~(credit[j.tx] > 0) /\ inStatus[j.tx] # "none"
        BY <1>3 DEF IInv, EcashIsReported
    <2> HIDE DEF j
    <2> QED
        BY <1>1, <1>2, <1>3, <1>4, <2>1, <2>2, <2>3, NoJobFits, QueueMarks, AllTyped
<1>6. CASE j.kind # "deposit"
    <2>1. inStatus' = inStatus
        BY <1>6 DEF QuoteRefused
    <2> QED
        BY <1>1, <1>2, <1>4, <2>1, NoJobFits, QueueGoesOn, AllTyped
<1> QED
    BY <1>5, <1>6

\* A topup that is refreshed: expired, completed, left, or minted.
LEMMA RefreshedKeeps ==
    ASSUME IInv, Refreshed
    PROVE  IInv'
<1> DEFINE j == inJob["queue"]
           k == [j EXCEPT !.pc = "call", !.n = MaxPaid[j.src]]
<1>1. UNCHANGED <<session, credit, fullToken, inRows, quoteRow, made, inTodo, socketed,
                  timedOut, inCounter, inDerived, ledger, inNet, answered, mintBlocked,
                  inFaults>>
    BY DEF Refreshed, drawVars, mintSide, restVars
<1>2. j \in JobRecord /\ j.pc = "told" /\ j.kind = "refresh"
    BY LanesTyped DEF Refreshed, At, Lanes
<1>3. /\ j.tx \in InTx /\ Origin[j.tx] = j.src /\ InKind[j.tx] = "topup"
      /\ inStatus[j.tx] = "PENDING" /\ ~(credit[j.tx] > 0)
    BY <1>2 DEF IInv, JobsFit, QueueFits, HasTx, EcashIsReported
<1>4. noted' \subseteq InTx /\ polled' \subseteq InTx
    <2>1. noted' \in {noted, noted \cup {j.tx}} /\ polled' \in {polled, polled \ {j.tx}}
        BY DEF Refreshed, Unwatch
    <2> QED
        BY <1>3, <2>1, AllTyped
<1>5. \/ \E st \in {"EXPIRED", "COMPLETED"} :
             inStatus' = [inStatus EXCEPT ![j.tx] = st] /\ inJob' = [inJob EXCEPT !["queue"] = NoJob]
      \/ inStatus' = inStatus /\ inJob' = [inJob EXCEPT !["queue"] = NoJob]
      \/ inStatus' = inStatus /\ inJob' = [inJob EXCEPT !["queue"] = k]
    BY DEF Refreshed, Mark, Leave, Enter
<1>6. ASSUME inJob' = [inJob EXCEPT !["queue"] = NoJob]
      PROVE  /\ inJob' \in [Lanes -> JobRecord] /\ inJob'["screen"] = inJob["screen"]
             /\ inJob'["queue"] = NoJob /\ inJob'["queue"].kind # "deposit"
             /\ QueueFits(inJob["queue"])'
    <2>1. /\ inJob' \in [Lanes -> JobRecord] /\ inJob'["screen"] = inJob["screen"]
          /\ inJob'["queue"] = NoJob
        BY <1>6, NoJobFits, LaneSet DEF Lanes
    <2>2. NoJob.kind # "deposit"
        BY DEF NoJob, Job
    <2> QED
        BY <2>1, <2>2, NoJobFits
<1>7. ASSUME NEW st \in {"EXPIRED", "COMPLETED"}, inStatus' = [inStatus EXCEPT ![j.tx] = st],
             inJob' = [inJob EXCEPT !["queue"] = NoJob]
      PROVE  IInv'
    <2>1. st \in Statuses \ {"none"} /\ Suits(j.tx, st)
        BY DEF Statuses, Suits
    <2>2. /\ inStatus' \in [InTx -> Statuses] /\ inStatus'[j.tx] = st
          /\ \A u \in InTx \ {j.tx} : inStatus'[u] = inStatus[u]
        BY <1>3, <1>7, <2>1, StatusTyped
    <2>3. Types'
        BY <1>1, <1>4, <1>6, <1>7, <2>2, AllTyped, TypesMove
    <2>4. JobsFit'
        BY <1>3, <1>6, <1>7, <2>2, QueueMoves
    <2>5. \A u \in InTx : inRows'[u] > 0 => inRows[u] > 0 \/ inStatus'[u] # "none"
        BY <1>1
    <2>6. inStatus[j.tx] # "none" /\ credit'[j.tx] = credit[j.tx]
        BY <1>1, <1>3
    <2> HIDE DEF j
    <2> QED
        BY <1>1, <1>3, <1>6, <1>7, <2>1, <2>3, <2>4, <2>5, <2>6, StatusMoves
<1>8. CASE inStatus' = inStatus /\ inJob' = [inJob EXCEPT !["queue"] = NoJob]
    <2>1. Types'
        BY <1>1, <1>4, <1>6, <1>8, AllTyped, TypesMove
    <2>2. JobsFit'
        BY <1>6, <1>8, QueueMoves
    <2> QED
        BY <1>1, <1>6, <1>8, <2>1, <2>2, LaneMoves
<1>9. CASE inStatus' = inStatus /\ inJob' = [inJob EXCEPT !["queue"] = k]
    <2>1. MaxPaid[j.src] \in Nat
        BY <1>3, IncomingAssumptions
    <2>2. k \in JobRecord /\ k.kind = j.kind /\ k.tx = j.tx /\ k.src = j.src /\ k.pc = "call"
        BY <1>2, <2>1 DEF JobRecord
    <2>3. /\ inJob' \in [Lanes -> JobRecord] /\ inJob'["queue"] = k
          /\ \A m \in Lanes \ {"queue"} : inJob'[m] = inJob[m]
        BY <1>9, <2>2, LaneSet DEF Lanes
    <2>4. JobsFit'
        <3>1. "queue" \in Lanes
            BY DEF Lanes
        <3> HIDE DEF k
        <3> QED
            BY <1>1, <1>2, <1>9, <2>2, <2>3, <3>1, SameTask DEF Onward
    <2>5. Types'
        BY <1>1, <1>4, <1>9, <2>3, AllTyped, TypesMove
    <2>6. inJob'["queue"].kind = inJob["queue"].kind /\ inJob'["queue"].src = inJob["queue"].src
        BY <2>2, <2>3
    <2> QED
        BY <1>1, <1>9, <2>4, <2>5, <2>6, LaneMoves
<1> QED
    BY <1>5, <1>7, <1>8, <1>9

\* The recovery screen mints a quote that is paid.
LEMMA RecoveredKeeps ==
    ASSUME IInv, Recovered
    PROVE  IInv'
<1> DEFINE j == inJob["screen"]
           k == [j EXCEPT !.pc = "call", !.n = MaxPaid[j.src]]
<1>1. UNCHANGED <<session, noted, credit, fullToken, inRows, quoteRow, made, inTodo, polled,
                  socketed, timedOut, inCounter, inDerived, ledger, inNet, answered,
                  mintBlocked, inFaults>>
    BY DEF Recovered, bookVars, watchVars, drawVars, mintSide, restVars
<1>2. j \in JobRecord /\ j.pc = "told" /\ j.kind = "recover"
    BY LanesTyped DEF Recovered, At, Lanes, IInv, JobsFit, ScreenFits
<1>3. /\ j.tx \in InTx /\ Origin[j.tx] = j.src /\ InKind[j.tx] = "recover"
      /\ inStatus[j.tx] = "none" /\ ~(credit[j.tx] > 0)
    BY <1>2 DEF IInv, JobsFit, ScreenFits, EcashIsReported
<1>4. \/ /\ inStatus' = [inStatus EXCEPT ![j.tx] = "DRAFT"]
         /\ inJob' = [inJob EXCEPT !["screen"] = k]
      \/ inStatus' = inStatus /\ inJob' = [inJob EXCEPT !["screen"] = NoJob]
    BY DEF Recovered, Mark, Leave, Enter
<1>5. CASE /\ inStatus' = [inStatus EXCEPT ![j.tx] = "DRAFT"]
           /\ inJob' = [inJob EXCEPT !["screen"] = k]
    <2>1. MaxPaid[j.src] \in Nat
        BY <1>3, IncomingAssumptions
    <2>2. k \in JobRecord /\ k.kind = j.kind /\ k.tx = j.tx /\ k.src = j.src /\ k.pc = "call"
        BY <1>2, <2>1 DEF JobRecord
    <2> HIDE DEF k
    <2>3. /\ inJob' \in [Lanes -> JobRecord] /\ inJob'["screen"] = k
          /\ inJob'["queue"] = inJob["queue"]
        BY <1>5, <2>2, LaneSet DEF Lanes
    <2>4. "DRAFT" \in Statuses \ {"none"} /\ Suits(j.tx, "DRAFT")
        BY DEF Statuses, Suits
    <2>5. /\ inStatus' \in [InTx -> Statuses] /\ inStatus'[j.tx] = "DRAFT"
          /\ \A u \in InTx \ {j.tx} : inStatus'[u] = inStatus[u]
        BY <1>3, <1>5, <2>4, StatusTyped
    <2>6. Types'
        BY <1>1, <2>3, <2>5, AllTyped, TypesMove
    <2>7. ScreenFits(inJob["screen"])'
        BY <1>2, <1>3, <2>2, <2>3, <2>5 DEF ScreenFits
    <2>8. HasTx(inJob["queue"]) => inJob["queue"].tx \in InTx \ {j.tx}
        BY <1>3 DEF IInv, JobsFit, QueueFits
    <2>9. JobsFit'
        BY <1>1, <2>3, <2>5, <2>7, <2>8, ScreenMoves
    <2>10. \A x \in InTx : InKind[x] = "recover" => NotAsked(x)'
        BY <1>1 DEF IInv, TasksFit, TaskFits, NotAsked, Starting
    <2>11. \A u \in InTx : inRows'[u] > 0 => inRows[u] > 0 \/ inStatus'[u] # "none"
        BY <1>1
    <2> DEFINE t == j.tx
    <2>12. /\ t \in InTx /\ inStatus' = [inStatus EXCEPT ![t] = "DRAFT"] /\ ~(credit[t] > 0)
           /\ Suits(t, "DRAFT") /\ InKind[t] = "recover" /\ credit'[t] = credit[t]
        BY <1>1, <1>3, <1>5, <2>4
    <2> HIDE DEF t, j
    <2> QED
        BY <1>1, <2>3, <2>4, <2>6, <2>9, <2>10, <2>11, <2>12, StatusMoves
<1>6. CASE inStatus' = inStatus /\ inJob' = [inJob EXCEPT !["screen"] = NoJob]
    <2>1. JobsFit' /\ inJob' \in [Lanes -> JobRecord]
        BY <1>1, <1>6, LaneLeft DEF Lanes
    <2>2. inJob'["queue"] = inJob["queue"]
        BY <1>6, AllTyped DEF Lanes
    <2>3. Types'
        BY <1>1, <1>6, <2>1, AllTyped, TypesMove
    <2> QED
        BY <1>1, <1>6, <2>1, <2>2, <2>3, LaneMoves
<1> QED
    BY <1>4, <1>5, <1>6

\* What is redeemed or minted is stored, and the transaction is marked with it.
LEMMA StoreEcashKeeps ==
    ASSUME NEW l \in Lanes, IInv, StoreEcash(l)
    PROVE  IInv'
<1> DEFINE j == inJob[l]
           k == [j EXCEPT !.pc = "raise"]
           t == j.tx
           st == IF j.kind = "recover" THEN "RECOVERED" ELSE "COMPLETED"
<1>1. UNCHANGED <<session, noted, fullToken, inRows, quoteRow, made, inTodo, socketed, timedOut,
                  inCounter, inDerived, ledger, inNet, answered, mintBlocked, inFaults>>
    BY DEF StoreEcash, drawVars, mintSide, restVars
<1>2. /\ j \in JobRecord /\ j.pc = "commit" /\ credit' = [credit EXCEPT ![t] = @ + j.n]
      /\ inStatus' = [inStatus EXCEPT ![t] = st] /\ polled' = polled \ {t}
      /\ inJob' = [inJob EXCEPT ![l] = IF j.kind = "check" THEN k ELSE NoJob]
    BY LanesTyped DEF StoreEcash, At, Mark, Unwatch, Enter, Leave
<1>3. /\ t \in InTx /\ inStatus[t] # "none"
      /\ j.kind = "recover" <=> l = "screen"
      /\ j.kind = "recover" => InKind[t] = "recover"
    <2>1. CASE l = "queue"
        BY <1>2, <2>1 DEF IInv, JobsFit, QueueFits, HasTx
    <2>2. CASE l = "screen"
        BY <1>2, <2>2 DEF IInv, JobsFit, ScreenFits
    <2> QED
        BY <2>1, <2>2 DEF Lanes
<1>4. st \in Statuses \ {"none"} /\ Suits(t, st)
    BY <1>3 DEF Statuses, Suits
<1>5. /\ inStatus' \in [InTx -> Statuses] /\ inStatus'[t] = st
      /\ \A u \in InTx \ {t} : inStatus'[u] = inStatus[u]
    BY <1>2, <1>3, <1>4, StatusTyped
<1>6. /\ credit' \in [InTx -> Nat] /\ \A u \in InTx \ {t} : credit'[u] = credit[u]
    <2>1. j.n \in Nat
        BY <1>2 DEF JobRecord
    <2> HIDE DEF j, t
    <2> QED
        BY <1>2, <1>3, <2>1, AllTyped
<1>7. k \in JobRecord /\ k.kind = j.kind /\ k.tx = t /\ k.src = j.src /\ k.pc = "raise"
    BY <1>2 DEF JobRecord
<1> DEFINE m == IF j.kind = "check" THEN k ELSE NoJob
<1>8. m \in JobRecord
    BY <1>7, NoJobFits
<1>9. /\ inJob' \in [Lanes -> JobRecord] /\ inJob'[l] = m
      /\ \A n \in Lanes \ {l} : inJob'[n] = inJob[n]
    <2> HIDE DEF m
    <2>1. inJob' = [inJob EXCEPT ![l] = m]
        BY <1>2 DEF m
    <2> QED
        BY <1>8, <2>1, LaneSet
<1>10. JobsFit'
    <2>1. CASE l = "queue"
        <3>1. inJob'["screen"] = inJob["screen"]
            BY <1>9, <2>1 DEF Lanes
        <3>2. CASE j.kind = "check"
            <4>1. j.src \in Source /\ made[j.src] # <<>> /\ Origin[t] = j.src
                BY <1>2, <2>1, <3>2 DEF IInv, JobsFit, QueueFits, HasTx
            <4>2. inJob'["queue"] = k
                BY <1>9, <2>1, <3>2
            <4>3. inStatus'[t] # "none"
                BY <1>4, <1>5
            <4> HIDE DEF k, st
            <4>4. QueueFits(inJob["queue"])'
                BY <1>1, <1>3, <1>7, <3>2, <4>1, <4>2, <4>3 DEF QueueFits, HasTx
            <4> QED
                BY <1>3, <1>5, <3>1, <4>3, <4>4, QueueMoves
        <3>3. CASE j.kind # "check"
            <4>1. QueueFits(inJob["queue"])'
                BY <1>9, <2>1, <3>3, NoJobFits
            <4>2. inStatus'[t] # "none"
                BY <1>4, <1>5
            <4> HIDE DEF st
            <4> QED
                BY <1>3, <1>5, <3>1, <4>1, <4>2, QueueMoves
        <3> QED
            BY <3>2, <3>3
    <2>2. CASE l = "screen"
        <3>1. inJob'["queue"] = inJob["queue"] /\ inJob'["screen"] = NoJob
            BY <1>3, <1>9, <2>2 DEF Lanes
        <3>2. ScreenFits(inJob["screen"])'
            BY <3>1, NoJobFits
        <3>3. HasTx(inJob["queue"]) /\ inJob["queue"].tx = t => inJob["queue"].kind \in {"retry", "check"}
            BY <1>3, <2>2, IncomingAssumptions DEF IInv, JobsFit, QueueFits, HasTx
        <3>4. HasTx(inJob["queue"]) => inJob["queue"].tx \in InTx
            BY DEF IInv, JobsFit, QueueFits
        <3>5. inStatus'[t] # "none"
            BY <1>4, <1>5
        <3> HIDE DEF t, st
        <3> QED
            BY <1>1, <1>5, <3>1, <3>2, <3>3, <3>4, <3>5, ScreenMoves
    <2> QED
        BY <2>1, <2>2 DEF Lanes
<1>11. Types'
    <2>1. polled' \subseteq InTx
        BY <1>2, AllTyped
    <2> HIDE DEF st, t, m
    <2> QED
        BY <1>1, <1>5, <1>6, <1>9, <2>1, AllTyped, TypesMove
<1>12. inJob'["queue"].kind = "deposit" =>
           inJob["queue"].kind = "deposit" /\ inJob'["queue"].src = inJob["queue"].src
    <2>1. CASE l = "queue"
        <3>1. inJob'["queue"] = m
            BY <1>9, <2>1
        <3>2. m.kind \in {"check", "idle"}
            <4>1. CASE j.kind = "check"
                BY <1>7, <4>1
            <4>2. CASE j.kind # "check"
                BY <4>2 DEF NoJob, Job
            <4> QED
                BY <4>1, <4>2
        <3> HIDE DEF m
        <3> QED
            BY <3>1, <3>2
    <2>2. CASE l = "screen"
        BY <1>9, <2>2 DEF Lanes
    <2> QED
        BY <2>1, <2>2 DEF Lanes
<1>13. \A u \in InTx : inRows'[u] > 0 => inRows[u] > 0 \/ inStatus'[u] # "none"
    BY <1>1
<1>14. \A u \in InTx : u = t => Reported(u)'
    BY <1>5 DEF Reported
<1> HIDE DEF t, st, j, k, m
<1> QED
    BY <1>1, <1>2, <1>3, <1>4, <1>6, <1>10, <1>11, <1>12, <1>13, <1>14, StatusMoves

LEMMA MaxOfTwo ==
    ASSUME NEW a \in Int, NEW b \in Int
    PROVE  Max({a, b}) \in {a, b} /\ Max({a, b}) >= a /\ Max({a, b}) >= b
<1>1. \E x \in {a, b} : \A y \in {a, b} : x >= y
    OBVIOUS
<1> QED
    BY <1>1 DEF Max

LEMMA MinOfTwo ==
    ASSUME NEW a \in Int, NEW b \in Int
    PROVE  Min({a, b}) \in {a, b} /\ Min({a, b}) <= a /\ Min({a, b}) <= b
<1>1. \E x \in {a, b} : \A y \in {a, b} : x <= y
    OBVIOUS
<1> QED
    BY <1>1 DEF Min

LEMMA RaisedTyped ==
    ASSUME NEW row \in [paid : Int, issued : Nat], NEW p \in Nat, NEW i \in Nat
    PROVE  Raised(row, p, i) \in [paid : Int, issued : Nat]
<1>1. row.paid \in Int /\ p \in Int /\ row.issued \in Nat
    OBVIOUS
<1>2. Max({row.paid, p}) \in Int
    BY <1>1, MaxOfTwo
<1>3. Max({row.issued, i}) \in {row.issued, i}
    <2>1. row.issued \in Int /\ i \in Int
        BY <1>1
    <2> HIDE <1>1
    <2> QED
        BY <2>1, MaxOfTwo
<1>4. Max({row.issued, i}) \in Nat
    BY <1>1, <1>3
<1> QED
    BY <1>2, <1>4 DEF Raised

\* The quote's row follows.
LEMMA RaiseRowKeeps ==
    ASSUME IInv, RaiseRow
    PROVE  IInv'
<1> DEFINE j == inJob["queue"]
           row == Raised(quoteRow[j.src], j.told.paid, j.told.issued + j.n)
<1>1. UNCHANGED <<session, inStatus, noted, credit, fullToken, inRows, made, inTodo, polled,
                  socketed, timedOut, inCounter, inDerived, ledger, inNet, answered,
                  mintBlocked, inFaults>>
    BY DEF RaiseRow, watchVars, drawVars, mintSide, restVars
<1>2. /\ j \in JobRecord /\ j.pc = "raise" /\ inJob' = [inJob EXCEPT !["queue"] = NoJob]
      /\ quoteRow' = [quoteRow EXCEPT ![j.src] = row]
    BY LanesTyped DEF RaiseRow, At, Lanes, Leave, Enter
<1>3. j.src \in Source /\ made[j.src] # <<>>
    BY <1>2 DEF IInv, JobsFit, QueueFits
<1>4. /\ quoteRow' \in [Source -> [paid : Int, issued : Nat]]
      /\ \A s \in Source : quoteRow'[s] = quoteRow[s] \/ made[s] # <<>>
    <2>1. j.told.paid \in Nat /\ j.told.issued + j.n \in Nat
        BY <1>2 DEF JobRecord
    <2>2. quoteRow[j.src] \in [paid : Int, issued : Nat]
        BY <1>3, AllTyped
    <2>3. row \in [paid : Int, issued : Nat]
        BY <2>1, <2>2, RaisedTyped
    <2> HIDE DEF row, j
    <2> QED
        BY <1>2, <1>3, <2>3, AllTyped
<1>5. JobsFit' /\ inJob' \in [Lanes -> JobRecord]
    BY <1>1, <1>2, LaneLeft DEF Lanes
<1>6. inJob'["queue"].kind # "deposit"
    BY <1>2, AllTyped DEF Lanes, NoJob, Job
<1>7. Types'
    BY <1>1, <1>4, <1>5, AllTyped, TypesMove
<1> QED
    BY <1>1, <1>4, <1>5, <1>6, <1>7, LaneMoves

\* The process dies.
LEMMA RestartIncomingKeeps ==
    ASSUME IInv, RestartIncoming
    PROVE  IInv'
<1>1. UNCHANGED <<session, inStatus, noted, credit, inRows, quoteRow, made, timedOut,
                  inCounter, ledger, inNet, answered, mintBlocked>>
    BY DEF RestartIncoming, mintSide
<1>2. /\ inJob' = [l \in Lanes |-> NoJob] /\ inTodo' = {} /\ polled' = {} /\ socketed' = {}
      /\ fullToken' = {} /\ inDerived' = inCounter /\ inFaults' = inFaults + 1
    BY DEF RestartIncoming
<1>3. /\ inJob' \in [Lanes -> JobRecord] /\ inJob'["queue"] = NoJob /\ inJob'["screen"] = NoJob
    BY <1>2, NoJobFits DEF Lanes
<1>4. JobsFit'
    BY <1>3, NoJobFits DEF JobsFit
<1>5. Types'
    <2>1. inDerived' \in Nat /\ inFaults' \in Nat
        BY <1>2, AllTyped
    <2> QED
        BY <1>1, <1>2, <1>3, <2>1, AllTyped, TypesMove
<1>6. inJob'["queue"].kind # "deposit"
    BY <1>3 DEF NoJob, Job
<1> QED
    BY <1>1, <1>2, <1>4, <1>5, <1>6, LaneMoves

-----------------------------------------------------------------------------
(* The mint gets to a request.                                             *)

LEMMA VerdictIsOk ==
    ASSUME NEW w, Verdict(w) = "ok", w.index \notin DOMAIN answered
    PROVE  ledger[w.src].paid - ledger[w.src].issued >= w.n
BY Zenon DEF Verdict

LEMMA VerdictTyped ==
    ASSUME NEW w
    PROVE  Verdict(w) \in {"ok", "signed", "spent"}
<1>1. CASE w.index \in DOMAIN answered /\ answered[w.index] = [src |-> w.src, n |-> w.n]
    BY <1>1, Zenon DEF Verdict
<1>2. CASE w.index \in DOMAIN answered /\ answered[w.index] # [src |-> w.src, n |-> w.n]
    BY <1>2, Zenon DEF Verdict
<1>3. CASE w.index \notin DOMAIN answered
    <2>1. Verdict(w) = IF ledger[w.src].paid - ledger[w.src].issued >= w.n THEN "ok" ELSE "spent"
        BY <1>3, Zenon DEF Verdict
    <2> QED
        BY <2>1
<1> QED
    BY <1>1, <1>2, <1>3

\* The request is processed, whoever still waits for it.
LEMMA MintIssuesKeeps ==
    ASSUME NEW w \in inNet, IInv, MintIssues(w)
    PROVE  IInv'
<1> DEFINE v == Verdict(w)
<1>1. UNCHANGED <<session, inStatus, noted, credit, fullToken, inRows, quoteRow, made, inTodo,
                  polled, socketed, timedOut, inCounter, inDerived, mintBlocked, inFaults>>
    BY DEF MintIssues, bookVars, watchVars, drawVars, restVars
<1>2. /\ w.src \in Source /\ w.n \in Nat /\ w.index \in Nat
      /\ inNet' = inNet \ {w}
    BY AllTyped DEF MintIssues
<1>3. v \in {"ok", "signed", "spent"}
    BY VerdictTyped
<1>4. \A l \in Lanes : inJob'[l] = inJob[l] \/ inJob'[l] = [inJob[l] EXCEPT !.answer = v]
    BY DEF MintIssues
<1>5. DOMAIN inJob' = Lanes /\ inJob' = [l \in Lanes |-> inJob'[l]]
    BY DEF MintIssues
<1> HIDE DEF v
<1>6. \A l \in Lanes :
          /\ inJob'[l] \in JobRecord /\ inJob'[l].kind = inJob[l].kind /\ inJob'[l].tx = inJob[l].tx
          /\ inJob'[l].src = inJob[l].src /\ inJob'[l].pc = inJob[l].pc
    <2> SUFFICES ASSUME NEW l \in Lanes
                 PROVE  /\ inJob'[l] \in JobRecord /\ inJob'[l].kind = inJob[l].kind
                        /\ inJob'[l].tx = inJob[l].tx /\ inJob'[l].src = inJob[l].src
                        /\ inJob'[l].pc = inJob[l].pc
        OBVIOUS
    <2>1. inJob[l] \in JobRecord
        BY LanesTyped
    <2>2. CASE inJob'[l] = inJob[l]
        BY <2>1, <2>2
    <2>3. CASE inJob'[l] = [inJob[l] EXCEPT !.answer = v]
        BY <1>3, <2>1, <2>3 DEF JobRecord
    <2> QED
        BY <1>4, <2>2, <2>3
<1>7. inJob' \in [Lanes -> JobRecord]
    BY <1>5, <1>6
<1>8. MintTypes'
    <2>1. CASE v = "ok" /\ w.index \notin DOMAIN answered
        <3>1. ledger[w.src] \in LedgerRecord
            BY <1>2, AllTyped
        <3>2. ledger[w.src].paid - ledger[w.src].issued >= w.n
            BY <2>1, VerdictIsOk DEF v
        <3>3. [ledger[w.src] EXCEPT !.issued = @ + w.n] \in LedgerRecord
            BY <1>2, <3>1, <3>2 DEF LedgerRecord
        <3>4. /\ ledger' = [ledger EXCEPT ![w.src].issued = @ + w.n]
              /\ answered' = [i \in DOMAIN answered \cup {w.index} |->
                                 IF i = w.index THEN [src |-> w.src, n |-> w.n] ELSE answered[i]]
            BY <2>1 DEF MintIssues, v
        <3>5. ledger' \in [Source -> LedgerRecord]
            BY <1>2, <3>3, <3>4, AllTyped
        <3>6. /\ answered \in [DOMAIN answered -> [src : Source, n : Nat]]
              /\ DOMAIN answered \subseteq Nat
            BY DEF IInv, Types, MintTypes
        <3>7. \A i \in DOMAIN answered : answered[i] \in [src : Source, n : Nat]
            BY <3>6
        <3>8. /\ DOMAIN answered' = DOMAIN answered \cup {w.index}
              /\ \A i \in DOMAIN answered' : answered'[i] \in [src : Source, n : Nat]
            BY <1>2, <3>4, <3>7
        <3>9. answered' \in [DOMAIN answered' -> [src : Source, n : Nat]]
            BY <3>4, <3>8
        <3> QED
            BY <1>2, <3>5, <3>6, <3>8, <3>9, AllTyped DEF MintTypes
    <2>2. CASE ~(v = "ok" /\ w.index \notin DOMAIN answered)
        <3>1. ledger' = ledger /\ answered' = answered
            BY <2>2, Zenon DEF MintIssues, v
        <3> QED
            BY <1>2, <3>1 DEF IInv, Types, MintTypes
    <2> QED
        BY <2>1, <2>2
<1>9. Types'
    <2>1. RecordTypes' /\ BookTypes' /\ WatchTypes'
        BY <1>1 DEF IInv, Types, RecordTypes, BookTypes, WatchTypes
    <2>2. TaskTypes'
        BY <1>1, <1>7 DEF IInv, Types, TaskTypes
    <2>3. RestTypes'
        BY <1>1 DEF IInv, Types, RestTypes
    <2> QED
        BY <1>8, <2>1, <2>2, <2>3 DEF Types
<1>10. JobsFit'
    <2>1. "queue" \in Lanes /\ "screen" \in Lanes
        BY DEF Lanes
    <2>2. HasTx(inJob["queue"])' <=> HasTx(inJob["queue"])
        BY <1>6, <2>1 DEF HasTx
    <2>3. QueueFits(inJob["queue"])'
        BY <1>1, <1>6, <2>1, <2>2 DEF IInv, JobsFit, QueueFits
    <2>4. ScreenFits(inJob["screen"])'
        BY <1>1, <1>6, <2>1 DEF IInv, JobsFit, ScreenFits
    <2> QED
        BY <2>3, <2>4 DEF JobsFit
<1>11. inJob'["queue"].kind = inJob["queue"].kind /\ inJob'["queue"].src = inJob["queue"].src
    BY <1>6 DEF Lanes
<1> QED
    BY <1>1, <1>9, <1>10, <1>11, LaneMoves

-----------------------------------------------------------------------------
(* The deposits of a quote.                                                *)

\* A topup's quote is asked for.
LEMMA StartQuoteKeeps ==
    ASSUME NEW t \in InTx, IInv, StartQuote(t)
    PROVE  IInv'
<1>1. UNCHANGED <<session, noted, credit, fullToken, inRows, quoteRow, made, polled, socketed,
                  timedOut, inCounter, inDerived, ledger, inNet, answered, mintBlocked,
                  inFaults>>
    BY DEF StartQuote, bookVars, watchVars, drawVars, mintSide, restVars
<1> DEFINE k == Job(InKind[t], t, Origin[t], "quote")
<1>2. /\ InKind[t] \in {"topup", "deposit"} /\ [kind |-> InKind[t], of |-> t] \in inTodo
      /\ inTodo' = inTodo \ {[kind |-> InKind[t], of |-> t]}
      /\ inStatus' = [inStatus EXCEPT ![t] = "DRAFT"] /\ inJob' = [inJob EXCEPT !["queue"] = k]
    BY Takes DEF StartQuote, ByPayment, Mark, Enter
<1>3. NotAsked(t)' /\ inStatus[t] = "none" /\ ~(credit[t] > 0)
    BY <1>2, TakenIsNotAsked DEF Starting
<1>4. "DRAFT" \in Statuses \ {"none"} /\ Suits(t, "DRAFT")
    BY DEF Statuses, Suits
<1>5. /\ inStatus' \in [InTx -> Statuses] /\ inStatus'[t] = "DRAFT"
      /\ \A u \in InTx \ {t} : inStatus'[u] = inStatus[u]
    BY <1>2, <1>4, StatusTyped
<1>6. k \in JobRecord /\ QueueFits(k)' /\ k.kind = InKind[t] /\ k.src = Origin[t]
    BY <1>1, <1>2, <1>5, IncomingAssumptions DEF Job, JobRecord, QueueFits, HasTx
<1> HIDE DEF k
<1>7. /\ inJob' \in [Lanes -> JobRecord] /\ inJob'["queue"] = k
      /\ inJob'["screen"] = inJob["screen"]
    BY <1>2, <1>6, LaneSet DEF Lanes
<1>8. Types'
    BY <1>1, <1>2, <1>5, <1>7, AllTyped, TypesMove
<1>9. JobsFit'
    BY <1>2, <1>5, <1>6, <1>7, QueueMoves
<1>10. TasksFit'
    <2>1. \A u \in InTx : inStatus'[u] = inStatus[u] \/ (inStatus'[u] # "none" /\ NotAsked(u)')
        BY <1>3, <1>5
    <2>2. \A s \in Source : made[s] # <<>> => made'[s] # <<>>
        BY <1>1
    <2> QED
        BY <1>2, <2>1, <2>2, TasksStay DEF IInv
<1>11. DepositsFirst'
    <2> SUFFICES ASSUME NEW u \in InTx, [kind |-> "deposit", of |-> u] \in inTodo'
                 PROVE  /\ made[Origin[u]] = <<>>
                        /\ ~(k.kind = "deposit" /\ k.src = Origin[u])
                        /\ \A v \in InTx :
                               [kind |-> "deposit", of |-> v] \in inTodo' /\ Origin[v] = Origin[u] => v = u
        BY <1>1, <1>7 DEF DepositsFirst
    <2>1. [kind |-> "deposit", of |-> u] \in inTodo
        BY <1>2
    <2>2. /\ made[Origin[u]] = <<>>
          /\ \A v \in InTx : [kind |-> "deposit", of |-> v] \in inTodo /\ Origin[v] = Origin[u] => v = u
        BY <2>1 DEF IInv, DepositsFirst
    <2>3. ~(k.kind = "deposit" /\ k.src = Origin[u])
        <3> SUFFICES ASSUME InKind[t] = "deposit", Origin[t] = Origin[u] PROVE FALSE
            BY <1>6
        <3>1. t = u
            BY <1>2, <2>2
        <3> QED
            BY <1>2, <3>1
    <2> QED
        BY <1>2, <2>2, <2>3
<1>12. BooksFit'
    BY <1>1, <1>4, <1>5, BooksStay, AllTyped DEF IInv
<1>13. EcashIsReported'
    BY <1>1, <1>3, <1>5, ReportedStays DEF IInv
<1> QED
    BY <1>8, <1>9, <1>10, <1>11, <1>12, <1>13 DEF IInv

\* A quote's transactions with another one.
LEMMA BookGrows ==
    ASSUME IInv, NEW s \in Source, NEW t \in InTx, Origin[t] = s, inStatus'[t] # "none",
           made' = [made EXCEPT ![s] = Append(@, t)],
           \A u \in InTx : inStatus'[u] = inStatus[u] \/ inStatus'[u] # "none",
           \A u \in InTx : inStatus'[u] = inStatus[u] \/ Suits(u, inStatus'[u]),
           inRows' = inRows, socketed' \subseteq socketed,
           \A r \in Source : quoteRow'[r] = quoteRow[r] \/ made'[r] # <<>>
    PROVE  /\ BooksFit' /\ made' \in [Source -> Seq(InTx)]
           /\ \A r \in Source : made[r] # <<>> => made'[r] # <<>>
           /\ \A r \in Source : r = s \/ made'[r] = made[r]
<1>1. /\ made' \in [Source -> Seq(InTx)] /\ made'[s] = Append(made[s], t) /\ made[s] \in Seq(InTx)
      /\ \A r \in Source : r = s \/ made'[r] = made[r]
    BY AllTyped
<1>2. \A r \in Source : made[r] # <<>> => made'[r] # <<>>
    BY <1>1
<1>3. ASSUME NEW r \in Source, NEW i \in DOMAIN made'[r]
      PROVE  Origin[made'[r][i]] = r /\ inStatus'[made'[r][i]] # "none"
    <2>1. \A x \in DOMAIN made[r] : /\ made[r][x] \in InTx /\ Origin[made[r][x]] = r
                                    /\ inStatus'[made[r][x]] # "none"
        <3> SUFFICES ASSUME NEW x \in DOMAIN made[r]
                     PROVE  /\ made[r][x] \in InTx /\ Origin[made[r][x]] = r
                            /\ inStatus'[made[r][x]] # "none"
            OBVIOUS
        <3>1. made[r] \in Seq(InTx)
            BY AllTyped
        <3>2. made[r][x] \in InTx
            BY <3>1
        <3>3. Origin[made[r][x]] = r /\ inStatus[made[r][x]] # "none"
            BY DEF IInv, BooksFit
        <3> QED
            BY <3>2, <3>3
    <2>2. CASE r = s
        BY <1>1, <2>1, <2>2
    <2>3. CASE r # s
        BY <1>1, <2>1, <2>3
    <2> QED
        BY <2>2, <2>3
<1>4. \A r \in Source : quoteRow'[r] # NoQuoteRow => made'[r] # <<>>
    BY <1>2 DEF IInv, BooksFit
<1>5. /\ \A u \in InTx : inRows'[u] > 0 => inStatus'[u] # "none"
      /\ \A u \in InTx : Suits(u, inStatus'[u])
      /\ \A u \in socketed' : InKind[u] = "topup"
    BY DEF IInv, BooksFit
<1>6. BooksFit'
    BY <1>3, <1>4, <1>5 DEF BooksFit, NoQuoteRow
<1> QED
    BY <1>1, <1>2, <1>6

\* The quote is there: the topup waits, and is watched; an onchain quote is in the books.
LEMMA QuoteCreatedKeeps ==
    ASSUME IInv, QuoteCreated
    PROVE  IInv'
<1> DEFINE j == inJob["queue"]
           t == j.tx
           s == j.src
<1>1. UNCHANGED <<session, noted, credit, fullToken, inRows, inTodo, timedOut, inCounter,
                  inDerived, ledger, inNet, answered, mintBlocked, inFaults>>
    BY DEF QuoteCreated, drawVars, mintSide, restVars
<1>2. /\ j \in JobRecord /\ j.pc = "quote" /\ inStatus' = [inStatus EXCEPT ![t] = "PENDING"]
      /\ inJob' = [inJob EXCEPT !["queue"] = NoJob]
    BY LanesTyped DEF QuoteCreated, At, Lanes, Mark, Leave, Enter
<1>3. /\ j.kind \in {"topup", "deposit"} /\ t \in InTx /\ InKind[t] = j.kind
      /\ inStatus[t] = "DRAFT" /\ ~(credit[t] > 0) /\ Origin[t] = s /\ s \in Source
    BY <1>2, IncomingAssumptions DEF IInv, JobsFit, QueueFits, HasTx, EcashIsReported
<1>4. "PENDING" \in Statuses \ {"none"} /\ Suits(t, "PENDING")
    BY DEF Statuses, Suits
<1>5. /\ inStatus' \in [InTx -> Statuses] /\ inStatus'[t] = "PENDING"
      /\ \A u \in InTx \ {t} : inStatus'[u] = inStatus[u]
    BY <1>2, <1>3, <1>4, StatusTyped
<1>6. /\ inJob' \in [Lanes -> JobRecord] /\ inJob'["queue"] = NoJob
      /\ inJob'["screen"] = inJob["screen"]
    BY <1>2, NoJobFits, LaneSet DEF Lanes
<1>7. inJob'["queue"].kind # "deposit"
    BY <1>6 DEF NoJob, Job
<1>8. QueueFits(inJob["queue"])'
    BY <1>6, NoJobFits
<1>9. JobsFit'
    BY <1>3, <1>5, <1>6, <1>8, IncomingAssumptions, QueueMoves
<1>10. CASE j.kind = "topup"
    <2>1. /\ quoteRow' = quoteRow /\ made' = made
          /\ socketed' \in {socketed, socketed \cup {t}} /\ polled' \in {polled, polled \cup {t}}
        BY <1>10 DEF QuoteCreated
    <2> HIDE DEF t, s, j
    <2>2. Types'
        <3>1. socketed' \subseteq InTx /\ polled' \subseteq InTx
            BY <1>3, <2>1, AllTyped
        <3> QED
            BY <1>1, <1>5, <1>6, <2>1, <3>1, AllTyped, TypesMove
    <2>3. TasksFit'
        <3>1. \A u \in InTx : inStatus[u] = "none" => u # t
            BY <1>3
        <3> QED
            BY <1>1, <1>3, <1>4, <1>5, <2>1 DEF IInv, TasksFit, TaskFits
    <2>4. DepositsFirst'
        BY <1>1, <1>7, <2>1, DepositsStay DEF IInv
    <2>5. BooksFit'
        <3>1. \A u \in socketed' : u \in socketed \/ InKind[u] = "topup"
            BY <1>3, <1>10, <2>1 DEF t, j
        <3> QED
            BY <1>1, <1>4, <1>5, <2>1, <3>1, BooksStay, AllTyped DEF IInv
    <2>6. EcashIsReported'
        BY <1>1, <1>3, <1>5, ReportedStays DEF IInv
    <2> QED
        BY <1>9, <2>2, <2>3, <2>4, <2>5, <2>6 DEF IInv
<1>11. CASE j.kind = "deposit"
    <2>1. /\ quoteRow' = [quoteRow EXCEPT ![s] = [paid |-> 0, issued |-> 0]]
          /\ made' = [made EXCEPT ![s] = Append(@, t)]
          /\ socketed' = socketed /\ polled' = polled
        BY <1>11 DEF QuoteCreated
    <2>2. \A u \in InTx : [kind |-> "deposit", of |-> u] \in inTodo => Origin[u] # s
        BY <1>11 DEF IInv, DepositsFirst
    <2> HIDE DEF t, s, j
    <2>3. quoteRow' \in [Source -> [paid : Int, issued : Nat]]
        <3>1. [paid |-> 0, issued |-> 0] \in [paid : Int, issued : Nat]
            OBVIOUS
        <3> QED
            BY <1>3, <2>1, <3>1, AllTyped
    <2>4. /\ BooksFit' /\ made' \in [Source -> Seq(InTx)]
          /\ \A r \in Source : made[r] # <<>> => made'[r] # <<>>
          /\ \A r \in Source : r = s \/ made'[r] = made[r]
        <3>1. \A r \in Source : quoteRow'[r] = quoteRow[r] \/ made'[r] # <<>>
            <4>1. made'[s] = Append(made[s], t) /\ made[s] \in Seq(InTx)
                BY <1>3, <2>1, AllTyped
            <4>2. made'[s] # <<>>
                BY <1>3, <4>1
            <4> QED
                BY <1>3, <2>1, <4>2, AllTyped
        <3> QED
            BY <1>1, <1>3, <1>4, <1>5, <2>1, <3>1, BookGrows
    <2>5. Types'
        <3>1. RecordTypes' /\ BookTypes'
            BY <1>1, <1>5, <2>3, <2>4 DEF IInv, Types, RecordTypes, BookTypes
        <3>2. TaskTypes' /\ WatchTypes'
            BY <1>1, <1>6, <2>1 DEF IInv, Types, TaskTypes, WatchTypes
        <3>3. MintTypes' /\ RestTypes'
            BY <1>1 DEF IInv, Types, MintTypes, RestTypes
        <3> QED
            BY <3>1, <3>2, <3>3 DEF Types
    <2>6. TasksFit'
        <3>1. \A u \in InTx : inStatus[u] = "none" => u # t
            BY <1>3
        <3> QED
            BY <1>1, <1>3, <1>4, <1>5, <2>4, <3>1 DEF IInv, TasksFit, TaskFits
    <2>7. DepositsFirst'
        BY <1>1, <1>7, <2>2, <2>4, IncomingAssumptions DEF IInv, DepositsFirst
    <2>8. EcashIsReported'
        BY <1>1, <1>3, <1>5, ReportedStays DEF IInv
    <2> QED
        BY <1>9, <2>4, <2>5, <2>6, <2>7, <2>8 DEF IInv
<1> QED
    BY <1>3, <1>10, <1>11

\* An onchain quote that has something to mint gives it to the transaction that waits, or
\* to a new one.
LEMMA CheckedKeeps ==
    ASSUME IInv, Checked
    PROVE  IInv'
<1> DEFINE j == inJob["queue"]
           s == j.src
           mintable == Max({0, j.told.paid - j.told.issued})
           row == Raised(quoteRow[s], j.told.paid, j.told.issued)
<1>1. UNCHANGED <<session, noted, credit, fullToken, inRows, inTodo, polled, socketed, timedOut,
                  inCounter, inDerived, ledger, inNet, answered, mintBlocked, inFaults>>
    BY DEF Checked, watchVars, drawVars, mintSide, restVars
<1>2. /\ j \in JobRecord /\ j.pc = "told" /\ j.kind = "check"
      /\ quoteRow' = [quoteRow EXCEPT ![s] = row]
    BY LanesTyped DEF Checked, At, Lanes
<1>3. s \in Source /\ made[s] # <<>> /\ made[s] \in Seq(InTx)
    BY <1>2, AllTyped DEF IInv, JobsFit, QueueFits
<1>4. /\ j.told.paid \in Nat /\ j.told.issued \in Nat /\ mintable \in Nat
    <2>1. j.told.paid \in Nat /\ j.told.issued \in Nat
        BY <1>2 DEF JobRecord
    <2>2. 0 \in Int /\ j.told.paid - j.told.issued \in Int
        BY <2>1
    <2>3. mintable \in Int /\ mintable >= 0
        BY <2>2, MaxOfTwo
    <2> QED
        BY <2>1, <2>3
<1>5. /\ quoteRow' \in [Source -> [paid : Int, issued : Nat]]
      /\ \A r \in Source : quoteRow'[r] = quoteRow[r] \/ made[r] # <<>>
    <2>1. quoteRow[s] \in [paid : Int, issued : Nat]
        BY <1>3, AllTyped
    <2>2. row \in [paid : Int, issued : Nat]
        BY <1>4, <2>1, RaisedTyped
    <2> HIDE DEF row, j, s
    <2> QED
        BY <1>2, <1>3, <2>2, AllTyped
<1>6. CASE mintable = 0
    <2>1. inJob' = [inJob EXCEPT !["queue"] = NoJob] /\ inStatus' = inStatus /\ made' = made
        BY <1>6 DEF Checked, Leave, Enter
    <2>2. JobsFit' /\ inJob' \in [Lanes -> JobRecord]
        BY <2>1, LaneLeft DEF Lanes
    <2>3. inJob'["queue"].kind # "deposit"
        BY <2>1, AllTyped DEF Lanes, NoJob, Job
    <2>4. Types'
        BY <1>1, <1>5, <2>1, <2>2, AllTyped, TypesMove
    <2> QED
        BY <1>1, <1>5, <2>1, <2>2, <2>3, <2>4, LaneMoves
<1>7. CASE mintable # 0
    <2>1. PICK t \in InTx :
              /\ ForDeposit(s, t)
              /\ inJob' = [inJob EXCEPT !["queue"] =
                              [j EXCEPT !.pc = "call", !.tx = t, !.n = Min({mintable, MintCap})]]
        BY <1>7 DEF Checked, Enter
    <2> DEFINE k == [j EXCEPT !.pc = "call", !.tx = t, !.n = Min({mintable, MintCap})]
    <2>2. Min({mintable, MintCap}) \in Nat
        <3>1. MintCap \in Nat
            BY IncomingAssumptions
        <3> HIDE DEF mintable
        <3>2. mintable \in Int /\ MintCap \in Int
            BY <1>4, <3>1
        <3>3. Min({mintable, MintCap}) \in {mintable, MintCap}
            BY <3>2, MinOfTwo
        <3> QED
            BY <1>4, <3>1, <3>3
    <2>3. k \in JobRecord /\ k.kind = "check" /\ k.tx = t /\ k.src = s /\ k.pc = "call"
        BY <1>2, <2>2 DEF JobRecord
    <2> HIDE DEF k
    <2>4. /\ inJob' \in [Lanes -> JobRecord] /\ inJob'["queue"] = k
          /\ inJob'["screen"] = inJob["screen"]
        <3>1. inJob' = [inJob EXCEPT !["queue"] = k]
            BY <2>1 DEF k
        <3> QED
            BY <2>3, <3>1, LaneSet DEF Lanes
    <2>5. CASE inStatus[Last(made[s])] \in {"PENDING", "PREPARED"}
        <3>1. t = Last(made[s]) /\ inStatus' = inStatus /\ made' = made
            BY <2>1, <2>5 DEF ForDeposit
        <3>2. Len(made[s]) \in DOMAIN made[s] /\ Last(made[s]) = made[s][Len(made[s])]
            BY <1>3 DEF Last
        <3>3. Origin[t] = s /\ inStatus[t] # "none"
            BY <1>3, <3>1, <3>2 DEF IInv, BooksFit
        <3> HIDE DEF s, j
        <3>4. QueueFits(inJob["queue"])'
            BY <1>3, <2>3, <2>4, <3>1, <3>3 DEF QueueFits, HasTx
        <3>5. JobsFit'
            BY <2>4, <3>1, <3>4, QueueMoves
        <3>6. Types'
            BY <1>1, <1>5, <2>4, <3>1, AllTyped, TypesMove
        <3>7. inJob'["queue"].kind # "deposit"
            BY <2>3, <2>4
        <3> QED
            BY <1>1, <1>5, <3>1, <3>5, <3>6, <3>7, LaneMoves
    <2>6. CASE inStatus[Last(made[s])] \notin {"PENDING", "PREPARED"}
        <3>1. /\ InKind[t] = "deposit" /\ Origin[t] = s /\ inStatus[t] = "none"
              /\ inStatus' = [inStatus EXCEPT ![t] = "PENDING"]
              /\ made' = [made EXCEPT ![s] = Append(@, t)]
            BY <2>1, <2>6 DEF ForDeposit, Mark
        <3>2. "PENDING" \in Statuses \ {"none"} /\ Suits(t, "PENDING")
            BY DEF Statuses, Suits
        <3>3. /\ inStatus' \in [InTx -> Statuses] /\ inStatus'[t] = "PENDING"
              /\ \A u \in InTx \ {t} : inStatus'[u] = inStatus[u]
            BY <3>1, <3>2, StatusTyped
        <3>4. ~(credit[t] > 0)
            BY <3>1 DEF IInv, EcashIsReported
        <3> HIDE DEF s, j, row
        <3>5. /\ BooksFit' /\ made' \in [Source -> Seq(InTx)]
              /\ \A r \in Source : made[r] # <<>> => made'[r] # <<>>
              /\ \A r \in Source : r = s \/ made'[r] = made[r]
            <4>1. made'[s] = Append(made[s], t) /\ made[s] \in Seq(InTx)
                BY <1>3, <3>1, AllTyped
            <4>2. made'[s] # <<>>
                BY <4>1
            <4>3. \A r \in Source : r # s => quoteRow'[r] = quoteRow[r]
                BY <1>2, AllTyped
            <4>4. \A r \in Source : quoteRow'[r] = quoteRow[r] \/ made'[r] # <<>>
                BY <4>2, <4>3
            <4> QED
                BY <1>1, <1>3, <3>1, <3>2, <3>3, <4>4, BookGrows
        <3>6. Types'
            <4>1. RecordTypes' /\ BookTypes'
                BY <1>1, <1>5, <3>3, <3>5 DEF IInv, Types, RecordTypes, BookTypes
            <4>2. TaskTypes' /\ WatchTypes'
                BY <1>1, <2>4 DEF IInv, Types, TaskTypes, WatchTypes
            <4>3. MintTypes' /\ RestTypes'
                BY <1>1 DEF IInv, Types, MintTypes, RestTypes
            <4> QED
                BY <4>1, <4>2, <4>3 DEF Types
        <3>7. NotAsked(t)'
            <4> SUFFICES ASSUME NEW k2 \in inTodo, k2.kind \in Starting, k2.of = t PROVE FALSE
                BY <1>1 DEF NotAsked
            <4>1. TaskFits(k2)
                BY DEF IInv, TasksFit
            <4>2. k2.kind = "deposit"
                BY <3>1, <4>1 DEF TaskFits
            <4>3. k2 = [kind |-> "deposit", of |-> t]
                BY <4>2 DEF IInv, Types, TaskTypes
            <4> QED
                BY <1>3, <3>1, <4>3 DEF IInv, DepositsFirst
        <3>8. TasksFit'
            <4>1. \A u \in InTx : inStatus'[u] = inStatus[u] \/ (inStatus'[u] # "none" /\ NotAsked(u)')
                BY <3>3, <3>7
            <4> QED
                BY <1>1, <3>5, <4>1, TasksStay DEF IInv
        <3>9. DepositsFirst'
            <4>1. inJob'["queue"].kind # "deposit"
                BY <2>3, <2>4
            <4>2. \A u \in InTx : [kind |-> "deposit", of |-> u] \in inTodo => Origin[u] # s
                BY <1>3 DEF IInv, DepositsFirst
            <4> QED
                BY <1>1, <3>5, <4>1, <4>2, IncomingAssumptions DEF IInv, DepositsFirst
        <3>10. JobsFit'
            <4>1. QueueFits(inJob["queue"])'
                BY <1>3, <2>3, <2>4, <3>1, <3>3, <3>5 DEF QueueFits, HasTx
            <4> QED
                BY <2>4, <3>1, <3>3, <4>1, QueueMoves
        <3>11. EcashIsReported'
            BY <1>1, <3>3, <3>4, ReportedStays DEF IInv
        <3> QED
            BY <3>5, <3>6, <3>8, <3>9, <3>10, <3>11 DEF IInv
    <2> QED
        BY <2>5, <2>6
<1> QED
    BY <1>6, <1>7

-----------------------------------------------------------------------------
(* Every step.                                                             *)

LEMMA IncomingStarts == IncomingInit => IInv
<1> SUFFICES ASSUME IncomingInit PROVE IInv
    OBVIOUS
<1>1. Types
    <2>1. RecordTypes
        BY DEF IncomingInit, RecordTypes, Statuses
    <2>2. BookTypes
        BY DEF IncomingInit, BookTypes, NoQuoteRow
    <2>3. TaskTypes
        BY NoJobFits DEF IncomingInit, TaskTypes
    <2>4. WatchTypes
        BY DEF IncomingInit, WatchTypes
    <2>5. MintTypes
        <3>1. ledger \in [Source -> LedgerRecord]
            BY IncomingAssumptions DEF IncomingInit, LedgerRecord
        <3>2. answered \in [DOMAIN answered -> [src : Source, n : Nat]] /\ DOMAIN answered \subseteq Nat
            BY DEF IncomingInit
        <3> QED
            BY <3>1, <3>2 DEF IncomingInit, MintTypes
    <2>6. RestTypes
        BY DEF IncomingInit, RestTypes
    <2> QED
        BY <2>1, <2>2, <2>3, <2>4, <2>5, <2>6 DEF Types
<1>2. TasksFit /\ DepositsFirst
    BY DEF IncomingInit, TasksFit, DepositsFirst
<1>3. BooksFit
    BY DEF IncomingInit, BooksFit, NoQuoteRow, Suits
<1>4. JobsFit
    <2>1. inJob["queue"] = NoJob /\ inJob["screen"] = NoJob
        BY DEF IncomingInit, Lanes
    <2>2. QueueFits(NoJob) /\ ScreenFits(NoJob)
        BY DEF NoJob, Job, QueueFits, ScreenFits, HasTx
    <2> QED
        BY <2>1, <2>2 DEF JobsFit
<1>5. EcashIsReported
    BY DEF IncomingInit, EcashIsReported
<1> QED
    BY <1>1, <1>2, <1>3, <1>4, <1>5 DEF IInv

LEMMA IncomingKeeps == IInv /\ [IncomingNext]_incomingVars => IInv'
<1> SUFFICES ASSUME IInv, [IncomingNext]_incomingVars PROVE IInv'
    OBVIOUS
<1>1. CASE UNCHANGED incomingVars
    <2>1. /\ UNCHANGED <<inStatus, credit, inRows, quoteRow, made, inJob, inTodo, socketed>>
          /\ UNCHANGED <<session, noted, fullToken, polled, timedOut, inCounter, inDerived>>
          /\ UNCHANGED <<ledger, inNet, answered, mintBlocked, inFaults>>
        BY <1>1 DEF incomingVars
    <2>2. Types'
        BY <2>1, AllTyped, TypesMove
    <2> QED
        BY <2>1, <2>2, NothingMoves
<1>2. ASSUME UserStep PROVE IInv'
    <2> session.txs \subseteq InTx
        BY IncomingAssumptions DEF IInv, Types, RestTypes
    <2> QED
        BY <1>2, AskIncomingKeeps, OpenDetailKeeps, LeaveDetailKeeps, AskCompleteKeeps,
           StartRecoverKeeps DEF UserStep
<1>3. ASSUME TaskStart PROVE IInv'
    BY <1>3, StartReceiveKeeps, StartOfflineKeeps, StartCompleteKeeps, StartRequestKeeps,
       StartPayloadKeeps, StartQuoteKeeps, StartRefreshKeeps, SweepInDropKeeps,
       SweepInRetryKeeps, StartCheckKeeps DEF TaskStart
<1>4. ASSUME NEW l \in Lanes, LaneStep(l) PROVE IInv'
    BY <1>4, MintTellsKeeps, CallForOutputsKeeps, MintRefusesKeeps, AnswerArrivesKeeps,
       StoreEcashKeeps DEF LaneStep
<1>5. ASSUME QueueStep \/ ScreenStep PROVE IInv'
    <2>1. "queue" \in Lanes /\ "screen" \in Lanes
        BY DEF Lanes
    <2> QED
        BY <1>4, <1>5, <2>1, OpenTokenKeeps, QuoteCreatedKeeps, QuoteRefusedKeeps, RefreshedKeeps,
           CheckedKeeps, RaiseRowKeeps, RecoveredKeeps DEF QueueStep, ScreenStep
<1>6. ASSUME Watching PROVE IInv'
    BY <1>6, SocketPaidKeeps, PollerEndsKeeps, SweepPendingKeeps, SweepQuotesKeeps DEF Watching
<1>7. ASSUME Outside PROVE IInv'
    <2>1. Concerned \subseteq Source /\ session.txs \subseteq InTx
        BY IncomingAssumptions DEF Concerned, IInv, Types, RestTypes
    <2>2. CASE BlockMint \/ RestartIncoming \/ \E t \in InTx : Delivered(t)
        BY <2>2, BlockMintKeeps, RestartIncomingKeeps, DeliveredKeeps
    <2>3. CASE \E s \in Concerned : Paid(s) \/ TakenElsewhere(s) \/ AskCheck(s)
        BY <2>1, <2>3, PaidKeeps, TakenElsewhereKeeps, AskCheckKeeps
    <2>4. CASE \E x \in session.txs \cup Concerned : TimeOut(x)
        BY <2>1, <2>4, TimeOutKeeps
    <2>5. CASE \E w \in inNet : MintIssues(w)
        BY <2>5, MintIssuesKeeps
    <2>6. CASE \E l \in Lanes : MintSilent(l) \/ AnswerLost(l)
        BY <2>6, MintSilentKeeps, AnswerLostKeeps
    <2> QED
        BY <1>7, <2>2, <2>3, <2>4, <2>5, <2>6 DEF Outside
<1> QED
    BY <1>1, <1>2, <1>3, <1>5, <1>6, <1>7 DEF IncomingNext

\* At every step the wallet's books, queue and lanes fit together.
THEOREM IncomingInvariance == IncomingSpec => []IInv
<1>1. IncomingInit => IInv
    BY IncomingStarts
<1>2. IInv /\ [IncomingNext]_incomingVars => IInv'
    BY IncomingKeeps
<1> QED
    BY <1>1, <1>2, PTL DEF IncomingSpec

\* Ecash that is in the books is reported as received, whatever comes later.
THEOREM ReportedAlways == IncomingSpec => []EcashIsReported
<1>1. IInv => EcashIsReported
    BY DEF IInv
<1> QED
    BY <1>1, IncomingInvariance, PTL

-----------------------------------------------------------------------------
(* What is in the books of a source is a sum over its transactions.        *)

OfSource(s) == {t \in InTx : Origin[t] = s}

LEMMA CreditIsSum ==
    ASSUME NEW s
    PROVE  /\ CreditOf(s) = Sums(credit, OfSource(s))[OfSource(s)]
           /\ CreditOf(s)' = Sums(credit', OfSource(s))[OfSource(s)]
BY DEF CreditOf, MapThenSumSet, MapThenFoldSet, Sums, Adds, OfSource

LEMMA SourcesFinite == \A s : IsFiniteSet(OfSource(s))
<1>1. \A s : s \notin Source => OfSource(s) = {}
    BY IncomingAssumptions DEF OfSource
<1> QED
    BY <1>1, FS_EmptySet, IncomingAssumptions DEF OfSource

LEMMA CreditTyped ==
    ASSUME IInv, NEW s
    PROVE  CreditOf(s) \in Nat
<1>1. \A x \in OfSource(s) : credit[x] \in Nat
    BY AllTyped DEF OfSource
<1>2. \A S \in SUBSET OfSource(s) : Sums(credit, OfSource(s))[S] \in Nat
    BY <1>1, SourcesFinite, SumsTyped
<1> QED
    BY <1>2, CreditIsSum

LEMMA CreditStays ==
    ASSUME credit' = credit
    PROVE  \A s : CreditOf(s)' = CreditOf(s)
BY CreditIsSum

LEMMA CreditGrows ==
    ASSUME NEW t, NEW n \in Nat, NEW s, \A x \in OfSource(s) : credit[x] \in Nat,
           \A x \in OfSource(s) : credit'[x] = IF x = t THEN credit[x] + n ELSE credit[x]
    PROVE  CreditOf(s)' = CreditOf(s) + IF t \in OfSource(s) THEN n ELSE 0
<1>1. IsFiniteSet(OfSource(s))
    BY SourcesFinite
<1>2. \A S \in SUBSET OfSource(s) :
          Sums(credit', OfSource(s))[S]
              = Sums(credit, OfSource(s))[S] + IF t \in S THEN n ELSE 0
    BY <1>1, SumsRise
<1> QED
    BY <1>2, CreditIsSum

\* What is stored for t is stored for its source, and for no other.
LEMMA CreditRises ==
    ASSUME IInv, NEW t \in InTx, NEW n \in Nat, credit' = [credit EXCEPT ![t] = @ + n], NEW s
    PROVE  CreditOf(s)' = CreditOf(s) + IF Origin[t] = s THEN n ELSE 0
<1>1. \A x \in OfSource(s) : credit[x] \in Nat
    BY AllTyped DEF OfSource
<1>2. \A x \in OfSource(s) : credit'[x] = IF x = t THEN credit[x] + n ELSE credit[x]
    BY AllTyped DEF OfSource
<1>3. t \in OfSource(s) <=> Origin[t] = s
    BY DEF OfSource
<1>4. CreditOf(s)' = CreditOf(s) + IF t \in OfSource(s) THEN n ELSE 0
    BY <1>1, <1>2, CreditGrows
<1> QED
    BY <1>3, <1>4

-----------------------------------------------------------------------------
(* While no answer is lost: every request the mint still has is one that a *)
(* lane waits for, and what is issued is stored, gone elsewhere or in the  *)
(* hand of a lane.                                                         *)

Waits(l) == inJob[l].pc = "wait"
InHand(l) ==
    \/ inJob[l].pc = "commit"
    \/ inJob[l].pc = "wait" /\ inJob[l].answer = "ok"
HandOf(l, s) == IF InHand(l) /\ inJob[l].src = s THEN inJob[l].n ELSE 0

IndicesFresh ==
    /\ \A i \in DOMAIN answered : i < inDerived
    /\ \A w \in inNet : w.index < inDerived /\ w.index \notin DOMAIN answered
    /\ \A l \in Lanes : Waits(l) => inJob[l].index < inDerived
    /\ \A l, m \in Lanes :
           Waits(l) /\ Waits(m) /\ inJob[l].index = inJob[m].index => l = m
    /\ \A w \in inNet : \E l \in Lanes :
           Waits(l) /\ inJob[l].answer = "none" /\ InWire(inJob[l]) = w

Balanced ==
    \A s \in Source :
        ledger[s].issued = ledger[s].elsewhere + CreditOf(s) + HandOf("queue", s)
                             + HandOf("screen", s)

CalmInv == inFaults = 0 => IndicesFresh /\ Balanced

\* A lane is not concerned: neither before nor after has it a request under way.
Unmoved(l) ==
    \/ inJob'[l] = inJob[l]
    \/ inJob[l].pc \notin {"wait", "commit"} /\ inJob'[l].pc \notin {"wait", "commit"}

LEMMA HandsStay ==
    ASSUME NEW l, Unmoved(l)
    PROVE  /\ \A s : HandOf(l, s)' = HandOf(l, s)
           /\ Waits(l)' <=> Waits(l)
           /\ Waits(l)' => inJob'[l] = inJob[l]
BY DEF Unmoved, HandOf, InHand, Waits

LEMMA CalmStays ==
    ASSUME IInv, CalmInv, UNCHANGED <<ledger, credit, inNet, answered, inDerived, inFaults>>,
           \A l \in Lanes : Unmoved(l)
    PROVE  CalmInv'
<1> SUFFICES ASSUME inFaults = 0 PROVE IndicesFresh' /\ Balanced'
    BY DEF CalmInv
<1>1. IndicesFresh /\ Balanced
    BY DEF CalmInv
<1>2. \A l \in Lanes : (Waits(l)' <=> Waits(l)) /\ (Waits(l)' => inJob'[l] = inJob[l])
    BY HandsStay
<1>3. IndicesFresh'
    <2>1. (\A i \in DOMAIN answered : i < inDerived)'
        BY <1>1 DEF IndicesFresh
    <2>2. (\A w \in inNet : w.index < inDerived /\ w.index \notin DOMAIN answered)'
        BY <1>1 DEF IndicesFresh
    <2>3. (\A l \in Lanes : Waits(l) => inJob[l].index < inDerived)'
        BY <1>1, <1>2 DEF IndicesFresh
    <2>4. (\A l, m \in Lanes :
              Waits(l) /\ Waits(m) /\ inJob[l].index = inJob[m].index => l = m)'
        BY <1>1, <1>2 DEF IndicesFresh
    <2>5. (\A w \in inNet : \E l \in Lanes :
              Waits(l) /\ inJob[l].answer = "none" /\ InWire(inJob[l]) = w)'
        BY <1>1, <1>2 DEF IndicesFresh, InWire
    <2> QED
        BY <2>1, <2>2, <2>3, <2>4, <2>5 DEF IndicesFresh
<1>4. Balanced'
    <2>1. "queue" \in Lanes /\ "screen" \in Lanes
        BY DEF Lanes
    <2>2. \A s : HandOf("queue", s)' = HandOf("queue", s)
        BY <2>1, HandsStay
    <2>3. \A s : HandOf("screen", s)' = HandOf("screen", s)
        BY <2>1, HandsStay
    <2>4. \A s : CreditOf(s)' = CreditOf(s)
        BY CreditStays
    <2> QED
        BY <1>1, <2>2, <2>3, <2>4 DEF Balanced
<1> QED
    BY <1>3, <1>4

LEMMA LaneUnmoved ==
    ASSUME IInv, NEW l \in Lanes, NEW k, Enter(l, k),
           inJob[l].pc \notin {"wait", "commit"}, k.pc \notin {"wait", "commit"}
    PROVE  \A m \in Lanes : Unmoved(m)
BY AllTyped DEF Enter, Unmoved

LEMMA LanesUnmoved ==
    ASSUME inJob' = inJob
    PROVE  \A m \in Lanes : Unmoved(m)
BY DEF Unmoved

LEMMA HandsTyped ==
    ASSUME IInv
    PROVE  \A l \in Lanes : \A s : HandOf(l, s) \in Nat
BY LanesTyped DEF HandOf, JobRecord

\* A request goes out with an index nothing was derived from.
LEMMA CallIsFresh ==
    ASSUME IInv, NEW l \in Lanes, CallForOutputs(l)
    PROVE  LET k == inJob'[l] IN
           /\ inJob' = [inJob EXCEPT ![l] = k]
           /\ k \in JobRecord /\ k.pc = "wait" /\ k.answer = "none"
           /\ inDerived <= k.index /\ inDerived' = k.index + 1
           /\ inNet' = inNet \cup {InWire(k)}
           /\ inJob[l].pc = "call"
<1> DEFINE j == inJob[l]
           base == IF j.healed THEN inCounter + InHealStep ELSE inCounter
           start == Max({inDerived, base})
           k == [j EXCEPT !.pc = "wait", !.index = start, !.answer = "none"]
<1>1. /\ inJob' = [inJob EXCEPT ![l] = k] /\ j.pc = "call"
      /\ inDerived' = start + 1 /\ inNet' = inNet \cup {InWire(k)}
    BY DEF CallForOutputs, Enter, At
<1>2. base \in Int /\ inDerived \in Int /\ inDerived \in Nat
    BY AllTyped, IncomingAssumptions
<1> HIDE DEF base
<1>3. start \in Nat /\ inDerived <= start
    <2>1. start \in Int /\ start >= inDerived
        BY <1>2, MaxOfTwo
    <2> QED
        BY <1>2, <2>1
<1> HIDE DEF start
<1>4. k \in JobRecord /\ k.pc = "wait" /\ k.answer = "none" /\ k.index = start
    BY <1>3, LanesTyped DEF JobRecord
<1> HIDE DEF k
<1>5. inJob'[l] = k
    BY <1>1, <1>4, LaneSet
<1> QED
    BY <1>1, <1>3, <1>4, <1>5

LEMMA CallIsCalm ==
    ASSUME IInv, CalmInv, NEW l \in Lanes, CallForOutputs(l)
    PROVE  CalmInv'
<1>1. UNCHANGED <<ledger, credit, answered, inFaults>>
    BY DEF CallForOutputs, restVars
<1> SUFFICES ASSUME inFaults = 0 PROVE IndicesFresh' /\ Balanced'
    BY <1>1 DEF CalmInv
<1>2. IndicesFresh /\ Balanced
    BY DEF CalmInv
<1>3. PICK k \in JobRecord :
          /\ inJob' = [inJob EXCEPT ![l] = k] /\ k.pc = "wait" /\ k.answer = "none"
          /\ inDerived <= k.index /\ inDerived' = k.index + 1
          /\ inNet' = inNet \cup {InWire(k)} /\ inJob[l].pc = "call"
    BY CallIsFresh
<1>4. /\ inJob'[l] = k /\ \A m \in Lanes \ {l} : inJob'[m] = inJob[m]
    BY <1>3, LaneSet
<1>5. k.index \in Nat /\ inDerived \in Nat /\ inDerived < inDerived' /\ k.index < inDerived'
    BY <1>3, AllTyped DEF JobRecord
<1>6. \A i \in Nat : i < inDerived => i < inDerived' /\ i # k.index
    BY <1>3, <1>5
<1>7. \A m \in Lanes : inJob[m].index \in Nat
    BY LanesTyped DEF JobRecord
<1>8. IndicesFresh'
    <2>1. (\A i \in DOMAIN answered : i < inDerived)'
        BY <1>1, <1>2, <1>6 DEF IndicesFresh, IInv, Types, MintTypes
    <2>2. (\A w \in inNet : w.index < inDerived /\ w.index \notin DOMAIN answered)'
        <3> SUFFICES ASSUME NEW w \in inNet'
                     PROVE  w.index < inDerived' /\ w.index \notin DOMAIN answered
            BY <1>1
        <3>1. CASE w \in inNet
            BY <1>2, <1>6, <3>1, AllTyped DEF IndicesFresh
        <3>2. CASE w = InWire(k)
            <4>1. w.index = k.index
                BY <3>2 DEF InWire
            <4> QED
                BY <1>2, <1>3, <1>5, <1>6, <4>1 DEF IndicesFresh, IInv, Types, MintTypes
        <3> QED
            BY <1>3, <3>1, <3>2
    <2>3. (\A m \in Lanes : Waits(m) => inJob[m].index < inDerived)'
        BY <1>2, <1>4, <1>5, <1>6, <1>7 DEF IndicesFresh, Waits
    <2>4. (\A m, n \in Lanes :
              Waits(m) /\ Waits(n) /\ inJob[m].index = inJob[n].index => m = n)'
        <3>1. \A m \in Lanes \ {l} : Waits(m)' => inJob'[m].index # k.index
            BY <1>2, <1>4, <1>6, <1>7 DEF IndicesFresh, Waits
        <3> QED
            BY <1>2, <1>4, <3>1 DEF IndicesFresh, Waits
    <2>5. (\A w \in inNet : \E m \in Lanes :
              Waits(m) /\ inJob[m].answer = "none" /\ InWire(inJob[m]) = w)'
        <3> SUFFICES ASSUME NEW w \in inNet'
                     PROVE  \E m \in Lanes : /\ inJob'[m].pc = "wait" /\ inJob'[m].answer = "none"
                                             /\ InWire(inJob'[m]) = w
            BY DEF Waits, InWire
        <3>1. CASE w \in inNet
            <4>1. PICK m \in Lanes :
                      Waits(m) /\ inJob[m].answer = "none" /\ InWire(inJob[m]) = w
                BY <1>2, <3>1 DEF IndicesFresh
            <4>2. m # l
                BY <1>3, <4>1 DEF Waits
            <4> QED
                BY <1>4, <4>1, <4>2 DEF Waits
        <3>2. CASE w = InWire(k)
            BY <1>3, <1>4, <3>2
        <3> QED
            BY <1>3, <3>1, <3>2
    <2> QED
        BY <2>1, <2>2, <2>3, <2>4, <2>5 DEF IndicesFresh
<1>9. \A m \in Lanes, s \in Source : HandOf(m, s)' = HandOf(m, s)
    BY <1>3, <1>4 DEF HandOf, InHand
<1>10. Balanced'
    BY <1>1, <1>2, <1>9, CreditStays DEF Balanced, Lanes
<1> QED
    BY <1>8, <1>10

\* A lane stops waiting without another request going out.
LEMMA FewerWait ==
    ASSUME IInv, IndicesFresh, UNCHANGED <<answered, inDerived, inNet>>, NEW l \in Lanes,
           inJob' = [inJob EXCEPT ![l] = inJob'[l]],
           ~(Waits(l)'), Waits(l) => inJob[l].answer # "none"
    PROVE  IndicesFresh'
<1>1. \A m \in Lanes \ {l} : inJob'[m] = inJob[m]
    BY AllTyped
<1>2. (\A i \in DOMAIN answered : i < inDerived)'
    BY DEF IndicesFresh
<1>3. (\A w \in inNet : w.index < inDerived /\ w.index \notin DOMAIN answered)'
    BY DEF IndicesFresh
<1>4. (\A m \in Lanes : Waits(m) => inJob[m].index < inDerived)'
    BY <1>1 DEF IndicesFresh, Waits
<1>5. (\A m, n \in Lanes :
          Waits(m) /\ Waits(n) /\ inJob[m].index = inJob[n].index => m = n)'
    BY <1>1 DEF IndicesFresh, Waits
<1>6. (\A w \in inNet : \E m \in Lanes :
          Waits(m) /\ inJob[m].answer = "none" /\ InWire(inJob[m]) = w)'
    <2> SUFFICES ASSUME NEW w \in inNet
                 PROVE  \E m \in Lanes : /\ inJob'[m].pc = "wait" /\ inJob'[m].answer = "none"
                                         /\ InWire(inJob'[m]) = w
        BY DEF Waits, InWire
    <2>1. PICK m \in Lanes : Waits(m) /\ inJob[m].answer = "none" /\ InWire(inJob[m]) = w
        BY DEF IndicesFresh
    <2> QED
        BY <1>1, <2>1 DEF Waits
<1> QED
    BY <1>2, <1>3, <1>4, <1>5, <1>6 DEF IndicesFresh

\* A refusal: nothing was issued for it.
LEMMA RefusalIsCalm ==
    ASSUME IInv, CalmInv, NEW l \in Lanes, MintRefuses(l)
    PROVE  CalmInv'
<1>1. UNCHANGED <<ledger, credit, answered, inFaults, inNet, inDerived>>
    BY DEF MintRefuses, restVars, drawVars, mintSide
<1> SUFFICES ASSUME inFaults = 0 PROVE IndicesFresh' /\ Balanced'
    BY <1>1 DEF CalmInv
<1>2. IndicesFresh /\ Balanced
    BY DEF CalmInv
<1>3. inJob[l].pc = "wait" /\ inJob[l].answer \in {"signed", "spent"}
    BY DEF MintRefuses, At
<1>4. PICK k : inJob' = [inJob EXCEPT ![l] = k] /\ k.pc \in {"call", "idle"}
    <2>1. CASE inJob[l].answer = "signed" /\ ~inJob[l].healed /\ inJob[l].kind # "retry"
        <3>1. inJob' = [inJob EXCEPT ![l] = [inJob[l] EXCEPT !.pc = "call", !.healed = TRUE]]
            BY <2>1 DEF MintRefuses, Enter
        <3>2. [inJob[l] EXCEPT !.pc = "call", !.healed = TRUE].pc = "call"
            BY LanesTyped DEF JobRecord
        <3> QED
            BY <3>1, <3>2
    <2>2. CASE ~(inJob[l].answer = "signed" /\ ~inJob[l].healed /\ inJob[l].kind # "retry")
        <3>1. GiveUp(l)
            BY <2>2, Zenon DEF MintRefuses
        <3>2. inJob' = [inJob EXCEPT ![l] = NoJob] /\ NoJob.pc = "idle"
            BY <3>1 DEF GiveUp, Leave, Enter, NoJob, Job
        <3> QED
            BY <3>2
    <2> QED
        BY <2>1, <2>2
<1>5. inJob'[l] = k /\ \A m \in Lanes \ {l} : inJob'[m] = inJob[m]
    BY <1>4, AllTyped
<1>6. IndicesFresh'
    <2>1. ~(Waits(l)')
        BY <1>4, <1>5 DEF Waits
    <2>2. inJob' = [inJob EXCEPT ![l] = inJob'[l]]
        BY <1>4, <1>5
    <2> QED
        BY <1>1, <1>2, <1>3, <2>1, <2>2, FewerWait
<1>7. \A m \in Lanes, s \in Source : HandOf(m, s)' = HandOf(m, s)
    BY <1>3, <1>4, <1>5 DEF HandOf, InHand
<1>8. Balanced'
    BY <1>1, <1>2, <1>7, CreditStays DEF Balanced, Lanes
<1> QED
    BY <1>6, <1>8

\* The answer: what was issued is still in the lane's hand.
LEMMA AnswerIsCalm ==
    ASSUME IInv, CalmInv, NEW l \in Lanes, AnswerArrives(l)
    PROVE  CalmInv'
<1>1. UNCHANGED <<ledger, credit, answered, inFaults, inNet, inDerived>>
    BY DEF AnswerArrives, restVars, mintSide
<1> SUFFICES ASSUME inFaults = 0 PROVE IndicesFresh' /\ Balanced'
    BY <1>1 DEF CalmInv
<1>2. IndicesFresh /\ Balanced
    BY DEF CalmInv
<1>3. /\ inJob[l].pc = "wait" /\ inJob[l].answer = "ok"
      /\ inJob' = [inJob EXCEPT ![l] = [inJob[l] EXCEPT !.pc = "commit"]]
    BY DEF AnswerArrives, At, Enter
<1>4. /\ inJob'[l].pc = "commit" /\ inJob'[l].src = inJob[l].src /\ inJob'[l].n = inJob[l].n
      /\ \A m \in Lanes \ {l} : inJob'[m] = inJob[m]
      /\ inJob' = [inJob EXCEPT ![l] = inJob'[l]]
    BY <1>3, LanesTyped, AllTyped DEF JobRecord
<1>5. IndicesFresh'
    BY <1>1, <1>2, <1>3, <1>4, FewerWait DEF Waits
<1>6. \A m \in Lanes, s \in Source : HandOf(m, s)' = HandOf(m, s)
    BY <1>3, <1>4 DEF HandOf, InHand
<1>7. Balanced'
    BY <1>1, <1>2, <1>6, CreditStays DEF Balanced, Lanes
<1> QED
    BY <1>5, <1>7

\* The commit: from the lane's hand into the books of the same source.
LEMMA CommitIsCalm ==
    ASSUME IInv, CalmInv, NEW l \in Lanes, StoreEcash(l)
    PROVE  CalmInv'
<1> DEFINE j == inJob[l]
<1>1. UNCHANGED <<ledger, answered, inFaults, inNet, inDerived>>
    BY DEF StoreEcash, restVars, mintSide, drawVars
<1> SUFFICES ASSUME inFaults = 0 PROVE IndicesFresh' /\ Balanced'
    BY <1>1 DEF CalmInv
<1>2. IndicesFresh /\ Balanced
    BY DEF CalmInv
<1>3. /\ j \in JobRecord /\ j.pc = "commit" /\ credit' = [credit EXCEPT ![j.tx] = @ + j.n]
    BY LanesTyped DEF StoreEcash, At
<1>4. j.tx \in InTx /\ Origin[j.tx] = j.src /\ j.n \in Nat
    BY <1>3 DEF IInv, JobsFit, QueueFits, ScreenFits, HasTx, Lanes, JobRecord
<1>5. PICK k : inJob' = [inJob EXCEPT ![l] = k] /\ k.pc \in {"raise", "idle"}
    <2>1. CASE j.kind = "check"
        <3>1. inJob' = [inJob EXCEPT ![l] = [j EXCEPT !.pc = "raise"]]
            BY <2>1 DEF StoreEcash, Enter
        <3>2. [j EXCEPT !.pc = "raise"].pc = "raise"
            BY <1>3 DEF JobRecord
        <3> QED
            BY <3>1, <3>2
    <2>2. CASE j.kind # "check"
        <3>1. inJob' = [inJob EXCEPT ![l] = NoJob]
            BY <2>2 DEF StoreEcash, Leave, Enter
        <3>2. NoJob.pc = "idle"
            BY DEF NoJob, Job
        <3> QED
            BY <3>1, <3>2
    <2> QED
        BY <2>1, <2>2
<1>6. inJob'[l] = k /\ \A m \in Lanes \ {l} : inJob'[m] = inJob[m]
    BY <1>5, AllTyped
<1>7. IndicesFresh'
    <2>1. ~(Waits(l)') /\ ~Waits(l)
        BY <1>3, <1>5, <1>6 DEF Waits
    <2>2. inJob' = [inJob EXCEPT ![l] = inJob'[l]]
        BY <1>5, <1>6
    <2> QED
        BY <1>1, <1>2, <2>1, <2>2, FewerWait
<1>8. \A s : /\ HandOf(l, s) = IF j.src = s THEN j.n ELSE 0
             /\ HandOf(l, s)' = 0
    BY <1>3, <1>5, <1>6 DEF HandOf, InHand
<1>9. \A m \in Lanes \ {l} : \A s : HandOf(m, s)' = HandOf(m, s)
    BY <1>6 DEF HandOf, InHand
<1> HIDE DEF j
<1>10. \A s : CreditOf(s)' = CreditOf(s) + HandOf(l, s)
    <2> SUFFICES ASSUME NEW s PROVE CreditOf(s)' = CreditOf(s) + HandOf(l, s)
        OBVIOUS
    <2>1. PICK t \in InTx, n \in Nat :
              credit' = [credit EXCEPT ![t] = @ + n] /\ Origin[t] = j.src /\ n = j.n
        BY <1>3, <1>4
    <2>2. CreditOf(s)' = CreditOf(s) + IF Origin[t] = s THEN n ELSE 0
        BY <2>1, CreditRises
    <2> QED
        BY <1>8, <2>1, <2>2
<1>11. Balanced'
    <2> SUFFICES ASSUME NEW s \in Source
                 PROVE  ledger[s].issued = ledger[s].elsewhere + CreditOf(s)'
                            + HandOf("queue", s)' + HandOf("screen", s)'
        BY <1>1 DEF Balanced
    <2>1. ledger[s].issued = ledger[s].elsewhere + CreditOf(s) + HandOf("queue", s)
                                 + HandOf("screen", s)
        BY <1>2 DEF Balanced
    <2>2. CreditOf(s) \in Nat /\ CreditOf(s)' = CreditOf(s) + HandOf(l, s) /\ HandOf(l, s)' = 0
        BY <1>8, <1>10, CreditTyped
    <2>3. ledger[s].elsewhere \in Nat
        BY AllTyped DEF LedgerRecord
    <2>4. HandOf("queue", s) \in Nat /\ HandOf("screen", s) \in Nat
        BY HandsTyped DEF Lanes
    <2>5. CASE l = "queue"
        <3>1. HandOf("screen", s)' = HandOf("screen", s)
            BY <1>9, <2>5 DEF Lanes
        <3> QED
            BY <2>1, <2>2, <2>3, <2>4, <2>5, <3>1
    <2>6. CASE l = "screen"
        <3>1. HandOf("queue", s)' = HandOf("queue", s)
            BY <1>9, <2>6 DEF Lanes
        <3> QED
            BY <2>1, <2>2, <2>3, <2>4, <2>6, <3>1
    <2> QED
        BY <2>5, <2>6 DEF Lanes
<1> QED
    BY <1>7, <1>11

\* The lanes as the mint leaves them.
LEMMA MintAnswers ==
    ASSUME IInv, IndicesFresh, NEW w \in inNet, MintIssues(w)
    PROVE  \E l \in Lanes :
               /\ Waits(l) /\ inJob[l].answer = "none" /\ InWire(inJob[l]) = w
               /\ inJob'[l] = [inJob[l] EXCEPT !.answer = Verdict(w)]
               /\ \A m \in Lanes \ {l} :
                      inJob'[m] = inJob[m] /\ ~(Waits(m) /\ inJob[m].index = w.index)
<1>1. PICK l \in Lanes : Waits(l) /\ inJob[l].answer = "none" /\ InWire(inJob[l]) = w
    BY DEF IndicesFresh
<1>2. inJob[l].index = w.index
    BY <1>1 DEF InWire
<1>3. \A m \in Lanes \ {l} : ~(Waits(m) /\ inJob[m].index = w.index)
    BY <1>1, <1>2 DEF IndicesFresh
<1>4. inJob' = [m \in Lanes |->
                  IF inJob[m].pc = "wait" /\ inJob[m].index = w.index /\ inJob[m].answer = "none"
                  THEN [inJob[m] EXCEPT !.answer = Verdict(w)] ELSE inJob[m]]
    BY DEF MintIssues
<1>5. inJob'[l] = [inJob[l] EXCEPT !.answer = Verdict(w)]
    BY <1>1, <1>2, <1>4 DEF Waits
<1>6. \A m \in Lanes \ {l} : inJob'[m] = inJob[m]
    BY <1>3, <1>4 DEF Waits
<1> QED
    BY <1>1, <1>3, <1>5, <1>6

\* The mint gets to a request: what it issues is in the hand of the lane that waits for it.
LEMMA MintIsCalm ==
    ASSUME IInv, CalmInv, NEW w \in inNet, MintIssues(w)
    PROVE  CalmInv'
<1>1. UNCHANGED <<credit, inFaults, inDerived>> /\ inNet' = inNet \ {w}
    BY DEF MintIssues, restVars, drawVars, bookVars
<1> SUFFICES ASSUME inFaults = 0 PROVE IndicesFresh' /\ Balanced'
    BY <1>1 DEF CalmInv
<1>2. IndicesFresh /\ Balanced
    BY DEF CalmInv
<1>3. PICK l \in Lanes :
          /\ Waits(l) /\ inJob[l].answer = "none" /\ InWire(inJob[l]) = w
          /\ inJob'[l] = [inJob[l] EXCEPT !.answer = Verdict(w)]
          /\ \A m \in Lanes \ {l} :
                 inJob'[m] = inJob[m] /\ ~(Waits(m) /\ inJob[m].index = w.index)
    BY <1>2, MintAnswers
<1>4. /\ w.src = inJob[l].src /\ w.n = inJob[l].n /\ w.index = inJob[l].index
      /\ w.src \in Source /\ w.n \in Nat /\ w.index \in Nat
    BY <1>3, AllTyped DEF InWire
<1>5. /\ inJob'[l].pc = "wait" /\ inJob'[l].answer = Verdict(w)
      /\ inJob'[l].src = w.src /\ inJob'[l].n = w.n /\ inJob'[l].index = w.index
    BY <1>3, <1>4, LanesTyped DEF JobRecord, Waits
<1>6. \A m \in Lanes : (Waits(m)' <=> Waits(m)) /\ inJob'[m].index = inJob[m].index
    BY <1>3, <1>4, <1>5 DEF Waits
<1>7. w.index \notin DOMAIN answered /\ w.index < inDerived
    BY <1>2 DEF IndicesFresh
<1>8. DOMAIN answered' \subseteq DOMAIN answered \cup {w.index}
    <2>1. CASE Verdict(w) = "ok"
        BY <1>7, <2>1 DEF MintIssues
    <2>2. CASE Verdict(w) # "ok"
        BY <2>2, Zenon DEF MintIssues
    <2> QED
        BY <2>1, <2>2
<1>9. IndicesFresh'
    <2>1. (\A i \in DOMAIN answered : i < inDerived)'
        BY <1>1, <1>2, <1>7, <1>8 DEF IndicesFresh
    <2>2. \A v \in inNet' : \E m \in Lanes \ {l} :
              Waits(m) /\ inJob[m].answer = "none" /\ InWire(inJob[m]) = v
        BY <1>1, <1>2, <1>3 DEF IndicesFresh
    <2>3. (\A v \in inNet : v.index < inDerived /\ v.index \notin DOMAIN answered)'
        <3> SUFFICES ASSUME NEW v \in inNet'
                     PROVE  v.index < inDerived /\ v.index \notin DOMAIN answered'
            BY <1>1
        <3>1. v.index # w.index
            <4>1. PICK m \in Lanes \ {l} : Waits(m) /\ InWire(inJob[m]) = v
                BY <2>2
            <4>2. inJob[m].index # w.index
                BY <1>3, <4>1
            <4> QED
                BY <4>1, <4>2 DEF InWire
        <3> QED
            BY <1>1, <1>2, <1>8, <3>1 DEF IndicesFresh
    <2>4. (\A m \in Lanes : Waits(m) => inJob[m].index < inDerived)'
        BY <1>1, <1>2, <1>6 DEF IndicesFresh
    <2>5. (\A m, n \in Lanes :
              Waits(m) /\ Waits(n) /\ inJob[m].index = inJob[n].index => m = n)'
        BY <1>2, <1>6 DEF IndicesFresh
    <2>6. (\A v \in inNet : \E m \in Lanes :
              Waits(m) /\ inJob[m].answer = "none" /\ InWire(inJob[m]) = v)'
        <3> SUFFICES ASSUME NEW v \in inNet'
                     PROVE  \E m \in Lanes : /\ inJob'[m].pc = "wait" /\ inJob'[m].answer = "none"
                                             /\ InWire(inJob'[m]) = v
            BY DEF Waits, InWire
        <3> QED
            BY <1>3, <2>2 DEF Waits
    <2> QED
        BY <2>1, <2>3, <2>4, <2>5, <2>6 DEF IndicesFresh
<1> DEFINE given == IF Verdict(w) = "ok" THEN w.n ELSE 0
<1>10. \A s \in Source :
           /\ ledger'[s].issued = ledger[s].issued + IF s = w.src THEN given ELSE 0
           /\ ledger'[s].elsewhere = ledger[s].elsewhere
    <2>1. \A s \in Source : ledger[s] \in LedgerRecord
        BY AllTyped
    <2>2. CASE Verdict(w) = "ok"
        <3>1. ledger' = [ledger EXCEPT ![w.src].issued = @ + w.n]
            BY <1>7, <2>2 DEF MintIssues
        <3> QED
            BY <1>4, <2>1, <2>2, <3>1, AllTyped DEF LedgerRecord
    <2>3. CASE Verdict(w) # "ok"
        <3>1. ledger' = ledger
            BY <2>3, Zenon DEF MintIssues
        <3> QED
            BY <2>1, <2>3, <3>1 DEF LedgerRecord
    <2> QED
        BY <2>2, <2>3
<1>11. /\ \A s : HandOf(l, s) = 0
       /\ \A s : HandOf(l, s)' = IF s = w.src THEN given ELSE 0
       /\ \A m \in Lanes \ {l} : \A s : HandOf(m, s)' = HandOf(m, s)
    <2>1. \A s : HandOf(l, s) = 0
        BY <1>3 DEF HandOf, InHand, Waits
    <2>2. \A s : HandOf(l, s)' = IF s = w.src THEN given ELSE 0
        BY <1>5 DEF HandOf, InHand
    <2>3. \A m \in Lanes \ {l} : \A s : HandOf(m, s)' = HandOf(m, s)
        BY <1>3 DEF HandOf, InHand
    <2> QED
        BY <2>1, <2>2, <2>3
<1>12. given \in Nat
    BY <1>4
<1> HIDE DEF given
<1>13. Balanced'
    <2> SUFFICES ASSUME NEW s \in Source
                 PROVE  ledger'[s].issued = ledger'[s].elsewhere + CreditOf(s)'
                            + HandOf("queue", s)' + HandOf("screen", s)'
        BY DEF Balanced
    <2>1. ledger[s].issued = ledger[s].elsewhere + CreditOf(s) + HandOf("queue", s)
                                 + HandOf("screen", s)
        BY <1>2 DEF Balanced
    <2>2. CreditOf(s) \in Nat /\ CreditOf(s)' = CreditOf(s)
        BY <1>1, CreditTyped, CreditStays
    <2>3. ledger[s].elsewhere \in Nat /\ ledger[s].issued \in Nat
        BY AllTyped DEF LedgerRecord
    <2>4. HandOf("queue", s) \in Nat /\ HandOf("screen", s) \in Nat
        BY HandsTyped DEF Lanes
    <2> DEFINE more == IF s = w.src THEN given ELSE 0
    <2>5. /\ more \in Nat /\ HandOf(l, s) = 0 /\ HandOf(l, s)' = more
          /\ ledger'[s].issued = ledger[s].issued + more
          /\ ledger'[s].elsewhere = ledger[s].elsewhere
        BY <1>10, <1>11, <1>12
    <2> HIDE DEF more
    <2>6. CASE l = "queue"
        <3>1. HandOf("screen", s)' = HandOf("screen", s)
            BY <1>11, <2>6 DEF Lanes
        <3> QED
            BY <2>1, <2>2, <2>3, <2>4, <2>5, <2>6, <3>1
    <2>7. CASE l = "screen"
        <3>1. HandOf("queue", s)' = HandOf("queue", s)
            BY <1>11, <2>7 DEF Lanes
        <3> QED
            BY <2>1, <2>2, <2>3, <2>4, <2>5, <2>7, <3>1
    <2> QED
        BY <2>6, <2>7 DEF Lanes
<1> QED
    BY <1>9, <1>13

\* The payer pays, or another device takes what is there: no request of the wallet moves.
LEMMA LedgerIsCalm ==
    ASSUME IInv, CalmInv, NEW s \in Source, Paid(s) \/ TakenElsewhere(s)
    PROVE  CalmInv'
<1>1. UNCHANGED <<credit, inFaults, inDerived, inNet, answered, inJob>>
    BY DEF Paid, TakenElsewhere, bookVars, restVars, drawVars
<1>2. \A r \in Source : ledger[r] \in LedgerRecord
    BY AllTyped
<1>3. \A r \in Source :
          ledger'[r].issued - ledger'[r].elsewhere = ledger[r].issued - ledger[r].elsewhere
    <2>1. CASE Paid(s)
        BY <1>2, <2>1, AllTyped DEF Paid, LedgerRecord
    <2>2. CASE TakenElsewhere(s)
        <3>1. ledger' = [ledger EXCEPT
                  ![s].elsewhere = @ + ledger[s].paid - ledger[s].issued,
                  ![s].issued = ledger[s].paid]
            BY <2>2 DEF TakenElsewhere
        <3>2. /\ ledger'[s].issued = ledger[s].paid
              /\ ledger'[s].elsewhere = ledger[s].elsewhere + ledger[s].paid - ledger[s].issued
              /\ \A r \in Source \ {s} : ledger'[r] = ledger[r]
            BY <1>2, <3>1, AllTyped DEF LedgerRecord
        <3> QED
            BY <1>2, <3>2 DEF LedgerRecord
    <2> QED
        BY <2>1, <2>2
<1>4. \A r \in Source : /\ ledger'[r].issued \in Nat /\ ledger'[r].elsewhere \in Nat
                        /\ ledger[r].issued \in Nat /\ ledger[r].elsewhere \in Nat
    <2>1. \A r \in Source : ledger'[r] \in LedgerRecord
        BY PaidKeeps, TakenElsewhereKeeps DEF IInv, Types, MintTypes
    <2> QED
        BY <1>2, <2>1 DEF LedgerRecord
<1> SUFFICES ASSUME inFaults = 0 PROVE IndicesFresh' /\ Balanced'
    BY <1>1 DEF CalmInv
<1>5. IndicesFresh /\ Balanced
    BY DEF CalmInv
<1>6. IndicesFresh'
    BY <1>1, <1>5 DEF IndicesFresh, Waits, InWire
<1>7. \A m, r : HandOf(m, r)' = HandOf(m, r)
    BY <1>1 DEF HandOf, InHand
<1>8. \A r : CreditOf(r)' = CreditOf(r)
    BY <1>1, CreditStays
<1>9. Balanced'
    <2> SUFFICES ASSUME NEW r \in Source
                 PROVE  ledger'[r].issued = ledger'[r].elsewhere + CreditOf(r)
                            + HandOf("queue", r) + HandOf("screen", r)
        BY <1>7, <1>8 DEF Balanced
    <2>1. ledger[r].issued = ledger[r].elsewhere + CreditOf(r) + HandOf("queue", r)
                                 + HandOf("screen", r)
        BY <1>5 DEF Balanced
    <2>2. /\ CreditOf(r) \in Nat /\ HandOf("queue", r) \in Nat /\ HandOf("screen", r) \in Nat
        BY CreditTyped, HandsTyped DEF Lanes
    <2>3. ledger'[r].issued - ledger'[r].elsewhere = ledger[r].issued - ledger[r].elsewhere
        BY <1>3
    <2>4. /\ ledger'[r].issued \in Nat /\ ledger'[r].elsewhere \in Nat
          /\ ledger[r].issued \in Nat /\ ledger[r].elsewhere \in Nat
        BY <1>4
    <2> QED
        BY <2>1, <2>2, <2>3, <2>4
<1> QED
    BY <1>6, <1>9

\* Every step that no request of a lane has a part in.
LEMMA QuietIsCalm ==
    ASSUME IInv, CalmInv, UNCHANGED inJob,
           UNCHANGED <<ledger, credit, inNet, answered, inDerived, inFaults>>
    PROVE  CalmInv'
BY LanesUnmoved, CalmStays

LEMMA LaneIsCalm ==
    ASSUME IInv, CalmInv, UNCHANGED <<ledger, credit, inNet, answered, inDerived, inFaults>>,
           NEW l \in Lanes, NEW k, UNCHANGED inJob \/ Enter(l, k),
           inJob[l].pc \notin {"wait", "commit"}, k.pc \notin {"wait", "commit"}
    PROVE  CalmInv'
BY LanesUnmoved, LaneUnmoved, CalmStays

\* A task starts in an idle lane, and has not called the mint yet.
LEMMA StartsAreCalm ==
    ASSUME IInv, CalmInv,
           \/ TaskStart
           \/ \E t \in InTx : StartRecover(t)
    PROVE  CalmInv'
<1>1. /\ NoJob.pc = "idle"
      /\ \A kind, t, s, pc : Job(kind, t, s, pc).pc = pc
      /\ \A kind, t, s, pc, n : [Job(kind, t, s, pc) EXCEPT !.n = n].pc = pc
    BY DEF NoJob, Job
<1>2. "queue" \in Lanes /\ "screen" \in Lanes
    BY DEF Lanes
<1>3. ASSUME NEW l \in Lanes, Idle(l), NEW k, UNCHANGED inJob \/ Enter(l, k),
             k.pc \in {"open", "quote", "ask", "call"},
             UNCHANGED <<ledger, credit, inNet, answered, inDerived, inFaults>>
      PROVE  CalmInv'
    BY <1>1, <1>3, LaneIsCalm DEF Idle
<1>4. ASSUME NEW t \in InTx, StartReceive(t) PROVE CalmInv'
    <2>1. UNCHANGED <<ledger, credit, inNet, answered, inDerived, inFaults>> /\ Idle("queue")
        BY <1>4 DEF StartReceive, Take, bookVars, drawVars, mintSide, restVars
    <2> DEFINE k == Job("receive", t, Origin[t], "open")
    <2>2. UNCHANGED inJob \/ Enter("queue", k)
        BY <1>4 DEF StartReceive
    <2>3. k.pc = "open"
        BY <1>1
    <2> HIDE DEF k
    <2> QED
        BY <1>2, <1>3, <2>1, <2>2, <2>3
<1>5. ASSUME NEW t \in InTx, StartOffline(t) \/ StartRequest(t) \/ SweepInDrop(t)
      PROVE  CalmInv'
    <2>1. UNCHANGED <<ledger, credit, inNet, answered, inDerived, inFaults, inJob>>
        BY <1>5 DEF StartOffline, StartRequest, SweepInDrop, bookVars, drawVars, mintSide, restVars
    <2> QED
        BY <2>1, QuietIsCalm
<1>6. ASSUME NEW t \in InTx, StartComplete(t) PROVE CalmInv'
    <2>1. UNCHANGED <<ledger, credit, inNet, answered, inDerived, inFaults>> /\ Idle("queue")
        BY <1>6 DEF StartComplete, Take, bookVars, drawVars, mintSide, restVars
    <2> DEFINE k == Job("complete", t, Origin[t], "open")
    <2>2. UNCHANGED inJob \/ Enter("queue", k)
        BY <1>6 DEF StartComplete
    <2>3. k.pc = "open"
        BY <1>1
    <2> HIDE DEF k
    <2> QED
        BY <1>2, <1>3, <2>1, <2>2, <2>3
<1>7. ASSUME NEW t \in InTx, StartPayload(t) PROVE CalmInv'
    <2>1. UNCHANGED <<ledger, credit, inNet, answered, inDerived, inFaults>> /\ Idle("queue")
        BY <1>7 DEF StartPayload, Take, bookVars, drawVars, mintSide, restVars
    <2> DEFINE k == [Job("payload", t, Origin[t], "call") EXCEPT !.n = MaxPaid[Origin[t]]]
    <2>2. UNCHANGED inJob \/ Enter("queue", k)
        <3>1. CASE inStatus[t] = "COMPLETED"
            BY <1>7, <3>1, Zenon DEF StartPayload
        <3>2. CASE inStatus[t] \notin {"COMPLETED", "PENDING"}
            BY <1>7, <3>2, Zenon DEF StartPayload
        <3>3. CASE inStatus[t] = "PENDING"
            <4>1. inStatus[t] # "COMPLETED" /\ ~(inStatus[t] \notin {"COMPLETED", "PENDING"})
                BY <3>3
            <4> QED
                BY <1>7, <4>1, Zenon DEF StartPayload
        <3> QED
            BY <3>1, <3>2, <3>3
    <2>3. k.pc = "call"
        BY <1>1
    <2> HIDE DEF k
    <2> QED
        BY <1>2, <1>3, <2>1, <2>2, <2>3
<1>8. ASSUME NEW t \in InTx, StartQuote(t) PROVE CalmInv'
    <2>1. UNCHANGED <<ledger, credit, inNet, answered, inDerived, inFaults>> /\ Idle("queue")
        BY <1>8 DEF StartQuote, Take, bookVars, drawVars, mintSide, restVars
    <2> DEFINE k == Job(InKind[t], t, Origin[t], "quote")
    <2>2. Enter("queue", k)
        BY <1>8 DEF StartQuote
    <2>3. k.pc = "quote"
        BY <1>1
    <2> HIDE DEF k
    <2> QED
        BY <1>2, <1>3, <2>1, <2>2, <2>3
<1>9. ASSUME NEW t \in InTx, StartRefresh(t) PROVE CalmInv'
    <2>1. UNCHANGED <<ledger, credit, inNet, answered, inDerived, inFaults>> /\ Idle("queue")
        BY <1>9 DEF StartRefresh, Take, bookVars, drawVars, mintSide, restVars
    <2> DEFINE k == Job("refresh", t, Origin[t], "ask")
    <2>2. UNCHANGED inJob \/ Enter("queue", k)
        BY <1>9 DEF StartRefresh
    <2>3. k.pc = "ask"
        BY <1>1
    <2> HIDE DEF k
    <2> QED
        BY <1>2, <1>3, <2>1, <2>2, <2>3
<1>10. ASSUME NEW t \in InTx, SweepInRetry(t) PROVE CalmInv'
    <2>1. UNCHANGED <<ledger, credit, inNet, answered, inDerived, inFaults>> /\ Idle("queue")
        BY <1>10 DEF SweepInRetry, bookVars, drawVars, mintSide, restVars
    <2> DEFINE k == [Job("retry", t, Origin[t], "call") EXCEPT !.n = inRows[t]]
    <2>2. Enter("queue", k)
        BY <1>10 DEF SweepInRetry
    <2>3. k.pc = "call"
        BY <1>1
    <2> HIDE DEF k
    <2> QED
        BY <1>2, <1>3, <2>1, <2>2, <2>3
<1>11. ASSUME NEW s \in Source, StartCheck(s) PROVE CalmInv'
    <2>1. UNCHANGED <<ledger, credit, inNet, answered, inDerived, inFaults>> /\ Idle("queue")
        BY <1>11 DEF StartCheck, Take, bookVars, drawVars, mintSide, restVars
    <2> DEFINE k == Job("check", "none", s, "ask")
    <2>2. Enter("queue", k)
        BY <1>11 DEF StartCheck
    <2>3. k.pc = "ask"
        BY <1>1
    <2> HIDE DEF k
    <2> QED
        BY <1>2, <1>3, <2>1, <2>2, <2>3
<1>12. ASSUME NEW t \in InTx, StartRecover(t) PROVE CalmInv'
    <2>1. UNCHANGED <<ledger, credit, inNet, answered, inDerived, inFaults>> /\ Idle("screen")
        BY <1>12 DEF StartRecover, bookVars, drawVars, mintSide, restVars
    <2> DEFINE k == Job("recover", t, Origin[t], "ask")
    <2>2. Enter("screen", k)
        BY <1>12 DEF StartRecover
    <2>3. k.pc = "ask"
        BY <1>1
    <2> HIDE DEF k
    <2> QED
        BY <1>2, <1>3, <2>1, <2>2, <2>3
<1> QED
    BY <1>4, <1>5, <1>6, <1>7, <1>8, <1>9, <1>10, <1>11, <1>12 DEF TaskStart

\* A task goes on without calling the mint for ecash.
LEMMA TasksAreCalm ==
    ASSUME IInv, CalmInv,
           \/ OpenToken \/ QuoteCreated \/ QuoteRefused \/ Refreshed \/ Checked \/ RaiseRow
           \/ Recovered
           \/ \E l \in Lanes : MintTells(l)
    PROVE  CalmInv'
<1>1. NoJob.pc = "idle"
    BY DEF NoJob, Job
<1>2. "queue" \in Lanes /\ "screen" \in Lanes
    BY DEF Lanes
<1>3. ASSUME NEW l \in Lanes, inJob[l].pc \in {"open", "quote", "ask", "told", "raise"},
             NEW k, Enter(l, k), k.pc \in {"idle", "call", "told"},
             UNCHANGED <<ledger, credit, inNet, answered, inDerived, inFaults>>
      PROVE  CalmInv'
    BY <1>3, LaneIsCalm
<1>4. ASSUME NEW l \in Lanes, inJob[l].pc \in {"open", "quote", "ask", "told", "raise"}, Leave(l),
             UNCHANGED <<ledger, credit, inNet, answered, inDerived, inFaults>>
      PROVE  CalmInv'
    BY <1>1, <1>3, <1>4 DEF Leave
<1>5. \A l \in Lanes : inJob[l] \in JobRecord
    BY LanesTyped
<1>6. CASE OpenToken
    <2>1. UNCHANGED <<ledger, credit, inNet, answered, inDerived, inFaults>>
        BY <1>6 DEF OpenToken, bookVars, drawVars, mintSide, restVars
    <2> DEFINE k == [inJob["queue"] EXCEPT !.pc = "call", !.n = MaxPaid[inJob["queue"].src]]
    <2>2. inJob["queue"].pc = "open" /\ (Enter("queue", k) \/ Leave("queue"))
        BY <1>6 DEF OpenToken, At
    <2>3. k.pc = "call"
        BY <1>2, <1>5 DEF JobRecord
    <2> HIDE DEF k
    <2> QED
        BY <1>2, <1>3, <1>4, <2>1, <2>2, <2>3
<1>7. CASE QuoteCreated
    <2>1. UNCHANGED <<ledger, credit, inNet, answered, inDerived, inFaults>>
        BY <1>7 DEF QuoteCreated, drawVars, mintSide, restVars
    <2>2. inJob["queue"].pc = "quote" /\ Leave("queue")
        BY <1>7 DEF QuoteCreated, At
    <2> QED
        BY <1>2, <1>4, <2>1, <2>2
<1>8. CASE QuoteRefused
    <2>1. UNCHANGED <<ledger, credit, inNet, answered, inDerived, inFaults>>
        BY <1>8 DEF QuoteRefused, bookVars, drawVars, mintSide, restVars
    <2>2. inJob["queue"].pc = "quote" /\ Leave("queue")
        BY <1>8 DEF QuoteRefused, At
    <2> QED
        BY <1>2, <1>4, <2>1, <2>2
<1>9. CASE Refreshed
    <2>1. UNCHANGED <<ledger, credit, inNet, answered, inDerived, inFaults>>
        BY <1>9 DEF Refreshed, drawVars, mintSide, restVars
    <2> DEFINE k == [inJob["queue"] EXCEPT !.pc = "call", !.n = MaxPaid[inJob["queue"].src]]
    <2>2. inJob["queue"].pc = "told" /\ (Enter("queue", k) \/ Leave("queue"))
        BY <1>9 DEF Refreshed, At
    <2>3. k.pc = "call"
        BY <1>2, <1>5 DEF JobRecord
    <2> HIDE DEF k
    <2> QED
        BY <1>2, <1>3, <1>4, <2>1, <2>2, <2>3
<1>10. CASE Checked
    <2>1. UNCHANGED <<ledger, credit, inNet, answered, inDerived, inFaults>>
        BY <1>10 DEF Checked, drawVars, mintSide, restVars
    <2>2. inJob["queue"].pc = "told"
        BY <1>10 DEF Checked, At
    <2>3. \/ Leave("queue")
          \/ \E t, n : Enter("queue", [inJob["queue"] EXCEPT !.pc = "call", !.tx = t, !.n = n])
        BY <1>10 DEF Checked
    <2>4. \A t, n : [inJob["queue"] EXCEPT !.pc = "call", !.tx = t, !.n = n].pc = "call"
        BY <1>2, <1>5 DEF JobRecord
    <2>5. ASSUME NEW t, NEW n,
                 Enter("queue", [inJob["queue"] EXCEPT !.pc = "call", !.tx = t, !.n = n])
          PROVE  CalmInv'
        BY <1>2, <1>3, <2>1, <2>2, <2>4, <2>5
    <2> QED
        BY <1>2, <1>4, <2>1, <2>2, <2>3, <2>5
<1>11. CASE RaiseRow
    <2>1. UNCHANGED <<ledger, credit, inNet, answered, inDerived, inFaults>>
        BY <1>11 DEF RaiseRow, drawVars, mintSide, restVars
    <2>2. inJob["queue"].pc = "raise" /\ Leave("queue")
        BY <1>11 DEF RaiseRow, At
    <2> QED
        BY <1>2, <1>4, <2>1, <2>2
<1>12. CASE Recovered
    <2>1. UNCHANGED <<ledger, credit, inNet, answered, inDerived, inFaults>>
        BY <1>12 DEF Recovered, bookVars, drawVars, mintSide, restVars
    <2> DEFINE k == [inJob["screen"] EXCEPT !.pc = "call", !.n = MaxPaid[inJob["screen"].src]]
    <2>2. inJob["screen"].pc = "told" /\ (Enter("screen", k) \/ Leave("screen"))
        BY <1>12 DEF Recovered, At
    <2>3. k.pc = "call"
        BY <1>2, <1>5 DEF JobRecord
    <2> HIDE DEF k
    <2> QED
        BY <1>2, <1>3, <1>4, <2>1, <2>2, <2>3
<1>13. ASSUME NEW l \in Lanes, MintTells(l) PROVE CalmInv'
    <2>1. UNCHANGED <<ledger, credit, inNet, answered, inDerived, inFaults>>
        BY <1>13 DEF MintTells, bookVars, drawVars, mintSide, restVars
    <2> DEFINE k == [inJob[l] EXCEPT !.pc = "told",
                         !.told = [paid |-> ledger[inJob[l].src].paid,
                                   issued |-> ledger[inJob[l].src].issued]]
    <2>2. inJob[l].pc = "ask" /\ Enter(l, k)
        BY <1>13 DEF MintTells, At
    <2>3. k.pc = "told"
        BY <1>5 DEF JobRecord
    <2> HIDE DEF k
    <2> QED
        BY <1>3, <2>1, <2>2, <2>3
<1> QED
    BY <1>6, <1>7, <1>8, <1>9, <1>10, <1>11, <1>12, <1>13

\* The user, the watchers, time: nothing but the queue and the watchers changes.
LEMMA OthersAreCalm ==
    ASSUME IInv, CalmInv,
           \/ \E t : \/ AskIncoming(t) \/ OpenDetail(t) \/ LeaveDetail(t) \/ AskComplete(t)
                     \/ SocketPaid(t) \/ PollerEnds(t) \/ SweepPending(t) \/ Delivered(t)
                     \/ TimeOut(t) \/ SweepQuotes(t) \/ AskCheck(t)
           \/ BlockMint
    PROVE  CalmInv'
<1>1. UNCHANGED <<ledger, credit, inNet, answered, inDerived, inFaults, inJob>>
    <2>1. CASE BlockMint
        BY <2>1 DEF BlockMint, bookVars, drawVars, mintSide
    <2>2. CASE \E t : AskIncoming(t) \/ AskComplete(t) \/ SocketPaid(t) \/ PollerEnds(t)
                      \/ SweepPending(t) \/ Delivered(t)
        BY <2>2 DEF AskIncoming, AskComplete, SocketPaid, PollerEnds, SweepPending, Delivered,
                    bookVars, drawVars, mintSide, restVars
    <2>3. CASE \E t : OpenDetail(t) \/ LeaveDetail(t)
        BY <2>3 DEF OpenDetail, LeaveDetail, drawVars, mintSide, restVars
    <2>4. CASE \E t : TimeOut(t) \/ SweepQuotes(t) \/ AskCheck(t)
        BY <2>4 DEF TimeOut, SweepQuotes, AskCheck, bookVars, drawVars, mintSide, restVars
    <2> QED
        BY <2>1, <2>2, <2>3, <2>4
<1> QED
    BY <1>1, QuietIsCalm

\* An answer lost and a restart count; then nothing is claimed.
LEMMA FaultsAreCounted ==
    ASSUME IInv, RestartIncoming \/ \E l \in Lanes : MintSilent(l) \/ AnswerLost(l)
    PROVE  CalmInv'
<1>1. inFaults' = inFaults + 1 /\ inFaults \in Nat
    BY AllTyped DEF RestartIncoming, MintSilent, AnswerLost
<1> QED
    BY <1>1 DEF CalmInv

LEMMA CalmStarts == IncomingInit => CalmInv
<1> SUFFICES ASSUME IncomingInit PROVE CalmInv
    OBVIOUS
<1>1. inJob["queue"] = NoJob /\ inJob["screen"] = NoJob /\ NoJob.pc = "idle"
    BY DEF IncomingInit, Lanes, NoJob, Job
<1>2. IndicesFresh
    BY <1>1 DEF IncomingInit, IndicesFresh, Waits, Lanes
<1>3. \A s : HandOf("queue", s) = 0 /\ HandOf("screen", s) = 0
    BY <1>1 DEF HandOf, InHand
<1>4. \A s : CreditOf(s) = 0
    <2> SUFFICES ASSUME NEW s PROVE CreditOf(s) = 0
        OBVIOUS
    <2>1. \A x \in OfSource(s) : credit[x] = 0
        BY DEF IncomingInit, OfSource
    <2>2. \A S \in SUBSET OfSource(s) : Sums(credit, OfSource(s))[S] = 0
        BY <2>1, SourcesFinite, SumsVanish
    <2> QED
        BY <2>2, CreditIsSum
<1>5. \A s \in Source : ledger[s].issued = 0 /\ ledger[s].elsewhere = 0
    BY DEF IncomingInit
<1> QED
    BY <1>2, <1>3, <1>4, <1>5 DEF CalmInv, Balanced

LEMMA CalmKeeps == IInv /\ CalmInv /\ [IncomingNext]_incomingVars => CalmInv'
<1> SUFFICES ASSUME IInv, CalmInv, [IncomingNext]_incomingVars PROVE CalmInv'
    OBVIOUS
<1>1. CASE UNCHANGED incomingVars
    BY <1>1, QuietIsCalm DEF incomingVars
<1>2. ASSUME NEW l \in Lanes, LaneStep(l) PROVE CalmInv'
    BY <1>2, TasksAreCalm, CallIsCalm, RefusalIsCalm, AnswerIsCalm, CommitIsCalm DEF LaneStep
<1>3. CASE QueueStep \/ ScreenStep
    BY <1>2, <1>3, TasksAreCalm DEF QueueStep, ScreenStep, Lanes
<1>4. CASE UserStep \/ TaskStart
    <2>1. session.txs \subseteq InTx
        BY IncomingAssumptions DEF IInv, Types, RestTypes
    <2> QED
        BY <1>4, <2>1, StartsAreCalm, OthersAreCalm DEF UserStep
<1>5. CASE Watching
    BY <1>5, OthersAreCalm DEF Watching
<1>6. CASE Outside
    <2>1. Concerned \subseteq Source
        BY IncomingAssumptions DEF Concerned, IInv, Types, RestTypes
    <2> QED
        BY <1>6, <2>1, FaultsAreCounted, OthersAreCalm, LedgerIsCalm, MintIsCalm DEF Outside
<1> QED
    BY <1>1, <1>3, <1>4, <1>5, <1>6 DEF IncomingNext

\* As long as no answer is lost and the process lives, ecash that was issued is in the books,
\* went elsewhere, or is in the hand of a task.
THEOREM CalmInvariance == IncomingSpec => []CalmInv
<1>1. IncomingInit => CalmInv
    BY CalmStarts
<1>2. IInv /\ CalmInv /\ [IncomingNext]_incomingVars => CalmInv'
    BY CalmKeeps
<1> QED
    BY <1>1, <1>2, IncomingInvariance, PTL DEF IncomingSpec

\* As long as no answer is lost and the process lives, what the mint issued for a source
\* is in the books or went elsewhere, once no request of it is under way.
THEOREM IssuedAlways == IncomingSpec => []IssuedIsCredited
<1>1. IInv /\ CalmInv => IssuedIsCredited
    <2> SUFFICES ASSUME IInv, CalmInv, NEW s \in Source, inFaults = 0, ~Moving(s)
                 PROVE  ledger[s].issued = ledger[s].elsewhere + CreditOf(s)
        BY DEF IssuedIsCredited
    <2>1. HandOf("queue", s) = 0 /\ HandOf("screen", s) = 0
        BY DEF HandOf, InHand, Moving, Lanes
    <2>2. ledger[s].issued = ledger[s].elsewhere + CreditOf(s) + HandOf("queue", s)
                                 + HandOf("screen", s)
        BY DEF CalmInv, Balanced
    <2>3. ledger[s].elsewhere \in Nat /\ CreditOf(s) \in Nat
        BY AllTyped, CreditTyped DEF LedgerRecord
    <2> QED
        BY <2>1, <2>2, <2>3
<1> QED
    BY <1>1, IncomingInvariance, CalmInvariance, PTL
=============================================================================
