--------------------------- MODULE IncomingLifecycle ---------------------------
(***************************************************************************)
(* Ecash coming in: receiveTask and its offline and payment-request forms  *)
(* over ReceiveOperationApi and CashuPaymentRequestApi, lightning topups   *)
(* (TopupOperationApi), onchain topups (OnchainTopupOperationApi), the     *)
(* recovery of a mint quote, and the in-flight sweep's incoming branches.  *)
(*                                                                         *)
(* What can be turned into ecash is a source: a token, or a mint quote.    *)
(* The mint knows how much of it is paid and how much is issued; redeeming *)
(* a token and minting a quote are the same step to it.  Amounts count     *)
(* deposits, and a request derives its outputs from one derivation index.  *)
(*                                                                         *)
(* Tasks run one at a time in the lane "queue" (syncQueueService); the     *)
(* recovery of a quote runs in the lane "screen", outside the queue.       *)
(***************************************************************************)
EXTENDS Integers, FiniteSets, FiniteSetsExt, SequencesExt

CONSTANTS
    Source,         \* tokens and mint quotes
    MaxPaid,        \* Source -> bound: what will ever be paid to it
    InTx,           \* the transactions the wallet may make
    InKind,         \* InTx -> receive, offline, request, topup, deposit, recover
    Origin,         \* InTx -> its source
    Sessions,       \* bound: the transactions one run may make, and its faults
    MintCap,        \* max_amount of the mint's onchain method
    InHealStep,     \* increaseCounterBy of the healing retry
    MaxInIndex      \* bound: derivation indices explored

ASSUME IncomingAssumptions ==
    /\ MaxPaid \in [Source -> Nat \ {0}] /\ Origin \in [InTx -> Source]
    /\ InKind \in [InTx -> {"receive", "offline", "request", "topup", "deposit",
                            "recover"}]
    /\ \A s \in Source : IsFiniteSet({t \in InTx : Origin[t] = s})
    /\ \A w \in Sessions : w.txs \subseteq InTx /\ w.faults \in Nat
    /\ MintCap \in Nat \ {0} /\ InHealStep \in Nat \ {0}
    /\ MaxInIndex \in Nat

VARIABLES
    session,    \* what this run does: one of Sessions
    inStatus,   \* transactions table: InTx -> TransactionStatus
    noted,      \* topups completed with the note 'Already issued'
    credit,     \* InTx -> ecash its commit stored
    fullToken,  \* offline receives whose inputToken is in memory in full
    inRows,     \* in_flight_requests: InTx -> the amount asked, 0 for no row
    quoteRow,   \* onchain_mint_quotes: Source -> [paid, issued], if it has a row
    made,       \* Source -> the onchain transactions carrying its quote, oldest first
    inJob,      \* lane -> the running task
    inTodo,     \* tasks waiting in the queue
    polled,     \* topups with a poller (no web socket)
    socketed,   \* topups with a web socket subscription
    timedOut,   \* topups past their invoice's expiry, sources past watchUntil
    inCounter,  \* derivation counter, in memory and on disk
    inDerived,  \* cashu-ts's own counter, alive as long as the process
    ledger,     \* mint: Source -> [paid, issued, elsewhere]
    inNet,      \* requests the mint may still process
    answered,   \* mint: index -> the request it signed for it
    mintBlocked,\* has the user blocked the mint?
    inFaults    \* lost answers, failed queries and restarts so far

incomingVars == <<session, inStatus, noted, credit, fullToken, inRows, quoteRow, made, inJob,
                  inTodo, polled, socketed, timedOut, inCounter, inDerived, ledger,
                  inNet, answered, mintBlocked, inFaults>>

NoQuoteRow == [paid |-> -1, issued |-> 0]
Job(kind, t, s, pc) == [kind |-> kind, tx |-> t, src |-> s, pc |-> pc, n |-> 0,
                        index |-> 0, healed |-> FALSE, answer |-> "none",
                        told |-> [paid |-> 0, issued |-> 0]]
NoJob == Job("idle", "none", "none", "idle")

Lanes == {"queue", "screen"}
ByPayment == {t \in InTx : InKind[t] \in {"topup", "deposit"}}

IncomingInit ==
    /\ session \in Sessions
    /\ inStatus = [t \in InTx |-> "none"]
    /\ noted = {} /\ credit = [t \in InTx |-> 0] /\ fullToken = {}
    /\ inRows = [t \in InTx |-> 0]
    /\ quoteRow = [s \in Source |-> NoQuoteRow]
    /\ made = [s \in Source |-> <<>>]
    /\ inJob = [l \in Lanes |-> NoJob]
    /\ inTodo = {} /\ polled = {} /\ socketed = {} /\ timedOut = {}
    /\ inCounter = 1 /\ inDerived = 1
    /\ ledger = [s \in Source |->
                   [paid |-> IF \E t \in InTx : Origin[t] = s /\ InKind[t] \in
                                 {"topup", "deposit"} THEN 0 ELSE MaxPaid[s],
                    issued |-> 0, elsewhere |-> 0]]
    /\ inNet = {} /\ answered = <<>>
    /\ mintBlocked = FALSE
    /\ inFaults = 0

\* What most actions leave alone, by group.
mintSide  == <<ledger, inNet, answered>>
watchVars == <<polled, socketed, timedOut>>
bookVars  == <<noted, credit, fullToken, inRows, quoteRow, made>>
drawVars  == <<inCounter, inDerived>>
restVars  == <<session, mintBlocked, inFaults>>

Idle(l) == inJob[l] = NoJob
At(l, pc) == inJob[l].pc = pc
Enter(l, j) == inJob' = [inJob EXCEPT ![l] = j]
Leave(l) == Enter(l, NoJob)
Mark(t, st) == inStatus' = [inStatus EXCEPT ![t] = st]

\* A task leaves the queue and starts.
Take(task) == Idle("queue") /\ task \in inTodo /\ inTodo' = inTodo \ {task}

------------------------------------------------------------------------------
(* The user and the queue.                                                 *)

Want(kind, of) ==
    /\ [kind |-> kind, of |-> of] \notin inTodo
    /\ inTodo' = inTodo \cup {[kind |-> kind, of |-> of]}

\* Receive, receive offline, request a payment, top up: once per transaction.
AskIncoming(t) ==
    /\ t \in session.txs /\ inStatus[t] = "none" /\ InKind[t] # "recover"
    /\ InKind[t] = "deposit" => \A u \in InTx :
           Origin[u] = Origin[t] => inStatus[u] = "none" /\ [kind |-> "deposit", of |-> u] \notin inTodo
    /\ inJob["queue"].tx # t
    /\ Want(InKind[t], t)
    /\ UNCHANGED <<inStatus, bookVars, inJob, watchVars, drawVars, mintSide, restVars>>

\* TranDetailScreen shows an offline receive: the full token is loaded from SQLite;
\* when the screen goes, the token in memory is cut to 40 characters.
OpenDetail(t) ==
    /\ inStatus[t] = "PREPARED_OFFLINE" /\ t \notin fullToken
    /\ fullToken' = fullToken \cup {t}
    /\ UNCHANGED <<inStatus, noted, credit, inRows, quoteRow, made, inJob, inTodo,
                   watchVars, drawVars, mintSide, restVars>>

LeaveDetail(t) ==
    /\ t \in fullToken
    /\ fullToken' = fullToken \ {t}
    /\ UNCHANGED <<inStatus, noted, credit, inRows, quoteRow, made, inJob, inTodo,
                   watchVars, drawVars, mintSide, restVars>>

\* Its button. The awaitable may time out and the button come back while the task
\* still waits or runs, so it can be pressed again.
AskComplete(t) ==
    /\ inStatus[t] = "PREPARED_OFFLINE" /\ t \in fullToken
    /\ Want("complete", t)
    /\ UNCHANGED <<inStatus, bookVars, inJob, watchVars, drawVars, mintSide, restVars>>

\* Blocking the mint: topups do not ask, so only the receives of a run are worth it.
BlockMint ==
    /\ \E t \in session.txs : InKind[t] \in {"receive", "offline", "request"}
    /\ ~mintBlocked /\ mintBlocked' = TRUE
    /\ UNCHANGED <<inStatus, bookVars, inJob, inTodo, watchVars, drawVars, mintSide,
                   session, inFaults>>

------------------------------------------------------------------------------
(* Receiving a token.                                                      *)

\* _stampErrorIfNeeded: everything but ERROR and BLOCKED becomes ERROR.
StampError(t) ==
    inStatus' = [inStatus EXCEPT ![t] = IF @ \in {"ERROR", "BLOCKED"} THEN @ ELSE "ERROR"]

\* receiveTask: DRAFT, then BLOCKED or PREPARED, then on to execute.
StartReceive(t) ==
    /\ Take([kind |-> "receive", of |-> t])
    /\ IF mintBlocked THEN Mark(t, "BLOCKED") /\ UNCHANGED inJob
       ELSE Mark(t, "PREPARED") /\ Enter("queue", Job("receive", t, Origin[t], "open"))
    /\ UNCHANGED <<bookVars, watchVars, drawVars, mintSide, restVars>>

\* receiveOfflinePrepareTask: a token that cannot be verified makes prepare throw, and
\* the task does not know yet which transaction to stamp: it stays a DRAFT.
StartOffline(t) ==
    /\ Take([kind |-> "offline", of |-> t])
    /\ \/ ~mintBlocked /\ \E st \in {"PREPARED_OFFLINE", "DRAFT"} : Mark(t, st)
       \/ mintBlocked /\ Mark(t, "BLOCKED")
    /\ fullToken' = fullToken \cup {t}
    /\ UNCHANGED <<noted, credit, inRows, quoteRow, made, inJob, watchVars, drawVars,
                   mintSide, restVars>>

\* receiveOfflineCompleteTask: reload the token, then execute with its guards.
StartComplete(t) ==
    /\ Take([kind |-> "complete", of |-> t])
    /\ IF t \notin fullToken \/ inStatus[t] # "PREPARED_OFFLINE"
       THEN StampError(t) /\ UNCHANGED inJob
       ELSE IF mintBlocked THEN Mark(t, "BLOCKED") /\ UNCHANGED inJob
       ELSE Enter("queue", Job("complete", t, Origin[t], "open")) /\ UNCHANGED inStatus
    /\ UNCHANGED <<bookVars, watchVars, drawVars, mintSide, restVars>>

\* Adding an unknown mint, decoding with its keysets, the lock of a P2PK token.
OpenToken ==
    /\ At("queue", "open")
    /\ LET j == inJob["queue"] IN
       \/ Enter("queue", [j EXCEPT !.pc = "call", !.n = MaxPaid[j.src]]) /\ UNCHANGED inStatus
       \/ Leave("queue") /\ StampError(j.tx)
    /\ UNCHANGED <<bookVars, inTodo, watchVars, drawVars, mintSide, restVars>>

\* cashuPaymentRequestTask: the request is handed out, the transaction waits.
StartRequest(t) ==
    /\ Take([kind |-> "request", of |-> t])
    /\ Mark(t, "PENDING")
    /\ UNCHANGED <<bookVars, inJob, watchVars, drawVars, mintSide, restVars>>

\* The payload of a request arrives over Nostr, and may arrive again.
Delivered(t) ==
    /\ InKind[t] = "request" /\ inStatus[t] # "none"
    /\ Want("payload", t)
    /\ UNCHANGED <<inStatus, bookVars, inJob, watchVars, drawVars, mintSide, restVars>>

\* Mutant: a completed request is not recognised, and stamped.
StartPayloadAgain(t) ==
    /\ Take([kind |-> "payload", of |-> t])
    /\ IF inStatus[t] # "PENDING" THEN StampError(t) /\ UNCHANGED inJob
       ELSE /\ Enter("queue", [Job("payload", t, Origin[t], "call") EXCEPT
                                   !.n = MaxPaid[Origin[t]]])
            /\ UNCHANGED inStatus
    /\ UNCHANGED <<bookVars, watchVars, drawVars, mintSide, restVars>>

\* receiveByCashuPaymentRequestTask: finalize is idempotent on COMPLETED; a payload of
\* another amount or unit makes it throw.
StartPayload(t) ==
    /\ Take([kind |-> "payload", of |-> t])
    /\ CASE inStatus[t] = "COMPLETED"           -> UNCHANGED <<inStatus, inJob>>
         [] inStatus[t] \notin {"COMPLETED", "PENDING"} -> StampError(t) /\ UNCHANGED inJob
         [] OTHER ->
            \/ StampError(t) /\ UNCHANGED inJob
            \/ mintBlocked /\ Mark(t, "BLOCKED") /\ UNCHANGED inJob
            \/ /\ ~mintBlocked
               /\ Enter("queue", [Job("payload", t, Origin[t], "call") EXCEPT
                                      !.n = MaxPaid[Origin[t]]])
               /\ UNCHANGED inStatus
    /\ UNCHANGED <<bookVars, watchVars, drawVars, mintSide, restVars>>

------------------------------------------------------------------------------
(* Topups: the quote is created, then watched.                             *)

StartQuote(t) ==
    /\ t \in ByPayment
    /\ Take([kind |-> InKind[t], of |-> t])
    /\ Mark(t, "DRAFT")
    /\ Enter("queue", Job(InKind[t], t, Origin[t], "quote"))
    /\ UNCHANGED <<bookVars, watchVars, drawVars, mintSide, restVars>>

\* The mint's quote: PREPARED and, without another await, PENDING. A lightning quote
\* is watched over a web socket, or else a poller; an onchain one gets its row.
QuoteCreated ==
    /\ At("queue", "quote")
    /\ LET j == inJob["queue"] IN
       /\ Mark(j.tx, "PENDING")
       /\ IF j.kind = "topup"
          THEN /\ \/ socketed' = socketed \cup {j.tx} /\ UNCHANGED polled
                  \/ polled' = polled \cup {j.tx} /\ UNCHANGED socketed
               /\ UNCHANGED <<quoteRow, made>>
          ELSE /\ quoteRow' = [quoteRow EXCEPT ![j.src] = [paid |-> 0, issued |-> 0]]
               /\ made' = [made EXCEPT ![j.src] = Append(@, j.tx)]
               /\ UNCHANGED <<socketed, polled>>
    /\ Leave("queue")
    /\ UNCHANGED <<noted, credit, fullToken, inRows, inTodo, timedOut, drawVars,
                   mintSide, restVars>>

\* No quote. Only the onchain path has a try around it: a lightning DRAFT stays.
QuoteRefused ==
    /\ At("queue", "quote")
    /\ IF inJob["queue"].kind = "deposit" THEN Mark(inJob["queue"].tx, "ERROR")
       ELSE UNCHANGED inStatus
    /\ Leave("queue")
    /\ UNCHANGED <<bookVars, inTodo, watchVars, drawVars, mintSide, restVars>>

\* The mint's notification. enqueuePendingTopupCheck does nothing while a poller of
\* that name exists, so the poller's own calls never enqueue anything.
SocketPaid(t) ==
    /\ t \in socketed /\ ledger[Origin[t]].paid > 0
    /\ socketed' = socketed \ {t}
    /\ inTodo' = IF t \in polled THEN inTodo
                 ELSE inTodo \cup {[kind |-> "refresh", of |-> t]}
    /\ UNCHANGED <<inStatus, bookVars, inJob, polled, timedOut, drawVars, mintSide,
                   restVars>>

\* The poller's loop ends by itself after its polls.
PollerEnds(t) ==
    /\ t \in polled /\ polled' = polled \ {t}
    /\ UNCHANGED <<inStatus, bookVars, inJob, inTodo, socketed, timedOut, drawVars,
                   mintSide, restVars>>

\* Mutant: the sweep enqueues only what a web socket would.
SweepPendingIfSocketed(t) ==
    /\ InKind[t] = "topup" /\ inStatus[t] = "PENDING" /\ t \notin polled
    /\ t \in socketed
    /\ Want("refresh", t)
    /\ UNCHANGED <<inStatus, bookVars, inJob, watchVars, drawVars, mintSide, restVars>>

\* handlePendingQueue, run whenever the wallet screen gets the focus: one refresh for
\* every pending lightning topup ...
SweepPending(t) ==
    /\ InKind[t] = "topup" /\ inStatus[t] = "PENDING" /\ t \notin polled
    /\ Want("refresh", t)
    /\ UNCHANGED <<inStatus, bookVars, inJob, watchVars, drawVars, mintSide, restVars>>

\* Mutant: a quote is watched until its first mint.
WatchedUntilMinted(s) == /\ quoteRow[s] # NoQuoteRow
                         /\ quoteRow[s].issued = 0
                         /\ quoteRow[s].paid > 0 \/ s \notin timedOut

\* ... and one check for every onchain quote that still has money to mint, or whose
\* watch window is open and that never had any.
Watched(s) == /\ quoteRow[s] # NoQuoteRow
              /\ \/ quoteRow[s].paid > quoteRow[s].issued
                 \/ quoteRow[s].issued = 0 /\ s \notin timedOut

SweepQuotes(s) ==
    /\ Watched(s)
    /\ Want("check", s)
    /\ UNCHANGED <<inStatus, bookVars, inJob, watchVars, drawVars, mintSide, restVars>>

\* TranDetailScreen's manual check of an onchain quote, watched or not: its watch window
\* starts anew.
AskCheck(s) ==
    /\ quoteRow[s] # NoQuoteRow
    /\ Want("check", s)
    /\ timedOut' = timedOut \ {s}
    /\ UNCHANGED <<inStatus, bookVars, inJob, polled, socketed, drawVars, mintSide, restVars>>

------------------------------------------------------------------------------
(* Asking the mint about a quote, and acting on what it said.              *)

\* refresh looks at a PENDING topup only.  The mint of the topup is in the list of mints, under the
\* url the transaction has: handlePendingTopupTask throws otherwise, before it refreshes, and a mint
\* that is removed or moved is not part of this module.
StartRefresh(t) ==
    /\ Take([kind |-> "refresh", of |-> t])
    /\ IF inStatus[t] = "PENDING" THEN Enter("queue", Job("refresh", t, Origin[t], "ask"))
       ELSE UNCHANGED inJob
    /\ UNCHANGED <<inStatus, bookVars, watchVars, drawVars, mintSide, restVars>>

StartCheck(s) ==
    /\ Take([kind |-> "check", of |-> s])
    /\ Enter("queue", Job("check", "none", s, "ask"))
    /\ UNCHANGED <<inStatus, bookVars, watchVars, drawVars, mintSide, restVars>>

\* recoverMintQuote, from RecoveryOptionsScreen: a quote the user has the id of.
StartRecover(t) ==
    /\ t \in session.txs /\ InKind[t] = "recover" /\ inStatus[t] = "none"
    /\ Idle("screen")
    /\ \E u \in InTx : /\ InKind[u] = "topup" /\ Origin[u] = Origin[t]
                       /\ inStatus[u] \notin {"none", "DRAFT"}
    /\ Enter("screen", Job("recover", t, Origin[t], "ask"))
    /\ UNCHANGED <<inStatus, bookVars, inTodo, watchVars, drawVars, mintSide, restVars>>

MintTells(l) ==
    /\ At(l, "ask")
    /\ Enter(l, [inJob[l] EXCEPT !.pc = "told",
                     !.told = [paid |-> ledger[inJob[l].src].paid,
                               issued |-> ledger[inJob[l].src].issued]])
    /\ UNCHANGED <<inStatus, bookVars, inTodo, watchVars, drawVars, mintSide, restVars>>

MintSilent(l) ==
    /\ At(l, "ask") /\ inFaults < session.faults
    /\ inFaults' = inFaults + 1
    /\ Leave(l)
    /\ UNCHANGED <<inStatus, bookVars, inTodo, watchVars, drawVars, mintSide, session, mintBlocked>>

QuoteState(told) == CASE told.issued > 0 -> "ISSUED"
                      [] told.issued = 0 /\ told.paid > 0 -> "PAID"
                      [] OTHER -> "UNPAID"

Unwatch(t) == polled' = polled \ {t}

\* TopupOperationApi.refresh: expiry counts unless the quote is PAID.
Refreshed ==
    /\ At("queue", "told") /\ inJob["queue"].kind = "refresh"
    /\ LET j == inJob["queue"]
           st == QuoteState(j.told)
       IN \/ /\ j.tx \in timedOut /\ st # "PAID"
             /\ Mark(j.tx, "EXPIRED") /\ Unwatch(j.tx) /\ Leave("queue")
             /\ UNCHANGED noted
          \/ /\ j.tx \notin timedOut /\ st = "UNPAID"
             /\ Leave("queue") /\ UNCHANGED <<inStatus, noted, polled>>
          \/ /\ j.tx \notin timedOut /\ st = "ISSUED"
             /\ Mark(j.tx, "COMPLETED") /\ noted' = noted \cup {j.tx}
             /\ Unwatch(j.tx) /\ Leave("queue")
          \/ /\ st = "PAID"
             /\ Enter("queue", [j EXCEPT !.pc = "call", !.n = MaxPaid[j.src]])
             /\ UNCHANGED <<inStatus, noted, polled>>
    /\ UNCHANGED <<credit, fullToken, inRows, quoteRow, made, inTodo, socketed, timedOut,
                   drawVars, mintSide, restVars>>

\* updateOnchainMintQuoteAmounts: both columns only rise.
Raised(row, p, i) == [paid |-> Max({row.paid, p}), issued |-> Max({row.issued, i})]

\* _findOrCreateTransaction: the quote's newest transaction if it still waits, else a
\* new one, PENDING from the start.
ForDeposit(s, t) ==
    LET last == Last(made[s])
    IN IF inStatus[last] \in {"PENDING", "PREPARED"}
       THEN t = last /\ UNCHANGED <<inStatus, made>>
       ELSE /\ InKind[t] = "deposit" /\ Origin[t] = s /\ inStatus[t] = "none"
            /\ Mark(t, "PENDING")
            /\ made' = [made EXCEPT ![s] = Append(@, t)]

\* refreshQuote and the start of _mintAvailable: at most the mint's cap at a time.
Checked ==
    /\ At("queue", "told") /\ inJob["queue"].kind = "check"
    /\ LET j == inJob["queue"]
           mintable == Max({0, j.told.paid - j.told.issued})
       IN /\ quoteRow' = [quoteRow EXCEPT ![j.src] = Raised(@, j.told.paid, j.told.issued)]
          /\ IF mintable = 0 THEN Leave("queue") /\ UNCHANGED <<inStatus, made>>
             ELSE \E t \in InTx :
                    /\ ForDeposit(j.src, t)
                    /\ Enter("queue", [j EXCEPT !.pc = "call", !.tx = t,
                                                !.n = Min({mintable, MintCap})])
    /\ UNCHANGED <<noted, credit, fullToken, inRows, inTodo, watchVars, drawVars,
                   mintSide, restVars>>

\* recoverMintQuote: only a PAID quote; the amount is its invoice's.
Recovered ==
    /\ At("screen", "told")
    /\ LET j == inJob["screen"] IN
       IF QuoteState(j.told) = "PAID"
       THEN /\ Mark(j.tx, "DRAFT")
            /\ Enter("screen", [j EXCEPT !.pc = "call", !.n = MaxPaid[j.src]])
       ELSE Leave("screen") /\ UNCHANGED inStatus
    /\ UNCHANGED <<bookVars, inTodo, watchVars, drawVars, mintSide, restVars>>

------------------------------------------------------------------------------
(* The in-flight sweep, one request at a time.                             *)

\* Settled transactions are dropped; so are the types the switch does not know:
\* RECEIVE_OFFLINE and RECEIVE_BY_PAYMENT_REQUEST.
SweepInDrop(t) ==
    /\ Idle("queue") /\ inRows[t] > 0
    /\ inStatus[t] \in {"COMPLETED", "REVERTED"} \/ InKind[t] \in {"offline", "request"}
    /\ inRows' = [inRows EXCEPT ![t] = 0]
    /\ UNCHANGED <<inStatus, noted, credit, fullToken, quoteRow, made, inJob, inTodo,
                   watchVars, drawVars, mintSide, restVars>>

SweepInRetry(t) ==
    /\ Idle("queue") /\ inRows[t] > 0
    /\ inStatus[t] \notin {"COMPLETED", "REVERTED"}
    /\ InKind[t] \in {"receive", "topup", "deposit", "recover"}
    /\ Enter("queue", [Job("retry", t, Origin[t], "call") EXCEPT !.n = inRows[t]])
    /\ UNCHANGED <<inStatus, bookVars, inTodo, watchVars, drawVars, mintSide, restVars>>

------------------------------------------------------------------------------
(* WalletStore.receive, mintProofs and mintOnchainProofs: the mint call.   *)

InWire(j) == [tx |-> j.tx, src |-> j.src, n |-> j.n, index |-> j.index]

\* Mutant: cashu-ts has no counter of its own, two calls under way share their outputs.
CallSharingOutputs(l) ==
    /\ At(l, "call")
    /\ LET j     == inJob[l]
           base  == IF j.healed THEN inCounter + InHealStep ELSE inCounter
           k     == [j EXCEPT !.pc = "wait", !.index = base, !.answer = "none"]
       IN /\ base <= MaxInIndex
          /\ inCounter' = base /\ inDerived' = base + 1
          /\ inRows' = IF j.kind = "retry" THEN inRows
                       ELSE [inRows EXCEPT ![j.tx] = j.n]
          /\ Enter(l, k) /\ inNet' = inNet \cup {InWire(k)}
    /\ UNCHANGED <<inStatus, noted, credit, fullToken, quoteRow, made, inTodo,
                   watchVars, ledger, answered, restVars>>

\* Outputs are derived from the larger of the wallet's and cashu-ts's counter, and the
\* request is recorded before it goes out.
CallForOutputs(l) ==
    /\ At(l, "call")
    /\ LET j     == inJob[l]
           base  == IF j.healed THEN inCounter + InHealStep ELSE inCounter
           start == Max({inDerived, base})
           k     == [j EXCEPT !.pc = "wait", !.index = start, !.answer = "none"]
       IN /\ start <= MaxInIndex
          /\ inCounter' = base /\ inDerived' = start + 1
          /\ inRows' = IF j.kind = "retry" THEN inRows
                       ELSE [inRows EXCEPT ![j.tx] = j.n]
          /\ Enter(l, k) /\ inNet' = inNet \cup {InWire(k)}
    /\ UNCHANGED <<inStatus, noted, credit, fullToken, quoteRow, made, inTodo,
                   watchVars, ledger, answered, restVars>>

\* The mint: the same request again gets the same answer (NUT-19), known outputs are
\* refused, and so is more than what is paid and not yet issued.
Verdict(w) ==
    CASE w.index \in DOMAIN answered /\ answered[w.index] = [src |-> w.src, n |-> w.n] -> "ok"
      [] w.index \in DOMAIN answered /\ answered[w.index] # [src |-> w.src, n |-> w.n] -> "signed"
      [] OTHER -> IF ledger[w.src].paid - ledger[w.src].issued >= w.n THEN "ok" ELSE "spent"

MintIssues(w) ==
    /\ w \in inNet
    /\ inNet' = inNet \ {w}
    /\ IF Verdict(w) = "ok" /\ w.index \notin DOMAIN answered
       THEN /\ ledger' = [ledger EXCEPT ![w.src].issued = @ + w.n]
            /\ answered' = [i \in DOMAIN answered \cup {w.index} |->
                              IF i = w.index THEN [src |-> w.src, n |-> w.n] ELSE answered[i]]
       ELSE UNCHANGED <<ledger, answered>>
    /\ inJob' = [l \in Lanes |->
                   IF /\ inJob[l].pc = "wait"
                      /\ inJob[l].index = w.index /\ inJob[l].answer = "none"
                   THEN [inJob[l] EXCEPT !.answer = Verdict(w)] ELSE inJob[l]]
    /\ UNCHANGED <<inStatus, bookVars, inTodo, watchVars, drawVars, restVars>>

\* The tasks that stamp their transaction when the call fails.
Stamping == {"receive", "complete", "payload"}

GiveUp(l) ==
    /\ Leave(l)
    /\ IF inJob[l].kind \in Stamping THEN StampError(inJob[l].tx) ELSE UNCHANGED inStatus

\* A refusal deletes the row. Known outputs are tried once more, further on, except
\* by the sweep.
MintRefuses(l) ==
    /\ At(l, "wait") /\ inJob[l].answer \in {"signed", "spent"}
    /\ inRows' = [inRows EXCEPT ![inJob[l].tx] = 0]
    /\ IF inJob[l].answer = "signed" /\ ~inJob[l].healed /\ inJob[l].kind # "retry"
       THEN Enter(l, [inJob[l] EXCEPT !.pc = "call", !.healed = TRUE]) /\ UNCHANGED inStatus
       ELSE GiveUp(l)
    /\ UNCHANGED <<noted, credit, fullToken, quoteRow, made, inTodo, watchVars, drawVars,
                   mintSide, restVars>>

\* A timeout or a network error keeps the row for the sweep.
AnswerLost(l) ==
    /\ At(l, "wait") /\ inFaults < session.faults
    /\ inFaults' = inFaults + 1
    /\ GiveUp(l)
    /\ UNCHANGED <<bookVars, inTodo, watchVars, drawVars, mintSide, session, mintBlocked>>

\* The answer: the row goes, the counter takes the reserved `next`.
AnswerArrives(l) ==
    /\ At(l, "wait") /\ inJob[l].answer = "ok"
    /\ inRows' = [inRows EXCEPT ![inJob[l].tx] = 0]
    /\ inCounter' = inJob[l].index + 1
    /\ Enter(l, [inJob[l] EXCEPT !.pc = "commit"])
    /\ UNCHANGED <<inStatus, noted, credit, fullToken, quoteRow, made, inTodo, watchVars,
                   inDerived, mintSide, restVars>>

\* reserve([]) and commitReservation: the new proofs and the status in one batch; the
\* status is not read again after the await.
StoreEcash(l) ==
    /\ At(l, "commit")
    /\ LET j == inJob[l] IN
       /\ credit' = [credit EXCEPT ![j.tx] = @ + j.n]
       /\ Mark(j.tx, IF j.kind = "recover" THEN "RECOVERED" ELSE "COMPLETED")
       /\ Unwatch(j.tx)
       /\ IF j.kind = "check" THEN Enter(l, [j EXCEPT !.pc = "raise"]) ELSE Leave(l)
    /\ UNCHANGED <<noted, fullToken, inRows, quoteRow, made, inTodo, socketed, timedOut,
                   drawVars, mintSide, restVars>>

\* The quote's row, after the commit of an onchain mint.
RaiseRow ==
    /\ At("queue", "raise")
    /\ LET j == inJob["queue"] IN
       quoteRow' = [quoteRow EXCEPT ![j.src] = Raised(@, j.told.paid, j.told.issued + j.n)]
    /\ Leave("queue")
    /\ UNCHANGED <<inStatus, noted, credit, fullToken, inRows, made, inTodo, watchVars,
                   drawVars, mintSide, restVars>>

------------------------------------------------------------------------------
(* Around the wallet.                                                      *)

Paid(s) ==
    /\ ledger[s].paid < MaxPaid[s]
    /\ \E t \in ByPayment : Origin[t] = s /\ inStatus[t] \notin {"none", "DRAFT"}
    /\ ledger' = [ledger EXCEPT ![s].paid = @ + 1]
    /\ UNCHANGED <<inStatus, bookVars, inJob, inTodo, watchVars, drawVars, inNet,
                   answered, restVars>>

\* The sender takes a token back, or another device with the seed mints the quote.
TakenElsewhere(s) ==
    /\ ledger[s].paid > ledger[s].issued
    /\ ledger' = [ledger EXCEPT ![s].elsewhere = @ + ledger[s].paid - ledger[s].issued,
                                ![s].issued = ledger[s].paid]
    /\ UNCHANGED <<inStatus, bookVars, inJob, inTodo, watchVars, drawVars, inNet,
                   answered, restVars>>

\* Time passes an invoice's expiry, or a watch window.
TimeOut(x) ==
    /\ x \notin timedOut
    /\ x \in InTx => InKind[x] = "topup" /\ inStatus[x] = "PENDING"
    /\ x \in Source => quoteRow[x] # NoQuoteRow
    /\ timedOut' = timedOut \cup {x}
    /\ UNCHANGED <<inStatus, bookVars, inJob, inTodo, polled, socketed, drawVars,
                   mintSide, restVars>>

\* The process dies and starts again: queue, watchers and cashu's counter are gone.
RestartIncoming ==
    /\ inFaults < session.faults
    /\ inFaults' = inFaults + 1
    /\ inJob' = [l \in Lanes |-> NoJob] /\ inTodo' = {}
    /\ polled' = {} /\ socketed' = {} /\ fullToken' = {}
    /\ inDerived' = inCounter
    /\ UNCHANGED <<inStatus, noted, credit, inRows, quoteRow, made, timedOut, inCounter,
                   mintSide, session, mintBlocked>>

------------------------------------------------------------------------------
UserStep == \E t \in session.txs : \/ AskIncoming(t) \/ OpenDetail(t) \/ LeaveDetail(t)
                                     \/ AskComplete(t) \/ StartRecover(t)

TaskStart == \/ \E t \in InTx : \/ StartReceive(t) \/ StartOffline(t) \/ StartComplete(t)
                                \/ StartRequest(t) \/ StartPayload(t) \/ StartQuote(t)
                                \/ StartRefresh(t) \/ SweepInDrop(t) \/ SweepInRetry(t)
             \/ \E s \in Source : StartCheck(s)

\* What the task of a lane does next.
LaneStep(l) == \/ MintTells(l) \/ CallForOutputs(l) \/ MintRefuses(l)
               \/ AnswerArrives(l) \/ StoreEcash(l)
QueueStep == \/ OpenToken \/ QuoteCreated \/ QuoteRefused \/ Refreshed \/ Checked
             \/ RaiseRow \/ LaneStep("queue")
ScreenStep == Recovered \/ LaneStep("screen")

\* The mint gets to the request a lane waits for.
MintServes(l) == \E w \in inNet : w.index = inJob[l].index /\ MintIssues(w)

Watching == \/ \E t \in InTx : SocketPaid(t) \/ PollerEnds(t) \/ SweepPending(t)
            \/ \E s \in Source : SweepQuotes(s)

\* Bound: what is about no transaction of this run does not happen.
Concerned == {Origin[t] : t \in session.txs}

Outside == \/ BlockMint \/ RestartIncoming
           \/ \E t \in InTx : Delivered(t)
           \/ \E s \in Concerned : Paid(s) \/ TakenElsewhere(s) \/ AskCheck(s)
           \/ \E x \in session.txs \cup Concerned : TimeOut(x)
           \/ \E w \in inNet : MintIssues(w)
           \/ \E l \in Lanes : MintSilent(l) \/ AnswerLost(l)

IncomingNext == UserStep \/ TaskStart \/ QueueStep \/ ScreenStep \/ Watching \/ Outside

Topups == {t \in InTx : InKind[t] = "topup"}
OnchainQuotes == {Origin[t] : t \in {u \in InTx : InKind[u] = "deposit"}}

\* Both lanes run, the mint processes what reaches it, a poller's loop comes to its end,
\* and the user keeps opening the wallet screen, whose focus effect runs the two sweeps:
\* the queue takes up what they put in it. The user's own taps, the payer, time and
\* faults owe nothing.
IncomingFair ==
    /\ WF_incomingVars(TaskStart) /\ WF_incomingVars(QueueStep)
    /\ WF_incomingVars(ScreenStep)
    /\ \A l \in Lanes : WF_incomingVars(MintServes(l))
    /\ \A t \in Topups : /\ WF_incomingVars(PollerEnds(t))
                         /\ WF_incomingVars(SweepPending(t))
                         /\ SF_incomingVars(StartRefresh(t))
    /\ \A s \in OnchainQuotes : /\ WF_incomingVars(SweepQuotes(s))
                               /\ SF_incomingVars(StartCheck(s))

IncomingSpec == IncomingInit /\ [][IncomingNext]_incomingVars /\ IncomingFair

------------------------------------------------------------------------------
(* Properties.                                                             *)

CreditOf(s) == MapThenSumSet(LAMBDA t : credit[t], {t \in InTx : Origin[t] = s})

\* Ecash that is in the books is reported as received: no later answer, expiry, repeated
\* payload or sweep takes the transaction back. The one that can be taken back is an
\* offline receive, whose completion can be queued twice (see the hazards).
EcashIsReported ==
    \A t \in InTx : credit[t] > 0 =>
        \/ inStatus[t] \in {"COMPLETED", "RECOVERED"}
        \/ InKind[t] = "offline" /\ inStatus[t] = "ERROR"

\* Is a request of this source under way?
Moving(s) == \/ \E w \in inNet : w.src = s
             \/ \E l \in Lanes : /\ inJob[l].src = s
                               /\ inJob[l].pc \in {"wait", "commit"}

\* As long as no answer is lost and the process lives, what the mint issued is in the
\* books or was issued to someone else, whichever of the refresh, the recovery screen,
\* the sweep and the other device came first.
IssuedIsCredited ==
    \A s \in Source : inFaults = 0 /\ ~Moving(s) =>
        ledger[s].issued = ledger[s].elsewhere + CreditOf(s)

\* What was paid is minted: a topup that is paid while it waits does not wait for ever, poller or
\* web socket; money the wallet has seen on an onchain quote is minted, in as many requests as
\* the mint's cap takes, whatever the watch window says.  Lost answers and restarts included; the
\* mint stays in the list of mints, under its url.
PaidIsMinted ==
    /\ \A t \in Topups :
           (inStatus[t] = "PENDING" /\ ledger[Origin[t]].paid > 0 ~> inStatus[t] # "PENDING")
    /\ \A s \in OnchainQuotes :
           quoteRow[s].paid > quoteRow[s].issued ~> quoteRow[s].paid <= quoteRow[s].issued
===============================================================================
