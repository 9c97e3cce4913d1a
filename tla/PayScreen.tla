------------------------------- MODULE PayScreen -------------------------------
(***************************************************************************)
(* TransferScreen: paying one lightning invoice from the screen.           *)
(*                                                                         *)
(* The screen fetches a melt quote from the chosen mint, offers "Pay now", *)
(* and may offer it again after a result was dismissed.  Each tap is a     *)
(* payment: a transferTask in the queue.  TransferLifecycle has the task   *)
(* in full; here it is what the screen can tell apart, with the one thing  *)
(* TransferLifecycle leaves out: several payments of ONE quote.            *)
(***************************************************************************)
EXTENDS Integers, Sequences

CONSTANTS
    Payer, FirstPayer,  \* mints to pay from, and the one chosen at first
    PayCases,           \* how the screen is opened, and what the run allows: quotes, and slips,
                        \* which are lost answers, failed checks, outputs signed before
    MaxPayments         \* payments begun

ASSUME PayScreenAssumptions ==
    /\ FirstPayer \in Payer /\ "none" \notin Payer /\ "invoice" \notin Payer
    /\ PayCases \subseteq [scanned : BOOLEAN, quotes : Nat, slips : Nat] /\ MaxPayments \in Nat

VARIABLES
    screen,     \* the reducer's state, with what the screen waits for
    payments,   \* what was begun, in order
    quotes,     \* the mints' quotes for the invoice: state, and the payment that holds it
    left        \* quotes and slips that are left

payVars == <<screen, payments, quotes, left>>

Slip == left.slips > 0 /\ left' = [left EXCEPT !.slips = @ - 1]

\* An invoice that was scanned is quoted at once; an lnurl needs one first.
PayInit ==
    /\ left \in PayCases
    /\ screen = [open |-> TRUE, asks |-> IF left.scanned THEN FirstPayer ELSE "none",
                 from |-> FirstPayer, invoice |-> left.scanned, loading |-> left.scanned, quote |-> 0,
                 result |-> "none", shows |-> 0, modal |-> FALSE, waits |-> 0, monitored |-> 0]
    /\ payments = <<>> /\ quotes = <<>>

\* The loading overlay and the modal take every tap.
CanTap == screen.open /\ ~screen.loading /\ ~screen.modal /\ screen.result # "COMPLETED"

-----------------------------------------------------------------------------
(* Invoice and quote.                                                      *)

RequestInvoice ==
    /\ CanTap /\ ~screen.invoice
    /\ screen' = [screen EXCEPT !.loading = TRUE, !.asks = "invoice"]
    /\ UNCHANGED <<payments, quotes, left>>

InvoiceArrives ==
    /\ screen.asks = "invoice"
    /\ screen' = [screen EXCEPT !.invoice = TRUE, !.asks = screen.from]
    /\ UNCHANGED <<payments, quotes, left>>

\* No invoice, or no balance in the unit.
NoInvoice ==
    /\ screen.asks = "invoice"
    /\ screen' = [screen EXCEPT !.loading = FALSE, !.asks = "none"]
    /\ UNCHANGED <<payments, quotes, left>>

QuoteReady ==
    /\ screen.asks \in Payer /\ left.quotes > 0
    /\ left' = [left EXCEPT !.quotes = @ - 1]
    /\ quotes' = Append(quotes, [mint |-> screen.asks, state |-> "UNPAID", by |-> 0])
    /\ screen' = [screen EXCEPT !.loading = FALSE, !.asks = "none", !.quote = Len(quotes')]
    /\ UNCHANGED payments

\* The request failed or the balance is too small: the quote before it stays in the state.
NoQuote ==
    /\ screen.asks \in Payer
    /\ screen' = [screen EXCEPT !.loading = FALSE, !.asks = "none"]
    /\ UNCHANGED <<payments, quotes, left>>

\* onMintBalanceSelect: the ref is cleared, the quote in the state is not.
SelectPayer(m) ==
    /\ CanTap /\ screen.quote # 0 /\ m # screen.from
    /\ screen' = [screen EXCEPT !.from = m, !.asks = m, !.loading = TRUE]
    /\ UNCHANGED <<payments, quotes, left>>

-----------------------------------------------------------------------------
(* Paying.                                                                 *)

Payment(m, q) ==
    [from |-> m, quote |-> q, at |-> "queued", status |-> "none", ecash |-> "none",
     reserved |-> FALSE, taken |-> FALSE, signed |-> FALSE]

BeginPayment ==
    /\ Len(payments) < MaxPayments
    /\ payments' = Append(payments, Payment(screen.from, screen.quote))
    /\ screen' = [screen EXCEPT !.loading = TRUE, !.modal = FALSE, !.waits = Len(payments')]
    /\ UNCHANGED <<quotes, left>>

\* The selector is there whenever a quote has been ready and nothing was completed.
PayNow == CanTap /\ screen.quote # 0 /\ BeginPayment

\* The modal of an error that can be healed.
RetryAgain ==
    /\ screen.modal /\ screen.result = "ERROR" /\ screen.shows # 0
    /\ payments[screen.shows].signed
    /\ BeginPayment

\* Back button, backdrop, or the close button of a failed payment.
DismissResult ==
    /\ screen.modal
    /\ screen' = [screen EXCEPT !.modal = FALSE]
    /\ UNCHANGED <<payments, quotes, left>>

\* gotoWallet, gotoContacts, or back: requests and results no longer matter, payments go on.
LeavePayScreen ==
    /\ screen.open
    /\ screen' = [screen EXCEPT !.open = FALSE, !.modal = FALSE, !.loading = FALSE, !.asks = "none",
                     !.result = "none", !.shows = 0, !.waits = 0, !.monitored = 0]
    /\ UNCHANGED <<payments, quotes, left>>

\* Mutant: whatever comes without an error is taken for paid.
ResultShownAsPaid(n) ==
    /\ screen.waits = n /\ payments[n].at = "ended"
    /\ LET s == payments[n].status
       IN  screen' = [screen EXCEPT !.loading = FALSE, !.waits = 0, !.modal = TRUE,
                         !.result = CASE s = "none" -> "ERROR" [] s = "PENDING" -> "COMPLETED"
                                      [] OTHER -> s,
                         !.shows = IF s = "none" THEN 0 ELSE n]
    /\ UNCHANGED <<payments, quotes, left>>

\* handleTransferTaskResult: a payment that is still under way is listened for.
ResultShown(n) ==
    /\ screen.waits = n /\ payments[n].at = "ended"
    /\ LET s == payments[n].status
       IN  screen' = [screen EXCEPT !.loading = FALSE, !.waits = 0, !.modal = TRUE,
                         !.result = IF s = "none" THEN "ERROR" ELSE s,
                         !.shows = IF s = "none" THEN 0 ELSE n,
                         !.monitored = IF s = "PENDING" THEN n ELSE @]
    /\ UNCHANGED <<payments, quotes, left>>

\* The call times out; the task keeps its place and the result is not heard.
ResultTimesOut ==
    /\ screen.waits # 0 /\ payments[screen.waits].at # "ended"
    /\ screen' = [screen EXCEPT !.loading = FALSE, !.waits = 0]
    /\ UNCHANGED <<payments, quotes, left>>

\* ev_asyncMeltResult, for whoever listens.
Told(n, s) ==
    screen' = IF screen.monitored = n THEN [screen EXCEPT !.result = s, !.monitored = 0] ELSE screen

-----------------------------------------------------------------------------
(* The task, its mint and the network.                                     *)

Is(n, at) == n \in DOMAIN payments /\ payments[n].at = at
Foreign(n) == quotes[payments[n].quote].mint # payments[n].from
QuoteSays(n) == quotes[payments[n].quote].state

\* prepare asks nothing about payments of the same quote.
Prepare(n) ==
    /\ Is(n, "queued") /\ \A k \in DOMAIN payments : payments[k].at \in {"queued", "ended"}
    /\ \/ payments' = [payments EXCEPT ![n].at = "ended"]
       \/ payments' = [payments EXCEPT ![n] = [@ EXCEPT !.at = "sent", !.status = "EXECUTING",
                                                        !.ecash = "PENDING", !.reserved = TRUE]]
    /\ UNCHANGED <<screen, quotes, left>>

MintTakes(n) ==
    /\ Is(n, "sent") /\ ~Foreign(n) /\ QuoteSays(n) = "UNPAID"
    /\ payments' = [payments EXCEPT ![n].at = "taken"]
    /\ quotes' = [quotes EXCEPT ![payments[n].quote] = [@ EXCEPT !.state = "PENDING", !.by = n]]
    /\ UNCHANGED <<screen, left>>

\* A quote of another mint, or one that is pending or paid already.
MintRefusesMelt(n) ==
    /\ Is(n, "sent") /\ (Foreign(n) \/ QuoteSays(n) # "UNPAID")
    /\ payments' = [payments EXCEPT ![n].at = "recheck"]
    /\ UNCHANGED <<screen, quotes, left>>

OutputsSigned(n) ==
    /\ Is(n, "sent") /\ Slip
    /\ payments' = [payments EXCEPT ![n] = [@ EXCEPT !.at = "recheck", !.signed = TRUE]]
    /\ UNCHANGED <<screen, quotes>>

MeltAnswerLost(n) ==
    /\ (Is(n, "sent") \/ Is(n, "taken")) /\ Slip
    /\ payments' = [payments EXCEPT ![n].at = "recheck"]
    /\ UNCHANGED <<screen, quotes>>

\* The payee is paid once, whichever mint pays.
NetworkPays(q) ==
    /\ quotes[q].state = "PENDING" /\ \A k \in DOMAIN quotes : quotes[k].state # "PAID"
    /\ quotes' = [quotes EXCEPT ![q].state = "PAID"]
    /\ payments' = [payments EXCEPT ![quotes[q].by].taken = TRUE]
    /\ UNCHANGED <<screen, left>>

NetworkFails(q) ==
    /\ quotes[q].state = "PENDING"
    /\ quotes' = [quotes EXCEPT ![q].state = "UNPAID"]
    /\ UNCHANGED <<screen, payments, left>>

Ends(n, status, ecash, reserved) ==
    payments' = [payments EXCEPT ![n] = [@ EXCEPT !.at = "ended", !.status = status,
                                                  !.ecash = ecash, !.reserved = reserved]]

\* execute with the mint's answer.
SettleMelt(n) ==
    /\ Is(n, "taken")
    /\ \/ QuoteSays(n) = "PAID" /\ Ends(n, "COMPLETED", "SPENT", FALSE)
       \/ QuoteSays(n) = "PENDING" /\ Ends(n, "PENDING", "PENDING", FALSE)
       \/ QuoteSays(n) = "UNPAID" /\ Ends(n, "ERROR", "UNSPENT", FALSE)
    /\ UNCHANGED <<screen, quotes, left>>

\* Mutant: the quote is looked up at the mint it came from.
HandleErrorAtIssuer(n) ==
    /\ Is(n, "recheck")
    /\ \/ QuoteSays(n) = "PAID" /\ Ends(n, "RECOVERED", "SPENT", FALSE)
       \/ QuoteSays(n) = "PENDING" /\ Ends(n, "ERROR", "PENDING", FALSE)
       \/ QuoteSays(n) = "UNPAID" /\ Ends(n, "ERROR", "UNSPENT", FALSE)
    /\ UNCHANGED <<screen, quotes, left>>

\* _handleExecuteError asks the mint of the transaction for the quote, and believes that a
\* quote which is paid or pending was this payment's; then transferTask's catch.
HandleError(n) ==
    /\ Is(n, "recheck") /\ ~Foreign(n)
    /\ \/ QuoteSays(n) = "PAID" /\ Ends(n, "RECOVERED", "SPENT", FALSE)
       \/ QuoteSays(n) = "PENDING" /\ Ends(n, "ERROR", "PENDING", FALSE)
       \/ QuoteSays(n) = "UNPAID" /\ Ends(n, "ERROR", "UNSPENT", FALSE)
    /\ UNCHANGED <<screen, quotes, left>>

\* The quote is not known there, or the check fails: the reservation stays.
HandleErrorFails(n) ==
    /\ Is(n, "recheck")
    /\ IF Foreign(n) THEN UNCHANGED left ELSE Slip
    /\ Ends(n, "ERROR", "PENDING", TRUE)
    /\ UNCHANGED <<screen, quotes>>

-----------------------------------------------------------------------------
(* After the task.                                                         *)

\* refresh, by the monitor or by a sync: the listener is told.
MeltRefreshed(n) ==
    /\ Is(n, "ended") /\ payments[n].status = "PENDING"
    /\ \/ QuoteSays(n) = "PAID" /\ Ends(n, "COMPLETED", "SPENT", FALSE) /\ Told(n, "COMPLETED")
       \/ QuoteSays(n) = "UNPAID" /\ Ends(n, "REVERTED", "UNSPENT", FALSE) /\ Told(n, "REVERTED")
    /\ UNCHANGED <<quotes, left>>

\* A sync finds the inputs spent; finalize takes a PENDING transfer only, and tells nobody.
SyncFinds(n) ==
    /\ Is(n, "ended") /\ payments[n].taken /\ payments[n].ecash = "PENDING"
    /\ LET s == payments[n].status
       IN  Ends(n, IF s = "PENDING" THEN "COMPLETED" ELSE s, "SPENT", payments[n].reserved)
    /\ UNCHANGED <<screen, quotes, left>>

-----------------------------------------------------------------------------
\* A task that ends resolves the call it was made by before anything else runs.
ResultIsIn == screen.waits # 0 /\ payments[screen.waits].at = "ended"

PayNext ==
    \/ \E n \in DOMAIN payments : ResultShown(n)
    \/ /\ ~ResultIsIn
       /\ \/ RequestInvoice \/ InvoiceArrives \/ NoInvoice \/ QuoteReady \/ NoQuote
          \/ \E m \in Payer : SelectPayer(m)
          \/ PayNow \/ RetryAgain \/ DismissResult \/ LeavePayScreen \/ ResultTimesOut
          \/ \E n \in DOMAIN payments :
              \/ Prepare(n) \/ MintTakes(n) \/ MintRefusesMelt(n) \/ OutputsSigned(n)
              \/ MeltAnswerLost(n) \/ SettleMelt(n) \/ HandleError(n) \/ HandleErrorFails(n)
              \/ MeltRefreshed(n) \/ SyncFinds(n)
          \/ \E q \in DOMAIN quotes : NetworkPays(q) \/ NetworkFails(q)

PaySpec == PayInit /\ [][PayNext]_payVars

-----------------------------------------------------------------------------
(* Properties.                                                             *)

InvoiceIsPaid == \E q \in DOMAIN quotes : quotes[q].state = "PAID"

\* TransferScreen shows COMPLETED, and stops offering "Pay now", only if a mint has paid the
\* invoice: through results that come late or for another of the payments, through
\* payments that fail after one that is under way.
CompletedShownIsPaid == screen.result = "COMPLETED" => InvoiceIsPaid

\* A quote that was left from the mint before the switch (TransferScreen.tsx,
\* onMintBalanceSelect) pays nothing at the new mint, so it must not cost ecash there,
\* although the quote may be paid, or be under way, where it came from.
ForeignQuoteCostsNothing ==
    \A n \in DOMAIN payments :
        quotes[payments[n].quote].mint # payments[n].from => payments[n].ecash # "SPENT"

\* _handleExecuteError: "we re-check the quote and choose the right cleanup path".  Ecash is
\* written off only if the mint has taken it.
WrittenOffIsTaken ==
    \A n \in DOMAIN payments : payments[n].ecash = "SPENT" => payments[n].taken
===============================================================================
