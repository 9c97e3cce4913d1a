---------------------------- MODULE Screens_proofs ----------------------------
(***************************************************************************)
(* The lightning payment screen, for any set of mints, any number of       *)
(* quotes and payments: COMPLETED is shown only for an invoice that was    *)
(* paid, and a quote of another mint costs no ecash.                       *)
(*                                                                         *)
(* Both rest on one fact: only the mint a quote is from takes ecash for    *)
(* it, and a payment is taken for good only when the invoice is paid.      *)
(*                                                                         *)
(* And the NFC payment screen, for any number of flows, dismissals and     *)
(* visits of the scan screen: no second payment without the user.          *)
(*                                                                         *)
(* The screen that sends a token, for any mints, requests and number of    *)
(* calls and deliveries: COMPLETED is shown only of a token that was       *)
(* claimed, and a payment request is paid with one token, on its terms.    *)
(*                                                                         *)
(* One token rests on OneCall: as long as a request may come, a call       *)
(* that waits keeps the overlay up and there is no token.  Only a request  *)
(* that turns out wrong takes the overlay away under a waiting call, and   *)
(* then there is no request to pay.                                        *)
(***************************************************************************)
EXTENDS PayScreen, NfcPay, SendScreen, FiniteSetTheorems, TLAPS

-----------------------------------------------------------------------------
(* The lightning payment screen, and the NFC payment screen.               *)

Status == {"none", "EXECUTING", "PENDING", "COMPLETED", "RECOVERED", "REVERTED", "ERROR"}

PaymentRecord ==
    [from : Payer, quote : Nat, at : {"queued", "sent", "taken", "recheck", "ended"},
     status : Status, ecash : {"none", "UNSPENT", "PENDING", "SPENT"},
     reserved : BOOLEAN, taken : BOOLEAN, signed : BOOLEAN]

QuoteRecord == [mint : Payer, state : {"UNPAID", "PENDING", "PAID"}, by : Nat]

ScreenRecord ==
    [open : BOOLEAN, asks : Payer \cup {"none", "invoice"}, from : Payer, invoice : BOOLEAN,
     loading : BOOLEAN, quote : Nat, result : Status, shows : Nat, modal : BOOLEAN, waits : Nat,
     monitored : Nat]

Shapes ==
    /\ screen \in ScreenRecord
    /\ payments \in Seq(PaymentRecord)
    /\ quotes \in Seq(QuoteRecord)

\* What names a quote or a payment names one that is there.
References ==
    /\ screen.quote # 0 => screen.quote \in DOMAIN quotes
    /\ screen.shows # 0 => screen.shows \in DOMAIN payments
    /\ screen.waits # 0 => screen.waits \in DOMAIN payments
    /\ Len(payments) > 0 => screen.quote # 0
    /\ \A n \in DOMAIN payments : payments[n].quote \in DOMAIN quotes
    /\ \A q \in DOMAIN quotes :
        /\ quotes[q].by # 0 => quotes[q].by \in DOMAIN payments
        /\ quotes[q].state = "PENDING" => quotes[q].by # 0

\* A payment with another mint's quote gets nowhere.
Idle(n) ==
    /\ payments[n].at # "taken" /\ ~payments[n].taken
    /\ payments[n].status # "PENDING" /\ payments[n].ecash # "SPENT"

ForeignIsIdle ==
    /\ \A n \in DOMAIN payments : Foreign(n) => Idle(n)
    /\ \A q \in DOMAIN quotes : quotes[q].by # 0 => ~Foreign(quotes[q].by)

\* What is taken or completed, on the screen or in a payment, is paid.
CompletedIsPaid ==
    /\ \A n \in DOMAIN payments :
        payments[n].taken \/ payments[n].status = "COMPLETED" => InvoiceIsPaid
    /\ screen.result = "COMPLETED" => InvoiceIsPaid

IInv == Shapes /\ References /\ ForeignIsIdle /\ CompletedIsPaid

-----------------------------------------------------------------------------
\* The screen opens with neither a quote nor a payment.
LEMMA InitStep == PayInit => IInv
<1> SUFFICES ASSUME PayInit PROVE IInv
    OBVIOUS
<1>1. Shapes
  <2>1. left.scanned \in BOOLEAN
      BY PayScreenAssumptions DEF PayScreenAssumptions, PayInit
  <2>2. screen \in ScreenRecord
      BY <2>1, PayScreenAssumptions DEF PayScreenAssumptions, PayInit, ScreenRecord, Status
  <2> QED
      BY <2>2 DEF PayInit, Shapes
<1>2. References /\ ForeignIsIdle /\ CompletedIsPaid
    BY DEF PayInit, References, ForeignIsIdle, CompletedIsPaid
<1> QED
    BY <1>1, <1>2 DEF IInv

\* Steps of the screen that touch neither payments nor quotes.
LEMMA ScreenOnly ==
    ASSUME IInv, UNCHANGED <<payments, quotes>>, screen' \in ScreenRecord,
           screen'.quote = screen.quote,
           screen'.shows \in {0, screen.shows} \cup DOMAIN payments,
           screen'.waits \in {0, screen.waits},
           screen'.result = "COMPLETED" => InvoiceIsPaid
    PROVE  IInv'
<1>1. (Shapes /\ References)'
    BY DEF IInv, Shapes, References
<1>2. (ForeignIsIdle /\ CompletedIsPaid)'
    BY DEF IInv, ForeignIsIdle, Foreign, Idle, CompletedIsPaid, InvoiceIsPaid
<1> QED
    BY <1>1, <1>2 DEF IInv

\* Steps that change one payment but neither its mint nor its quote, and no quote.
LEMMA OnePayment ==
    ASSUME IInv, NEW n \in DOMAIN payments, NEW p \in PaymentRecord,
           payments' = [payments EXCEPT ![n] = p], UNCHANGED quotes,
           screen' \in ScreenRecord, screen'.quote = screen.quote,
           screen'.shows = screen.shows, screen'.waits = screen.waits,
           screen'.result = "COMPLETED" => InvoiceIsPaid,
           p.from = payments[n].from, p.quote = payments[n].quote,
           Foreign(n) => p.at # "taken" /\ ~p.taken /\ p.status # "PENDING" /\ p.ecash # "SPENT",
           p.taken \/ p.status = "COMPLETED" => InvoiceIsPaid
    PROVE  IInv'
<1>1. DOMAIN payments' = DOMAIN payments /\ Len(payments') = Len(payments)
    BY DEF IInv, Shapes
<1>2. \A k \in DOMAIN payments : payments'[k] = IF k = n THEN p ELSE payments[k]
    BY DEF IInv, Shapes
<1>3. (Shapes /\ References)'
    BY <1>1, <1>2 DEF IInv, Shapes, References
<1>4. \A k \in DOMAIN payments : Foreign(k)' <=> Foreign(k)
    BY <1>1, <1>2 DEF Foreign
<1>5. ForeignIsIdle'
    BY <1>1, <1>2, <1>4 DEF IInv, References, ForeignIsIdle, Idle
<1>6. CompletedIsPaid'
  <2>1. InvoiceIsPaid' <=> InvoiceIsPaid
      BY DEF InvoiceIsPaid
  <2> QED
      BY <2>1, <1>1, <1>2 DEF IInv, CompletedIsPaid
<1> QED
    BY <1>3, <1>5, <1>6 DEF IInv

\* A payment begins with the chosen mint and the quote at hand, and holds nothing yet.
LEMMA BeginStep ==
    ASSUME IInv, screen.quote # 0, BeginPayment
    PROVE  IInv'
<1> DEFINE p == Payment(screen.from, screen.quote)
<1>1. p \in PaymentRecord /\ Len(payments) \in Nat
    BY DEF IInv, Shapes, ScreenRecord, PaymentRecord, Status, Payment
<1>2. /\ payments' \in Seq(PaymentRecord)
      /\ Len(payments') = Len(payments) + 1
      /\ \A n \in DOMAIN payments : n \in DOMAIN payments' /\ payments'[n] = payments[n]
      /\ \A n \in DOMAIN payments' : n \in DOMAIN payments \/ payments'[n] = p
  <2>1. payments \in Seq(PaymentRecord) /\ payments' = Append(payments, p)
      BY DEF IInv, Shapes, BeginPayment
  <2> HIDE DEF p
  <2> QED
      BY <1>1, <2>1
<1>3. /\ screen' \in ScreenRecord
      /\ screen'.quote = screen.quote /\ screen'.shows = screen.shows
      /\ screen'.waits = Len(payments') /\ screen'.result = screen.result
  <2> HIDE DEF p
  <2>1. screen' = [screen EXCEPT !.loading = TRUE, !.modal = FALSE, !.waits = Len(payments')]
      BY DEF BeginPayment
  <2>2. Len(payments') \in Nat
      BY <1>1, <1>2
  <2>3. screen' \in ScreenRecord
      BY <2>1, <2>2 DEF IInv, Shapes, ScreenRecord
  <2>4. /\ screen'.quote = screen.quote /\ screen'.shows = screen.shows
        /\ screen'.waits = Len(payments') /\ screen'.result = screen.result
      BY <2>1 DEF IInv, Shapes, ScreenRecord
  <2> QED
      BY <2>3, <2>4
<1>4. quotes' = quotes
    BY DEF BeginPayment
<1>5. Shapes'
    BY <1>2, <1>3, <1>4 DEF IInv, Shapes
<1>6. References'
    BY <1>1, <1>2, <1>3, <1>4 DEF IInv, Shapes, References, Payment
<1>7. ForeignIsIdle'
  <2>1. \A n \in DOMAIN payments' : Foreign(n)' => Idle(n)'
      BY <1>2, <1>4 DEF IInv, ForeignIsIdle, Foreign, Idle, Payment
  <2>2. ASSUME NEW q \in DOMAIN quotes, quotes[q].by # 0
        PROVE  ~Foreign(quotes[q].by)'
      BY <2>2, <1>2, <1>4 DEF IInv, References, ForeignIsIdle, Foreign
  <2> QED
      BY <2>1, <2>2, <1>4 DEF ForeignIsIdle
<1>8. CompletedIsPaid'
    BY <1>2, <1>3, <1>4 DEF IInv, CompletedIsPaid, InvoiceIsPaid, Payment
<1> QED
    BY <1>5, <1>6, <1>7, <1>8 DEF IInv

-----------------------------------------------------------------------------
(* The screen's steps.                                                     *)

\* What the user and the reducer do leaves quotes and payments alone.
LEMMA ScreenSteps ==
    ASSUME IInv
    PROVE  /\ RequestInvoice \/ InvoiceArrives \/ NoInvoice \/ NoQuote => IInv'
           /\ DismissResult \/ LeavePayScreen \/ ResultTimesOut => IInv'
           /\ \A m \in Payer : SelectPayer(m) => IInv'
           /\ \A n \in DOMAIN payments : ResultShown(n) => IInv'
<1> USE DEF IInv, Shapes, ScreenRecord, Status
<1>0. screen.result = "COMPLETED" => InvoiceIsPaid
    BY DEF CompletedIsPaid
<1>1. ASSUME RequestInvoice PROVE IInv'
    BY <1>0, <1>1, ScreenOnly DEF RequestInvoice
<1>2. ASSUME InvoiceArrives PROVE IInv'
    BY <1>0, <1>2, ScreenOnly DEF InvoiceArrives
<1>3. ASSUME NoInvoice PROVE IInv'
    BY <1>0, <1>3, ScreenOnly DEF NoInvoice
<1>4. ASSUME NoQuote PROVE IInv'
    BY <1>0, <1>4, ScreenOnly DEF NoQuote
<1>5. ASSUME DismissResult PROVE IInv'
    BY <1>0, <1>5, ScreenOnly DEF DismissResult
<1>6. ASSUME LeavePayScreen PROVE IInv'
    BY <1>0, <1>6, ScreenOnly DEF LeavePayScreen
<1>7. ASSUME ResultTimesOut PROVE IInv'
    BY <1>0, <1>7, ScreenOnly DEF ResultTimesOut
<1>8. ASSUME NEW m \in Payer, SelectPayer(m) PROVE IInv'
    BY <1>0, <1>8, ScreenOnly DEF SelectPayer
<1>9. ASSUME NEW n \in DOMAIN payments, ResultShown(n) PROVE IInv'
  <2>1. payments[n] \in PaymentRecord /\ n \in Nat
      OBVIOUS
  <2>2. payments[n].status \in Status
      BY <2>1 DEF PaymentRecord
  <2>3. screen' \in ScreenRecord
      BY <2>1, <2>2, <1>9 DEF ResultShown
  <2>4. /\ screen'.quote = screen.quote /\ screen'.waits = 0
        /\ screen'.shows \in {0, n}
        /\ screen'.result = "COMPLETED" => payments[n].status = "COMPLETED"
      BY <1>9 DEF ResultShown
  <2>5. UNCHANGED <<payments, quotes>>
      BY <1>9 DEF ResultShown
  <2>6. screen'.result = "COMPLETED" => InvoiceIsPaid
      BY <2>4 DEF CompletedIsPaid
  <2> QED
      BY <2>3, <2>4, <2>5, <2>6, ScreenOnly
<1> QED
    BY <1>1, <1>2, <1>3, <1>4, <1>5, <1>6, <1>7, <1>8, <1>9

\* A payment begins only where there is a quote: "Pay now" asks for one, and the modal
\* that offers a retry shows a payment, which had one.
LEMMA BeginSteps ==
    ASSUME IInv, PayNow \/ RetryAgain
    PROVE  IInv'
<1>1. screen.quote # 0
    BY DEF IInv, Shapes, References, PayNow, RetryAgain
<1> QED
    BY <1>1, BeginStep DEF PayNow, RetryAgain

-----------------------------------------------------------------------------
(* The quotes' steps.                                                      *)

\* A new quote is nobody's, and the quotes before it keep their places.
LEMMA QuoteReadyStep ==
    ASSUME IInv, QuoteReady
    PROVE  IInv'
<1> DEFINE r == [mint |-> screen.asks, state |-> "UNPAID", by |-> 0]
<1>1. r \in QuoteRecord /\ quotes' = Append(quotes, r) /\ quotes \in Seq(QuoteRecord)
    BY DEF IInv, Shapes, QuoteReady, QuoteRecord
<1>2. r.by = 0 /\ r.state = "UNPAID"
    OBVIOUS
<1>3. screen' = [screen EXCEPT !.loading = FALSE, !.asks = "none", !.quote = Len(quotes')]
    BY DEF QuoteReady
<1>4. payments' = payments
    BY DEF QuoteReady
<1> HIDE DEF r
<1>5. /\ quotes' \in Seq(QuoteRecord)
      /\ Len(quotes') \in DOMAIN quotes' /\ Len(quotes') \in Nat \ {0}
      /\ \A q \in DOMAIN quotes : q \in DOMAIN quotes' /\ quotes'[q] = quotes[q]
      /\ \A q \in DOMAIN quotes' :
            q \in DOMAIN quotes \/ (quotes'[q].by = 0 /\ quotes'[q].state = "UNPAID")
    BY <1>1, <1>2
<1>6. screen' \in ScreenRecord
    BY <1>3, <1>5 DEF IInv, Shapes, ScreenRecord
<1>7. /\ screen'.quote = Len(quotes') /\ screen'.shows = screen.shows
      /\ screen'.waits = screen.waits /\ screen'.result = screen.result
    BY <1>3 DEF IInv, Shapes, ScreenRecord
<1>8. Shapes'
    BY <1>4, <1>5, <1>6 DEF IInv, Shapes
<1>9. References'
    BY <1>4, <1>5, <1>7 DEF IInv, References
<1>10. \A n \in DOMAIN payments : Foreign(n)' <=> Foreign(n)
    BY <1>4, <1>5 DEF IInv, References, Foreign
<1>11. ForeignIsIdle'
    BY <1>4, <1>5, <1>10 DEF IInv, References, ForeignIsIdle, Idle
<1>12. InvoiceIsPaid => InvoiceIsPaid'
    BY <1>5 DEF InvoiceIsPaid
<1>13. CompletedIsPaid'
    BY <1>4, <1>7, <1>12 DEF IInv, CompletedIsPaid
<1> QED
    BY <1>8, <1>9, <1>11, <1>13 DEF IInv

\* Steps at the mint: one quote changes its state or the payment that holds it, which is one
\* of its own; one payment may be taken.
LEMMA AtMint ==
    ASSUME IInv, screen' = screen, NEW q \in DOMAIN quotes, NEW r \in QuoteRecord,
           quotes' = [quotes EXCEPT ![q] = r], r.mint = quotes[q].mint,
           r.by # 0 => r.by \in DOMAIN payments /\ ~Foreign(r.by),
           r.state = "PENDING" => r.by # 0,
           InvoiceIsPaid => InvoiceIsPaid',
           payments' \in Seq(PaymentRecord), Len(payments') = Len(payments),
           \A n \in DOMAIN payments :
               /\ payments'[n].from = payments[n].from /\ payments'[n].quote = payments[n].quote
               /\ payments'[n].status = payments[n].status
               /\ payments'[n].ecash = payments[n].ecash
               /\ payments'[n].taken => payments[n].taken \/ InvoiceIsPaid'
               /\ Foreign(n) => /\ payments'[n].taken = payments[n].taken
                                /\ payments'[n].at = payments[n].at
    PROVE  IInv'
<1>1. /\ DOMAIN payments' = DOMAIN payments /\ DOMAIN quotes' = DOMAIN quotes
      /\ \A k \in DOMAIN quotes : quotes'[k] = IF k = q THEN r ELSE quotes[k]
    BY DEF IInv, Shapes
<1>2. Shapes'
    BY DEF IInv, Shapes
<1>3. References'
    BY <1>1 DEF IInv, References
<1>4. \A n \in DOMAIN payments : Foreign(n)' <=> Foreign(n)
    BY <1>1 DEF IInv, References, Foreign
<1>5. ForeignIsIdle'
    BY <1>1, <1>4 DEF IInv, References, ForeignIsIdle, Idle
<1>6. CompletedIsPaid'
    BY <1>1 DEF IInv, CompletedIsPaid
<1> QED
    BY <1>2, <1>3, <1>5, <1>6 DEF IInv

\* What the mint does with a payment it was sent keeps the invariant.
LEMMA MintSteps ==
    ASSUME IInv
    PROVE  /\ \A n \in DOMAIN payments : MintTakes(n) => IInv'
           /\ \A q \in DOMAIN quotes : NetworkPays(q) \/ NetworkFails(q) => IInv'
<1>1. ASSUME NEW n \in DOMAIN payments, MintTakes(n) PROVE IInv'
  <2> DEFINE q == payments[n].quote
             r == [quotes[q] EXCEPT !.state = "PENDING", !.by = n]
             p == [payments[n] EXCEPT !.at = "taken"]
  <2>1. q \in DOMAIN quotes /\ quotes[q] \in QuoteRecord /\ payments[n] \in PaymentRecord
      BY DEF IInv, Shapes, References
  <2>2. /\ screen' = screen /\ quotes' = [quotes EXCEPT ![q] = r]
        /\ payments' = [payments EXCEPT ![n] = p] /\ ~Foreign(n) /\ quotes[q].state = "UNPAID"
      BY <1>1 DEF MintTakes, QuoteSays
  <2>3. r \in QuoteRecord /\ r.mint = quotes[q].mint /\ r.by = n /\ n # 0
    <3>1. n \in Nat \ {0}
        BY DEF IInv, Shapes
    <3> QED
        BY <2>1, <3>1 DEF QuoteRecord
  <2>4. /\ p \in PaymentRecord /\ p.from = payments[n].from /\ p.quote = payments[n].quote
        /\ p.status = payments[n].status /\ p.ecash = payments[n].ecash
        /\ p.taken = payments[n].taken
      BY <2>1 DEF PaymentRecord
  <2> HIDE DEF r, p
  <2>5. InvoiceIsPaid => InvoiceIsPaid'
    <3>1. \A k \in DOMAIN quotes : k \in DOMAIN quotes' /\ (k # q => quotes'[k] = quotes[k])
        BY <2>2 DEF IInv, Shapes
    <3> QED
        BY <2>2, <3>1 DEF InvoiceIsPaid
  <2>6. /\ payments' \in Seq(PaymentRecord) /\ Len(payments') = Len(payments)
        /\ \A k \in DOMAIN payments : payments'[k] = IF k = n THEN p ELSE payments[k]
      BY <2>2, <2>4 DEF IInv, Shapes
  <2> QED
      BY <2>1, <2>2, <2>3, <2>4, <2>5, <2>6, AtMint
<1>2. ASSUME NEW q \in DOMAIN quotes, NetworkPays(q) PROVE IInv'
  <2> DEFINE r == [quotes[q] EXCEPT !.state = "PAID"]
             n == quotes[q].by
             p == [payments[n] EXCEPT !.taken = TRUE]
  <2>1. quotes[q] \in QuoteRecord /\ n # 0 /\ n \in DOMAIN payments /\ ~Foreign(n)
      BY <1>2 DEF NetworkPays, IInv, Shapes, References, ForeignIsIdle
  <2>2. /\ screen' = screen /\ quotes' = [quotes EXCEPT ![q] = r]
        /\ payments' = [payments EXCEPT ![n] = p]
      BY <1>2 DEF NetworkPays
  <2>3. r \in QuoteRecord /\ r.mint = quotes[q].mint /\ r.by = n /\ r.state = "PAID"
      BY <2>1 DEF QuoteRecord
  <2>4. /\ p \in PaymentRecord /\ p.from = payments[n].from /\ p.quote = payments[n].quote
        /\ p.status = payments[n].status /\ p.ecash = payments[n].ecash
        /\ p.at = payments[n].at
    <3>1. payments[n] \in PaymentRecord
        BY <2>1 DEF IInv, Shapes
    <3> QED
        BY <3>1 DEF PaymentRecord
  <2> HIDE DEF r, p
  <2>5. InvoiceIsPaid'
    <3>1. q \in DOMAIN quotes' /\ quotes'[q] = r
        BY <2>2 DEF IInv, Shapes
    <3> QED
        BY <2>3, <3>1 DEF InvoiceIsPaid
  <2>6. /\ payments' \in Seq(PaymentRecord) /\ Len(payments') = Len(payments)
        /\ \A k \in DOMAIN payments : payments'[k] = IF k = n THEN p ELSE payments[k]
      BY <2>1, <2>2, <2>4 DEF IInv, Shapes
  <2> QED
      BY <2>1, <2>2, <2>3, <2>4, <2>5, <2>6, AtMint
<1>3. ASSUME NEW q \in DOMAIN quotes, NetworkFails(q) PROVE IInv'
  <2> DEFINE r == [quotes[q] EXCEPT !.state = "UNPAID"]
  <2>1. /\ quotes[q] \in QuoteRecord
        /\ quotes[q].by # 0 => quotes[q].by \in DOMAIN payments /\ ~Foreign(quotes[q].by)
      BY DEF IInv, Shapes, References, ForeignIsIdle
  <2>2. /\ screen' = screen /\ quotes' = [quotes EXCEPT ![q] = r] /\ payments' = payments
        /\ quotes[q].state = "PENDING"
      BY <1>3 DEF NetworkFails
  <2>3. /\ r \in QuoteRecord /\ r.mint = quotes[q].mint /\ r.by = quotes[q].by
        /\ r.state = "UNPAID"
      BY <2>1 DEF QuoteRecord
  <2> HIDE DEF r
  <2>4. InvoiceIsPaid => InvoiceIsPaid'
    <3>1. \A k \in DOMAIN quotes : k \in DOMAIN quotes' /\ (k # q => quotes'[k] = quotes[k])
        BY <2>2 DEF IInv, Shapes
    <3> QED
        BY <2>2, <3>1 DEF InvoiceIsPaid
  <2>5. payments \in Seq(PaymentRecord)
      BY DEF IInv, Shapes
  <2> QED
      BY <2>1, <2>2, <2>3, <2>4, <2>5, AtMint
<1> QED
    BY <1>1, <1>2, <1>3

-----------------------------------------------------------------------------
(* The payments' steps: none of them touches a quote.                      *)

\* How a task ends, whatever its answer, if ecash is given up only for a payment with a
\* quote of its own mint and COMPLETED only for an invoice that is paid.
LEMMA EndsStep ==
    ASSUME IInv, NEW n \in DOMAIN payments, NEW s \in Status,
           NEW e \in {"UNSPENT", "PENDING", "SPENT"}, NEW b \in BOOLEAN,
           Ends(n, s, e, b), UNCHANGED quotes,
           screen' = screen \/ Told(n, s),
           s = "PENDING" \/ e = "SPENT" => ~Foreign(n),
           s = "COMPLETED" => InvoiceIsPaid
    PROVE  IInv'
<1> DEFINE p == [payments[n] EXCEPT !.at = "ended", !.status = s, !.ecash = e, !.reserved = b]
<1>1. payments[n] \in PaymentRecord
    BY DEF IInv, Shapes
<1>2. /\ p \in PaymentRecord /\ p.from = payments[n].from /\ p.quote = payments[n].quote
      /\ p.at = "ended" /\ p.status = s /\ p.ecash = e /\ p.taken = payments[n].taken
    BY <1>1 DEF PaymentRecord
<1>3. payments' = [payments EXCEPT ![n] = p]
    BY DEF Ends
<1> HIDE DEF p
<1>4. /\ screen' \in ScreenRecord /\ screen'.quote = screen.quote
      /\ screen'.shows = screen.shows /\ screen'.waits = screen.waits
      /\ screen'.result \in {screen.result, s}
  <2>1. \/ screen' = screen
        \/ screen' = [screen EXCEPT !.result = s, !.monitored = 0]
      BY DEF Told
  <2>2. screen \in ScreenRecord
      BY DEF IInv, Shapes
  <2>3. CASE screen' = screen
      BY <2>2, <2>3
  <2>4. CASE screen' = [screen EXCEPT !.result = s, !.monitored = 0]
      BY <2>2, <2>4 DEF ScreenRecord
  <2> QED
      BY <2>1, <2>3, <2>4
<1>5. /\ screen'.result = "COMPLETED" => InvoiceIsPaid
      /\ p.taken \/ p.status = "COMPLETED" => InvoiceIsPaid
    BY <1>2, <1>4 DEF IInv, CompletedIsPaid
<1>6. Foreign(n) => p.at # "taken" /\ ~p.taken /\ p.status # "PENDING" /\ p.ecash # "SPENT"
    BY <1>2 DEF IInv, ForeignIsIdle, Idle
<1> QED
    BY <1>2, <1>3, <1>4, <1>5, <1>6, OnePayment

\* Steps on the way: they leave mint, quote, ecash that is gone, and what was taken alone.
LEMMA OnTheWay ==
    ASSUME IInv, NEW n \in DOMAIN payments, NEW p \in PaymentRecord,
           payments' = [payments EXCEPT ![n] = p], UNCHANGED <<screen, quotes>>,
           p.from = payments[n].from, p.quote = payments[n].quote,
           p.at \in {"sent", "recheck", "ended"}, p.taken = payments[n].taken,
           p.status \in {payments[n].status, "EXECUTING"},
           p.ecash \in {payments[n].ecash, "PENDING"}
    PROVE  IInv'
<1>1. Foreign(n) => p.at # "taken" /\ ~p.taken /\ p.status # "PENDING" /\ p.ecash # "SPENT"
    BY DEF IInv, ForeignIsIdle, Idle
<1>2. p.taken \/ p.status = "COMPLETED" => InvoiceIsPaid
    BY DEF IInv, CompletedIsPaid
<1>3. screen \in ScreenRecord /\ (screen.result = "COMPLETED" => InvoiceIsPaid)
    BY DEF IInv, Shapes, CompletedIsPaid
<1> QED
    BY <1>1, <1>2, <1>3, OnePayment

\* What the tasks and the monitors do with a payment keeps the invariant.
LEMMA PaymentSteps ==
    ASSUME IInv, NEW n \in DOMAIN payments
    PROVE  /\ Prepare(n) \/ MintRefusesMelt(n) \/ OutputsSigned(n) \/ MeltAnswerLost(n) => IInv'
           /\ SettleMelt(n) \/ HandleError(n) \/ HandleErrorFails(n) => IInv'
           /\ MeltRefreshed(n) \/ SyncFinds(n) => IInv'
<1>1. payments[n] \in PaymentRecord
    BY DEF IInv, Shapes
<1>2. ASSUME Prepare(n) PROVE IInv'
  <2>1. CASE payments' = [payments EXCEPT ![n].at = "ended"]
    <3> DEFINE p == [payments[n] EXCEPT !.at = "ended"]
    <3>1. /\ p \in PaymentRecord /\ p.from = payments[n].from /\ p.quote = payments[n].quote
          /\ p.at = "ended" /\ p.taken = payments[n].taken /\ p.status = payments[n].status
          /\ p.ecash = payments[n].ecash
        BY <1>1 DEF PaymentRecord
    <3>2. payments' = [payments EXCEPT ![n] = p] /\ UNCHANGED <<screen, quotes>>
        BY <1>2, <2>1 DEF Prepare
    <3> HIDE DEF p
    <3> QED
        BY <3>1, <3>2, OnTheWay
  <2>2. CASE payments' = [payments EXCEPT ![n] = [@ EXCEPT !.at = "sent", !.status = "EXECUTING",
                                                           !.ecash = "PENDING", !.reserved = TRUE]]
    <3> DEFINE p == [payments[n] EXCEPT !.at = "sent", !.status = "EXECUTING",
                                        !.ecash = "PENDING", !.reserved = TRUE]
    <3>1. /\ p \in PaymentRecord /\ p.from = payments[n].from /\ p.quote = payments[n].quote
          /\ p.at = "sent" /\ p.taken = payments[n].taken /\ p.status = "EXECUTING"
          /\ p.ecash = "PENDING"
        BY <1>1 DEF PaymentRecord, Status
    <3>2. payments' = [payments EXCEPT ![n] = p] /\ UNCHANGED <<screen, quotes>>
        BY <1>2, <2>2 DEF Prepare
    <3> HIDE DEF p
    <3> QED
        BY <3>1, <3>2, OnTheWay
  <2> QED
      BY <1>2, <2>1, <2>2 DEF Prepare
<1>3. ASSUME MintRefusesMelt(n) \/ MeltAnswerLost(n) PROVE IInv'
  <2> DEFINE p == [payments[n] EXCEPT !.at = "recheck"]
  <2>1. /\ p \in PaymentRecord /\ p.from = payments[n].from /\ p.quote = payments[n].quote
        /\ p.at = "recheck" /\ p.taken = payments[n].taken /\ p.status = payments[n].status
        /\ p.ecash = payments[n].ecash
      BY <1>1 DEF PaymentRecord
  <2>2. payments' = [payments EXCEPT ![n] = p] /\ UNCHANGED <<screen, quotes>>
      BY <1>3 DEF MintRefusesMelt, MeltAnswerLost
  <2> HIDE DEF p
  <2> QED
      BY <2>1, <2>2, OnTheWay
<1>4. ASSUME OutputsSigned(n) PROVE IInv'
  <2> DEFINE p == [payments[n] EXCEPT !.at = "recheck", !.signed = TRUE]
  <2>1. /\ p \in PaymentRecord /\ p.from = payments[n].from /\ p.quote = payments[n].quote
        /\ p.at = "recheck" /\ p.taken = payments[n].taken /\ p.status = payments[n].status
        /\ p.ecash = payments[n].ecash
      BY <1>1 DEF PaymentRecord
  <2>2. payments' = [payments EXCEPT ![n] = p] /\ UNCHANGED <<screen, quotes>>
      BY <1>4 DEF OutputsSigned
  <2> HIDE DEF p
  <2> QED
      BY <2>1, <2>2, OnTheWay
<1>5. QuoteSays(n) = "PAID" => InvoiceIsPaid
    BY DEF QuoteSays, InvoiceIsPaid, IInv, References
<1>6. ASSUME SettleMelt(n) PROVE IInv'
  <2>1. ~Foreign(n)
      BY <1>6 DEF SettleMelt, Is, IInv, ForeignIsIdle, Idle
  <2> QED
      BY <1>5, <1>6, <2>1, EndsStep DEF SettleMelt, Status
<1>7. ASSUME HandleError(n) PROVE IInv'
    BY <1>7, EndsStep DEF HandleError, Status
<1>8. ASSUME HandleErrorFails(n) PROVE IInv'
    BY <1>8, EndsStep DEF HandleErrorFails, Status
<1>9. ASSUME MeltRefreshed(n) PROVE IInv'
  <2>1. ~Foreign(n)
      BY <1>9 DEF MeltRefreshed, IInv, ForeignIsIdle, Idle
  <2> QED
      BY <1>5, <1>9, <2>1, EndsStep DEF MeltRefreshed, Status
<1>10. ASSUME SyncFinds(n) PROVE IInv'
  <2>1. ~Foreign(n) /\ InvoiceIsPaid
      BY <1>10 DEF SyncFinds, IInv, ForeignIsIdle, Idle, CompletedIsPaid
  <2>2. payments[n].status \in Status /\ payments[n].reserved \in BOOLEAN
      BY <1>1 DEF PaymentRecord
  <2>3. PICK s \in Status : Ends(n, s, "SPENT", payments[n].reserved)
      BY <1>10, <2>2 DEF SyncFinds, Status
  <2>4. UNCHANGED <<screen, quotes>>
      BY <1>10 DEF SyncFinds
  <2> QED
      BY <2>1, <2>2, <2>3, <2>4, EndsStep
<1> QED
    BY <1>2, <1>3, <1>4, <1>6, <1>7, <1>8, <1>9, <1>10

-----------------------------------------------------------------------------
\* Every step of the payment screen keeps the invariant.
LEMMA NextStep == IInv /\ [PayNext]_payVars => IInv'
<1> SUFFICES ASSUME IInv, [PayNext]_payVars PROVE IInv'
    OBVIOUS
<1>1. CASE UNCHANGED payVars
  <2>1. screen \in ScreenRecord /\ (screen.result = "COMPLETED" => InvoiceIsPaid)
      BY DEF IInv, Shapes, CompletedIsPaid
  <2> QED
      BY <1>1, <2>1, ScreenOnly DEF payVars
<1>2. CASE PayNext
    BY <1>2, ScreenSteps, BeginSteps, QuoteReadyStep, MintSteps, PaymentSteps DEF PayNext
<1> QED
    BY <1>1, <1>2

\* What the payment screen, its tasks and the mint do keeps every quote with its own mint and
\* every payment that was taken with a paid invoice: IInv is inductive.
THEOREM Invariance == PaySpec => []IInv
<1> QED
    BY InitStep, NextStep, PTL DEF PaySpec

\* However late results come and whichever payment they are of, the screen shows COMPLETED,
\* and stops offering "Pay now" (TransferScreen.tsx), only if a mint has paid the invoice.
THEOREM ShownIsPaid == PaySpec => []CompletedShownIsPaid
<1>1. IInv => CompletedShownIsPaid
    BY DEF IInv, CompletedIsPaid, CompletedShownIsPaid
<1> QED
    BY <1>1, Invariance, PTL

\* Paying a quote that was left from the mint before the switch (onMintBalanceSelect) costs no
\* ecash of the new mint, however the payment ends and whatever becomes of the quote.
THEOREM ForeignCostsNothing == PaySpec => []ForeignQuoteCostsNothing
<1>1. IInv => ForeignQuoteCostsNothing
    BY DEF IInv, ForeignIsIdle, Idle, Foreign, ForeignQuoteCostsNothing
<1> QED
    BY <1>1, Invariance, PTL

-----------------------------------------------------------------------------
(* The NFC payment screen.                                                 *)

LaneState == {"none", "reading", "launched", "found", "paying", "write", "tap", "tapping", "tapped",
              "failed", "finally", "rearm", "cancelled", "pause"}

NfcShapes ==
    /\ lane \in [Lane -> LaneState]
    /\ keepScanning \in BOOLEAN /\ paymentLocked \in BOOLEAN
    /\ nfcEnabled \in BOOLEAN /\ android \in BOOLEAN
    /\ begun \in Nat /\ dismissed \in Nat

\* A request that still waits is the reader's, and a tap that may become a payment is the only one.
\* It waits while nothing is paid.
OneTap ==
    /\ \A l \in Lane : lane[l] \in {"reading", "tapping"} => reader = l
    /\ \A l \in Lane : lane[l] \in {"reading", "found"} =>
        /\ paymentLocked = FALSE /\ nfcEnabled = TRUE
        /\ \A k \in Lane : lane[k] \in {"reading", "found"} => k = l

\* Without a reader the screen pays what the launching tap had read, and nothing else.
LaunchedOnce == ~nfcEnabled => ~keepScanning /\ begun = 1

\* The next payment is begun already or still locked out, unless a result was dismissed.
Consent ==
    nfcEnabled => begun <= 1 + dismissed /\ (~paymentLocked => begun <= dismissed)

NfcInv == NfcShapes /\ OneTap /\ LaunchedOnce /\ Consent

\* The screen is armed for the first tap, or pays what the launching tap had read.
LEMMA NfcInitStep == NfcInit => NfcInv
<1> SUFFICES ASSUME NfcInit PROVE NfcInv
    OBVIOUS
<1>1. (CHOOSE l \in Lane : TRUE) \in Lane
    BY NfcPayAssumptions
<1>2. NfcShapes
    BY <1>1 DEF NfcInit, NfcShapes, LaneState
<1>3. LaunchedOnce /\ Consent
  <2>1. CASE nfcEnabled = TRUE
    <3>1. begun = 0 /\ dismissed = 0
        BY <2>1 DEF NfcInit
    <3> QED
        BY <2>1, <3>1 DEF LaunchedOnce, Consent
  <2>2. CASE nfcEnabled = FALSE
      BY <2>2 DEF NfcInit, LaunchedOnce, Consent
  <2> QED
      BY <2>1, <2>2 DEF NfcInit
<1>4. OneTap
    BY <1>1 DEF NfcInit, OneTap
<1> QED
    BY <1>2, <1>3, <1>4 DEF NfcInv

\* A flow that starts takes a lane nothing runs in.
LEMMA FreeLaneIsFree == HasLane => FreeLane \in Lane /\ lane[FreeLane] = "none"
BY DEF HasLane, FreeLane

\* The steps of one lane: only LockOn begins a payment, and it locks.
LEMMA LaneStep ==
    ASSUME NfcInv, NEW l \in Lane,
           \/ NfcStep(l) \/ TagFound(l) \/ PayElsewhere(l) \/ MakeToken(l) \/ Write(l)
           \/ PayFails(l) \/ LaunchFails(l)
    PROVE  NfcInv'
<1> USE NfcPayAssumptions DEF NfcInv, NfcShapes, OneTap, LaunchedOnce, Consent, LaneState, Step, userVars, refs,
        shownState
<1>1. CASE LockOn(l)
  <2>1. NfcShapes'
    <3>1. lane' \in [Lane -> LaneState]
        BY <1>1 DEF LockOn
    <3>2. UNCHANGED <<keepScanning, nfcEnabled, android, dismissed>>
        BY <1>1 DEF LockOn
    <3>3. paymentLocked' \in BOOLEAN
        BY <1>1 DEF LockOn
    <3>4. begun' \in {begun, begun + 1}
        BY <1>1 DEF LockOn
    <3>5. begun' \in Nat
        BY <3>4
    <3> QED
        BY <3>1, <3>2, <3>3, <3>5
  <2>2. OneTap'
      BY <1>1 DEF LockOn
  <2>3. (LaunchedOnce /\ Consent)'
      BY <1>1 DEF LockOn
  <2> QED
      BY <2>1, <2>2, <2>3
<1>2. CASE TapAgain(l)
    BY <1>2 DEF TapAgain, Request
<1>3. CASE Tapped(l) \/ Failed(l)
    BY <1>3 DEF Tapped, Failed
<1>4. CASE Finally(l)
    BY <1>4 DEF Finally, Cancelled
<1>5. CASE Rearm(l)
    BY <1>5 DEF Rearm, Cancelled
<1>6. CASE RearmPause(l)
    BY <1>6 DEF RearmPause
<1>7. CASE RearmStart(l)
    BY <1>7 DEF RearmStart, Request, Resolving
<1>8. CASE TagFound(l)
    BY <1>8 DEF TagFound
<1>9. CASE PayElsewhere(l)
    BY <1>9 DEF PayElsewhere
<1>10. CASE MakeToken(l) \/ Write(l) \/ PayFails(l) \/ LaunchFails(l)
    BY <1>10 DEF MakeToken, Write, PayFails, LaunchFails
<1> QED
    BY <1>1, <1>2, <1>3, <1>4, <1>5, <1>6, <1>7, <1>8, <1>9, <1>10 DEF NfcStep

\* The user and the timer: only Dismiss unlocks.
LEMMA NfcUserStep ==
    ASSUME NfcInv, Dismiss \/ Hide \/ Focus \/ LeaveScreen \/ ShowPending
    PROVE  NfcInv'
<1> USE NfcPayAssumptions, FreeLaneIsFree
    DEF NfcInv, NfcShapes, OneTap, LaunchedOnce, Consent, LaneState, Step, userVars, refs, shownState
<1>1. CASE Dismiss
  <2>1. /\ FreeLane \in Lane /\ Step(FreeLane, "rearm")
        /\ UNCHANGED <<android, keepScanning, nfcEnabled, reader, begun>>
        /\ paymentLocked' = FALSE /\ dismissed' = dismissed + 1
        /\ \A l \in Lane : lane[l] # "found"
      BY <1>1 DEF Dismiss, Resolving
  <2>2. NfcShapes'
    <3>1. lane' \in [Lane -> LaneState]
      BY <2>1
    <3>2. paymentLocked' \in BOOLEAN
      BY <2>1
    <3>3. dismissed' \in Nat
      BY <2>1
    <3> QED BY <2>1, <3>1, <3>2, <3>3
  <2>3. OneTap'
      BY <2>1
  <2>4. (LaunchedOnce /\ Consent)'
      BY <2>1
  <2> QED
      BY <2>2, <2>3, <2>4
<1>2. CASE Hide \/ ShowPending
  <2>1. NfcShapes'
    BY <1>2 DEF Hide, ShowPending
  <2>2. OneTap'
    BY <1>2 DEF Hide, ShowPending
  <2>3. LaunchedOnce'
    BY <1>2 DEF Hide, ShowPending
  <2>4. Consent'
    BY <1>2 DEF Hide, ShowPending
  <2> QED BY <2>1, <2>2, <2>3, <2>4
<1>3. CASE Focus
  <2>1. CASE nfcEnabled /\ ~processing /\ ~paymentLocked
    <3>1. /\ FreeLane \in Lane /\ lane[FreeLane] = "none" /\ keepScanning' = TRUE
          /\ Request(FreeLane, "reading") /\ \A l \in Lane : lane[l] # "found"
          /\ UNCHANGED <<paymentLocked, nfcEnabled, android, begun, dismissed>>
        BY <1>3, <2>1 DEF Focus, Resolving
    <3>2. CASE reader = "none"
        BY <2>1, <3>1, <3>2 DEF Request
    <3>3. CASE reader # "none"
        BY <2>1, <3>1, <3>3 DEF Request
    <3> QED
        BY <3>2, <3>3
  <2>2. CASE ~(nfcEnabled /\ ~processing /\ ~paymentLocked)
      BY <1>3, <2>2 DEF Focus
  <2> QED
      BY <2>1, <2>2
<1>4. CASE LeaveScreen
    BY <1>4 DEF LeaveScreen, Cancelled
<1> QED
    BY <1>1, <1>2, <1>3, <1>4

\* After the first payment every payment of the screen was preceded by a result the user has dismissed,
\* in every order in which taps, cancelled requests, the automatic re-arming, the timer and the user
\* come (NfcPayScreen.tsx, paymentLockedRef).  What makes it inductive: whoever still waits for a tap
\* that could pay holds the only technology request, and finds the lock open.
THEOREM ConsentFirst == NfcSpec => []PaymentNeedsConsent
<1>1. NfcInv /\ [NfcNext]_nfcVars => NfcInv'
  <2> SUFFICES ASSUME NfcInv, [NfcNext]_nfcVars PROVE NfcInv'
      OBVIOUS
  <2>1. CASE NfcNext
      BY <2>1, LaneStep, NfcUserStep DEF NfcNext
  <2>2. CASE UNCHANGED nfcVars
      BY <2>2 DEF nfcVars, NfcInv, NfcShapes, OneTap, LaunchedOnce, Consent
  <2> QED
      BY <2>1, <2>2
<1>2. NfcInv => PaymentNeedsConsent
    BY DEF NfcInv, NfcShapes, LaunchedOnce, Consent, PaymentNeedsConsent
<1> QED
    BY <1>1, <1>2, NfcInitStep, PTL DEF NfcSpec

-----------------------------------------------------------------------------
(* The screen that sends a token.                                          *)

Option == {"show", "contact", "request"}
Settled == {"none", "PENDING", "COMPLETED", "ERROR"}

PageRecord ==
    [open : BOOLEAN, online : BOOLEAN, option : Option, resolves : BOOLEAN, fixed : BOOLEAN,
     contact : {"none", "friend", "payee"}, relays : BOOLEAN, post : BOOLEAN,
     offers : SUBSET SendFrom, from : SendFrom \cup {"none"}, token : Nat, status : Settled,
     modals : SUBSET Modal,
     due : BOOLEAN, loading : BOOLEAN, waits : SUBSET Nat, listens : BOOLEAN,
     sending : SUBSET {"nostrDM", "post"}, sent : SUBSET {"nostrDM", "post"}]

SendRecord ==
    [mint : SendFrom \cup {"none"}, option : Option, relays : BOOLEAN, post : BOOLEAN,
     heard : Nat, at : {"queued", "running", "ended"},
     status : Settled, ecash : {"none", "PENDING", "SPENT"}, claimed : {"none", "part", "all"},
     linked : BOOLEAN]

DeliveryRecord ==
    [of : Nat, channel : {"nostrDM", "post"}, option : Option, arrived : BOOLEAN,
     over : BOOLEAN]

CaseRecord ==
    [opens : {"plain", "contact", "nostr", "late", "post"}, fixed : BOOLEAN,
     accepts : SUBSET SendFrom, steady : BOOLEAN, calls : Nat,
     deliveries : Nat, others : Nat]

PageShapes ==
    /\ page \in PageRecord
    /\ sends \in Seq(SendRecord)
    /\ deliveries \in Seq(DeliveryRecord)

\* What names a call or its token names one that is there.
SendReferences ==
    /\ page.token # 0 => page.token \in DOMAIN sends
    /\ page.waits \subseteq DOMAIN sends
    /\ \A c \in DOMAIN sends : sends[c].heard # 0 => sends[c].heard \in DOMAIN sends
    /\ \A d \in DOMAIN deliveries : deliveries[d].of \in DOMAIN sends
    /\ page.modals \cap {"nostrDM", "post"} # {} => page.token # 0
    /\ page.open /\ deliveries # <<>> => page.token # 0
    /\ page.listens => page.token # 0

\* COMPLETED, in a transaction or on the screen, is claimed.
CompletedIsClaimed ==
    /\ \A n \in DOMAIN sends : sends[n].status = "COMPLETED" => sends[n].claimed = "all"
    /\ page.status = "COMPLETED" =>
        page.token # 0 /\ sends[page.token].claimed = "all"

ForRequest(d) == d \in DOMAIN deliveries /\ deliveries[d].option = "request"

\* No request was prepared, and none will be.
NoRequest ==
    ~page.resolves /\ page.option # "request" /\ \A d : ~ForRequest(d)

\* While a request is, or may still be, on the screen one call waits at a time, under the
\* loading overlay, and before there is a token.
OneCall ==
    /\ page.waits = {} \/ (page.loading /\ page.token = 0 /\ \E c : page.waits = {c})
    /\ "proofs" \in page.modals => ~page.loading /\ page.token = 0

\* What left under the request's id is the token on the screen.
OneToken ==
    /\ page.option = "request" => ~page.resolves
    /\ \A d : ForRequest(d) => ~page.resolves /\ (page.open => deliveries[d].of = page.token)
    /\ \A d, e : ForRequest(d) /\ ForRequest(e) => deliveries[d].of = deliveries[e].of
    /\ page.open => OneCall \/ NoRequest

SendInv == PageShapes /\ SendReferences /\ CompletedIsClaimed /\ OneToken

-----------------------------------------------------------------------------
(* The reducer's functions.                                                *)

\* Modals open and close within the reducer's state.
LEMMA ModalShapes ==
    ASSUME NEW s \in PageRecord, NEW m \in SUBSET Modal
    PROVE  Closed(s, m) \in PageRecord /\ Opened(s, m) \in PageRecord
BY DEF PageRecord, Closed, Opened

\* SET_ERROR.
LEMMA ErrorShape == ASSUME NEW s \in PageRecord PROVE SetError(s) \in PageRecord
BY DEF PageRecord, Closed, SetError, Modal

\* The purpose of the token changes.
LEMMA AddressedShape ==
    ASSUME NEW s \in PageRecord, NEW option \in Option, NEW to \in {"none", "friend", "payee"},
           NEW relays \in BOOLEAN, NEW post \in BOOLEAN
    PROVE  Addressed(s, option, to, relays, post) \in PageRecord
BY DEF PageRecord, Addressed

\* PREPARE_SEND_TO_CONTACT.
LEMMA ContactShape == ASSUME NEW s \in PageRecord PROVE ToContact(s) \in PageRecord
BY DEF PageRecord, Opened, Addressed, ToContact, Modal, Option

\* The last fields PREPARE_CASHU_PR sets.
LEMMA OffersUpdate ==
    ASSUME NEW o \in PageRecord, NEW f \in SendFrom \cup {"none"},
           NEW offers \in SUBSET SendFrom, NEW fixed \in BOOLEAN, NEW l \in BOOLEAN
    PROVE  [o EXCEPT !.resolves = FALSE, !.fixed = fixed, !.offers = offers, !.from = f,
                     !.listens = l] \in PageRecord
BY DEF PageRecord

\* PREPARE_CASHU_PR, and a request that cannot be paid.
LEMMA RequestShapes ==
    ASSUME NEW s \in PageRecord, NEW kind, NEW fixed \in BOOLEAN, NEW offers \in SUBSET SendFrom
    PROVE  Requested(s, kind, fixed, offers) \in PageRecord /\ Unpayable(s, fixed) \in PageRecord
<1> DEFINE nostr == kind # "post"
           to == IF nostr THEN "payee" ELSE "none"
           o == Addressed(Opened(s, {"selector"}), "request", to, nostr, ~nostr)
           f == IF offers = {} THEN o.from ELSE CHOOSE m \in offers : TRUE
           l == o.listens \/ (fixed /\ s.token # 0)
<1>1. o \in PageRecord
  <2>1. Opened(s, {"selector"}) \in PageRecord
      BY ModalShapes DEF Modal
  <2>2. nostr \in BOOLEAN /\ (~nostr) \in BOOLEAN /\ to \in {"none", "friend", "payee"}
      OBVIOUS
  <2>3. "request" \in Option
      BY DEF Option
  <2> QED
      BY <2>1, <2>2, <2>3, AddressedShape, Zenon
<1>2. f \in SendFrom \cup {"none"}
  <2>1. CASE offers = {}
      BY <2>1, <1>1 DEF PageRecord
  <2>2. CASE offers # {}
    <3>1. PICK m \in offers : TRUE
        BY <2>2
    <3>2. (CHOOSE x \in offers : TRUE) \in offers
        BY <3>1
    <3> QED
        BY <3>2, <2>2
  <2> QED
      BY <2>1, <2>2
<1>3. l \in BOOLEAN
    OBVIOUS
<1>4. Requested(s, kind, fixed, offers) \in PageRecord
  <2>1. Requested(s, kind, fixed, offers) =
            [o EXCEPT !.resolves = FALSE, !.fixed = fixed, !.offers = offers, !.from = f,
                      !.listens = l]
      BY DEF Requested
  <2> HIDE DEF o, f, l
  <2>2. [o EXCEPT !.resolves = FALSE, !.fixed = fixed, !.offers = offers, !.from = f,
                  !.listens = l] \in PageRecord
      BY <1>1, <1>2, <1>3, OffersUpdate, Zenon
  <2> QED
      BY <2>1, <2>2, Zenon
<1>5. Unpayable(s, fixed) \in PageRecord
  <2>1. ASSUME NEW v \in BOOLEAN
        PROVE  [s EXCEPT !.resolves = FALSE, !.fixed = fixed, !.listens = v] \in PageRecord
      BY DEF PageRecord
  <2>2. (s.listens \/ (fixed /\ s.token # 0)) \in BOOLEAN
      OBVIOUS
  <2> QED
      BY <2>1, <2>2, Zenon DEF Unpayable
<1> QED
    BY <1>4, <1>5

\* A case says of its request what the reducer needs.
LEMMA CaseShape == may \in SendCases => may.fixed \in BOOLEAN /\ may.accepts \in SUBSET SendFrom
BY SendScreenAssumptions DEF SendScreenAssumptions

\* Only mints are offered.
LEMMA OffersShape ==
    ASSUME NEW c, c.accepts \in SUBSET SendFrom, NEW offers \in Offers(c)
    PROVE  offers \in SUBSET SendFrom
BY DEF Offers

\* The end of a task answers the calls that wait, and changes only its own transaction.
LEMMA AnsweredShape ==
    ASSUME PageShapes, SendReferences, NEW n \in DOMAIN sends, NEW t \in SendRecord, t.heard = sends[n].heard
    PROVE  /\ Answered(n, t) \in Seq(SendRecord)
           /\ DOMAIN Answered(n, t) = DOMAIN sends
           /\ \A k \in DOMAIN sends :
                /\ Answered(n, t)[k].status = (IF k = n THEN t ELSE sends[k]).status
                /\ Answered(n, t)[k].claimed = (IF k = n THEN t ELSE sends[k]).claimed
                /\ Answered(n, t)[k].heard \in {n, sends[k].heard}
<1> DEFINE R(k) == IF k = n THEN t ELSE sends[k]
           A(k) == IF k \in page.waits THEN [R(k) EXCEPT !.heard = n] ELSE R(k)
<1>1. n \in Nat /\ \A k \in DOMAIN sends : R(k) \in SendRecord
    BY DEF PageShapes
<1>2. \A k \in DOMAIN sends :
        /\ A(k) \in SendRecord /\ A(k).status = R(k).status /\ A(k).claimed = R(k).claimed
        /\ A(k).heard \in {n, sends[k].heard}
    BY <1>1 DEF SendRecord
<1>3. Answered(n, t) = [k \in DOMAIN sends |-> A(k)]
    BY DEF Answered
<1>4. Len(sends) \in Nat /\ DOMAIN sends = 1..Len(sends)
    BY DEF PageShapes
<1> HIDE DEF A
<1>5. Answered(n, t) \in Seq(SendRecord)
    BY <1>2, <1>3, <1>4
<1> QED
    BY <1>2, <1>3, <1>5

-----------------------------------------------------------------------------
\* The screen opens without calls, deliveries or a token.
LEMMA SendInitStep == SendInit => SendInv
<1> SUFFICES ASSUME SendInit PROVE SendInv
    OBVIOUS
<1>1. EmptyScreen \in PageRecord
    BY DEF EmptyScreen, PageRecord, Option, Settled, Modal
<1>2. may.fixed \in BOOLEAN /\ may.accepts \in SUBSET SendFrom
    BY CaseShape DEF SendInit
<1>3. /\ page \in PageRecord /\ page.token = 0 /\ page.waits = {}
      /\ page.modals \subseteq {"selector"} /\ page.status = "none" /\ ~page.listens
      /\ page.option = "request" => ~page.resolves
  <2>1. CASE may.opens = "plain"
    <3>1. PICK m \in SendFrom \cup {"none"} : page = [EmptyScreen EXCEPT !.from = m]
        BY <2>1 DEF SendInit
    <3>2. page \in PageRecord
        BY <3>1, <1>1 DEF PageRecord
    <3> QED
        BY <3>1, <3>2 DEF EmptyScreen
  <2>2. CASE may.opens = "contact"
    <3>1. page = ToContact(EmptyScreen)
        BY <2>2 DEF SendInit
    <3> QED
        BY <3>1, <1>1, ContactShape DEF ToContact, Addressed, Opened, EmptyScreen
  <2>3. CASE may.opens = "late"
    <3>1. page = [EmptyScreen EXCEPT !.resolves = TRUE]
        BY <2>3 DEF SendInit
    <3>2. page \in PageRecord
        BY <3>1, <1>1 DEF PageRecord
    <3> QED
        BY <3>1, <3>2 DEF EmptyScreen
  <2>4. CASE may.opens \notin {"plain", "contact", "late"}
    <3>1. PICK offers \in Offers(may) :
              \/ page = Requested(EmptyScreen, may.opens, may.fixed, offers)
              \/ page = Unpayable(EmptyScreen, may.fixed)
        BY <2>4 DEF SendInit
    <3>2. offers \in SUBSET SendFrom
        BY <1>2, OffersShape
    <3>3. page \in PageRecord
        BY <3>1, <3>2, <1>1, <1>2, RequestShapes
    <3>4. CASE page = Requested(EmptyScreen, may.opens, may.fixed, offers)
        BY <3>4, <3>3 DEF Requested, Addressed, Opened, EmptyScreen
    <3>5. CASE page = Unpayable(EmptyScreen, may.fixed)
        BY <3>5, <3>3 DEF Unpayable, EmptyScreen
    <3> QED
        BY <3>1, <3>4, <3>5
  <2> QED
      BY <2>1, <2>2, <2>3, <2>4
<1>4. sends = <<>> /\ deliveries = <<>>
    BY DEF SendInit
<1> QED
    BY <1>3, <1>4 DEF SendInv, PageShapes, SendReferences, CompletedIsClaimed, OneToken, OneCall, ForRequest

-----------------------------------------------------------------------------
\* Steps that keep the token, what is for the request, and the calls or their overlay.
LEMMA Steady ==
    ASSUME SendInv, PageShapes',
           DOMAIN sends \subseteq DOMAIN sends',
           \A n \in DOMAIN sends : sends[n].claimed = "all" => sends'[n].claimed = "all",
           \A n \in DOMAIN sends' : sends'[n].status = "COMPLETED" => sends'[n].claimed = "all",
           \A c \in DOMAIN sends' : sends'[c].heard # 0 => sends'[c].heard \in DOMAIN sends',
           DOMAIN deliveries' = DOMAIN deliveries,
           \A d \in DOMAIN deliveries : /\ deliveries'[d].of = deliveries[d].of
                                        /\ deliveries'[d].option = deliveries[d].option,
           page'.token = page.token, page'.open = page.open,
           page'.resolves = page.resolves,
           page'.option = "request" => page.option = "request",
           page'.status = "COMPLETED" => \/ page.status = "COMPLETED"
                                           \/ /\ page.token # 0
                                              /\ sends'[page.token].claimed = "all",
           page'.waits \subseteq DOMAIN sends',
           page'.modals \cap {"nostrDM", "post"} # {} \/ page'.listens => page.token # 0,
           page.open => OneCall' \/ NoRequest
    PROVE  SendInv'
<1>1. SendReferences'
  <2>1. deliveries' # <<>> => deliveries # <<>>
      BY DEF SendInv, PageShapes
  <2> QED
      BY <2>1 DEF SendInv, SendReferences
<1>2. CompletedIsClaimed'
    BY DEF SendInv, SendReferences, CompletedIsClaimed
<1>3. \A d : ForRequest(d)' <=> ForRequest(d)
    BY DEF ForRequest
<1>4. OneToken'
    BY <1>3 DEF SendInv, OneToken, NoRequest, ForRequest
<1> QED
    BY <1>1, <1>2, <1>4 DEF SendInv

\* Steps of the screen by which neither the calls nor the overlay change.
LEMMA Calm ==
    ASSUME SendInv, UNCHANGED <<sends, deliveries>>, page' \in PageRecord,
           page'.token = page.token, page'.open = page.open,
           page'.resolves = page.resolves,
           page'.option = "request" => page.option = "request",
           page'.status = "COMPLETED" => \/ page.status = "COMPLETED"
                                           \/ /\ page.token # 0
                                              /\ sends[page.token].claimed = "all",
           page'.waits = page.waits, page'.loading = page.loading,
           page'.modals \cap {"nostrDM", "post"} # {} \/ page'.listens => page.token # 0,
           "proofs" \in page'.modals =>
                "proofs" \in page.modals \/ (~page.loading /\ page.token = 0)
    PROVE  SendInv'
<1>1. page.open => OneCall' \/ NoRequest
    BY DEF SendInv, OneToken, OneCall
<1>2. PageShapes'
    BY DEF SendInv, PageShapes
<1> QED
    BY <1>1, <1>2, Steady DEF SendInv, SendReferences, CompletedIsClaimed

\* An error takes the overlay away; there is no call under it, or no request.
LEMMA ErrorStep ==
    ASSUME SendInv, UNCHANGED sends, deliveries' \in Seq(DeliveryRecord),
           DOMAIN deliveries' = DOMAIN deliveries,
           \A d \in DOMAIN deliveries : /\ deliveries'[d].of = deliveries[d].of
                                        /\ deliveries'[d].option = deliveries[d].option,
           page.open, page' = SetError(page), page.token # 0 \/ ~page.loading
    PROVE  SendInv'
<1>1. page \in PageRecord /\ page' \in PageRecord
    BY ErrorShape DEF SendInv, PageShapes
<1>2. /\ page'.token = page.token /\ page'.open = page.open
      /\ page'.resolves = page.resolves /\ page'.option = page.option
      /\ page'.status = page.status /\ page'.waits = page.waits
      /\ page'.listens = page.listens /\ ~page'.loading
      /\ page'.modals = page.modals \ (Modal \ {"result"})
    BY <1>1 DEF SetError, Closed, PageRecord
<1>3. page'.modals \cap {"nostrDM", "post", "proofs"} = {}
    BY <1>1, <1>2 DEF Modal, PageRecord
<1>4. OneCall' \/ NoRequest
    BY <1>2, <1>3 DEF SendInv, OneToken, OneCall
<1>5. PageShapes'
    BY <1>1 DEF SendInv, PageShapes
<1> QED
    BY <1>2, <1>3, <1>4, <1>5, Steady DEF SendInv, SendReferences, CompletedIsClaimed

-----------------------------------------------------------------------------
(* The steps.                                                              *)

\* Taps and effects that move neither calls nor tokens.
LEMMA PageSteps ==
    ASSUME SendInv,
           \/ NetworkChanges \/ EnterAmount \/ (\E m \in SendFrom : SelectFrom(m))
           \/ LockToFriend \/ CancelLock \/ PickContact \/ ShowMessage \/ ResultModalOpens
           \/ (\E m \in Modal \ {"selector"} : CloseModal(m))
    PROVE  SendInv'
<1> USE DEF SendInv, PageShapes
<1>1. CASE NetworkChanges
  <2>1. page' \in PageRecord
      BY <1>1 DEF NetworkChanges, PageRecord
  <2> QED
      BY <1>1, <2>1, Calm DEF NetworkChanges, PageRecord, SendReferences
<1>2. CASE EnterAmount
  <2>1. Opened(page, {"selector"}) \in PageRecord
      BY ModalShapes DEF Modal
  <2>2. page' \in PageRecord
      BY <1>2, <2>1, SendScreenAssumptions DEF EnterAmount, PageRecord, SendScreenAssumptions
  <2> QED
      BY <1>2, <2>2, Calm DEF EnterAmount, Opened, PageRecord, SendReferences
<1>3. CASE \E m \in SendFrom : SelectFrom(m)
  <2>1. page' \in PageRecord
      BY <1>3 DEF SelectFrom, PageRecord
  <2> QED
      BY <1>3, <2>1, Calm DEF SelectFrom, PageRecord, SendReferences
<1>4. CASE LockToFriend \/ PickContact
  <2>1. page' = ToContact(page) /\ UNCHANGED <<sends, deliveries>>
      BY <1>4 DEF LockToFriend, PickContact
  <2>2. page' \in PageRecord
      BY <2>1, ContactShape
  <2> QED
      BY <2>1, <2>2, Calm DEF ToContact, Addressed, Opened, PageRecord, SendReferences
<1>5. CASE CancelLock
  <2>1. page' \in PageRecord
      BY <1>5 DEF CancelLock, PageRecord
  <2> QED
      BY <1>5, <2>1, Calm DEF CancelLock, PageRecord, SendReferences
<1>6. CASE ShowMessage
  <2>1. page' \in PageRecord
      BY <1>6, ModalShapes DEF ShowMessage, Modal
  <2> QED
      BY <1>6, <2>1, Calm DEF ShowMessage, TokenShown, Opened, PageRecord, SendReferences
<1>7. CASE ResultModalOpens
  <2>1. Opened(page, {"result"}) \in PageRecord
      BY ModalShapes DEF Modal
  <2>2. page' \in PageRecord
      BY <1>7, <2>1 DEF ResultModalOpens, PageRecord
  <2> QED
      BY <1>7, <2>2, Calm DEF ResultModalOpens, Opened, PageRecord, SendReferences
<1>8. CASE \E m \in Modal \ {"selector"} : CloseModal(m)
  <2>1. PICK m \in Modal \ {"selector"} : CloseModal(m)
      BY <1>8
  <2>2. page' \in PageRecord
      BY <2>1, ModalShapes DEF CloseModal
  <2> QED
      BY <2>1, <2>2, Calm DEF CloseModal, Closed, PageRecord, SendReferences
<1> QED
    BY <1>1, <1>2, <1>3, <1>4, <1>5, <1>6, <1>7, <1>8

\* Leaving forgets the token; the calls go on.
LEMMA LeaveStep == ASSUME SendInv, LeaveSendScreen PROVE SendInv'
<1>1. page' = [EmptyScreen EXCEPT !.open = FALSE, !.waits = page.waits]
    BY DEF LeaveSendScreen
<1>2. page' \in PageRecord
    BY <1>1 DEF SendInv, PageShapes, PageRecord, EmptyScreen, Option, Settled, Modal
<1>3. UNCHANGED <<sends, deliveries>>
    BY DEF LeaveSendScreen
<1>4. /\ ~page'.open /\ ~page'.resolves /\ page'.option # "request"
      /\ page'.token = 0 /\ page'.status = "none" /\ page'.modals = {}
      /\ page'.waits = page.waits /\ ~page'.listens
    BY <1>1 DEF EmptyScreen
<1> QED
    BY <1>2, <1>3, <1>4 DEF SendInv, PageShapes, SendReferences, CompletedIsClaimed, OneToken, ForRequest

\* A request arrives on top of a call or a token, or proves wrong.
LEMMA ResolveStep == ASSUME SendInv, RequestResolves, may.fixed \in BOOLEAN, may.accepts \in SUBSET SendFrom
                     PROVE  SendInv'
<1>1. /\ UNCHANGED <<sends, deliveries>> /\ page.resolves /\ page.option # "request"
      /\ \A d : ~ForRequest(d)
    BY DEF RequestResolves, SendInv, OneToken
<1>2. \A d : ~ForRequest(d)'
    BY <1>1 DEF ForRequest
<1>3. page.open => OneCall
    BY <1>1 DEF SendInv, OneToken, NoRequest
<1>4. ASSUME page' \in PageRecord, ~page'.resolves, page'.token = page.token,
             page'.open = page.open, page'.status = page.status,
             page'.waits = page.waits,
             page'.modals \cap {"nostrDM", "post"} \subseteq page.modals,
             page'.listens => page.token # 0,
             page.open => OneCall' \/ NoRequest'
      PROVE  SendInv'
  <2>1. PageShapes' /\ SendReferences' /\ CompletedIsClaimed'
      BY <1>1, <1>4 DEF SendInv, PageShapes, SendReferences, CompletedIsClaimed
  <2>2. OneToken'
      BY <1>2, <1>4 DEF OneToken
  <2> QED
      BY <2>1, <2>2 DEF SendInv
<1>5. ASSUME NEW offers \in Offers(may), page' = Requested(page, "nostr", may.fixed, offers)
      PROVE  SendInv'
  <2>1. page' \in PageRecord
      BY <1>5, OffersShape, RequestShapes DEF SendInv, PageShapes
  <2>2. /\ ~page'.resolves /\ page'.token = page.token /\ page'.open = page.open
        /\ page'.status = page.status /\ page'.waits = page.waits
        /\ page'.loading = page.loading /\ page'.modals = page.modals \cup {"selector"}
        /\ page'.listens => page.token # 0
      BY <1>5 DEF SendInv, SendReferences, PageShapes, PageRecord, Requested, Addressed, Opened
  <2>3. page.open => OneCall'
      BY <1>3, <2>2 DEF OneCall
  <2> QED
      BY <1>4, <2>1, <2>2, <2>3
<1>6. CASE page' = Unpayable(page, may.fixed)
  <2>1. page' \in PageRecord
      BY <1>6, RequestShapes DEF SendInv, PageShapes
  <2>2. /\ ~page'.resolves /\ page'.token = page.token /\ page'.open = page.open
        /\ page'.status = page.status /\ page'.waits = page.waits
        /\ page'.loading = page.loading /\ page'.modals = page.modals
        /\ page'.listens => page.token # 0
      BY <1>6 DEF SendInv, SendReferences, PageShapes, PageRecord, Unpayable
  <2>3. page.open => OneCall'
      BY <1>3, <2>2 DEF OneCall
  <2> QED
      BY <1>4, <2>1, <2>2, <2>3
<1>7. CASE page' = [SetError(page) EXCEPT !.resolves = FALSE]
  <2>1. SetError(page) \in PageRecord
      BY ErrorShape DEF SendInv, PageShapes
  <2>2. page' \in PageRecord
      BY <1>7, <2>1 DEF PageRecord
  <2>3. /\ ~page'.resolves /\ page'.token = page.token /\ page'.open = page.open
        /\ page'.status = page.status /\ page'.waits = page.waits
        /\ page'.option = page.option
        /\ page'.modals = page.modals \ (Modal \ {"result"})
        /\ page'.listens => page.token # 0
      BY <1>7 DEF SendInv, SendReferences, PageShapes, PageRecord, SetError, Closed
  <2>4. NoRequest'
      BY <1>1, <1>2, <2>3 DEF NoRequest
  <2> QED
      BY <1>4, <2>2, <2>3, <2>4
<1> QED
    BY <1>5, <1>6, <1>7 DEF RequestResolves

\* A call is begun before there is a token, under a new overlay.
LEMMA CallStep ==
    ASSUME SendInv, NEW s \in PageRecord, CallSend(s), UNCHANGED deliveries,
           ~page.loading, page.token = 0 \/ NoRequest,
           s = [page EXCEPT !.modals = s.modals], s.modals \subseteq page.modals,
           "proofs" \notin s.modals
    PROVE  SendInv'
<1> DEFINE n == Len(sends) + 1
           r == [mint |-> s.from, option |-> s.option, relays |-> s.relays, post |-> s.post,
                 heard |-> 0, at |-> "queued", status |-> "none", ecash |-> "none",
                 claimed |-> "none", linked |-> FALSE]
<1>1. r \in SendRecord
    BY DEF SendRecord, PageRecord, Settled
<1>2. sends' = Append(sends, r)
    BY DEF CallSend
<1>3. sends' \in Seq(SendRecord) /\ Len(sends') = n /\ n \in Nat
    BY <1>1, <1>2 DEF SendInv, PageShapes
<1>4. /\ DOMAIN sends \subseteq DOMAIN sends' /\ sends'[n] = r
      /\ \A k \in DOMAIN sends : sends'[k] = sends[k]
      /\ \A k \in DOMAIN sends' : k \in DOMAIN sends \/ k = n
    BY <1>1, <1>2, <1>3 DEF SendInv, PageShapes
<1>5. page' = [s EXCEPT !.loading = TRUE, !.waits = @ \cup {n}]
    BY <1>3 DEF CallSend
<1>6. page' \in PageRecord
    BY <1>3, <1>5 DEF PageRecord
<1>7. /\ page'.token = page.token /\ page'.open = page.open
      /\ page'.resolves = page.resolves /\ page'.option = page.option
      /\ page'.status = page.status /\ page'.waits = page.waits \cup {n}
      /\ page'.loading /\ page'.modals = s.modals /\ page'.listens = page.listens
    BY <1>5 DEF SendInv, PageShapes, PageRecord
<1>8. PageShapes'
    BY <1>3, <1>6 DEF SendInv, PageShapes
<1>9. page.open => OneCall' \/ NoRequest
  <2>1. ASSUME page.open, OneCall, page.token = 0 PROVE OneCall'
    <3>1. page.waits = {}
        BY <2>1 DEF OneCall
    <3> QED
        BY <3>1, <2>1, <1>7 DEF OneCall
  <2> QED
      BY <2>1 DEF SendInv, OneToken
<1>10. page'.waits \subseteq DOMAIN sends'
    BY <1>3, <1>4, <1>7 DEF SendInv, SendReferences, PageShapes
<1>11. /\ \A k \in DOMAIN sends' : sends'[k].status = "COMPLETED" => sends'[k].claimed = "all"
       /\ \A c \in DOMAIN sends' : sends'[c].heard # 0 => sends'[c].heard \in DOMAIN sends'
    BY <1>4 DEF SendInv, CompletedIsClaimed, SendReferences
<1> HIDE DEF n, r
<1> QED
    BY <1>4, <1>7, <1>8, <1>9, <1>10, <1>11, Steady DEF SendInv, SendReferences

\* onMintBalanceConfirm.
LEMMA ConfirmStep == ASSUME SendInv, Confirm PROVE SendInv'
<1>1. /\ SelectorShown /\ UNCHANGED deliveries /\ page \in PageRecord
      /\ ~page.loading /\ page.token = 0 /\ page.open
      /\ page.modals \subseteq {"selector"}
    BY DEF Confirm, SelectorShown, TapsPass, SendInv, PageShapes
<1>2. CASE CallSend(page)
    BY <1>1, <1>2, CallStep DEF PageRecord
<1>3. CASE page' = SetError(page) /\ UNCHANGED sends
    BY <1>1, <1>3, ErrorStep DEF SendInv, PageShapes
<1>4. CASE page' = Opened(page, {"proofs"}) /\ UNCHANGED sends
  <2>1. page' \in PageRecord
      BY <1>1, <1>4, ModalShapes DEF Modal
  <2> QED
      BY <1>1, <1>4, <2>1, Calm DEF Opened, PageRecord, SendInv, SendReferences
<1> QED
    BY <1>2, <1>3, <1>4 DEF Confirm, ConfirmWith

\* onOfflineSendConfirm.
LEMMA ConfirmProofsStep == ASSUME SendInv, ConfirmProofs PROVE SendInv'
<1> DEFINE s == Closed(page, {"proofs"})
<1>1. /\ "proofs" \in page.modals /\ ~page.loading /\ UNCHANGED deliveries
      /\ page \in PageRecord /\ ConfirmWith(s)
    BY DEF ConfirmProofs, SendInv, PageShapes
<1>2. s \in PageRecord /\ s.modals = page.modals \ {"proofs"}
    BY <1>1, ModalShapes DEF Closed, Modal, PageRecord
<1>3. s = [page EXCEPT !.modals = s.modals]
    BY <1>1 DEF Closed, PageRecord
<1>4. page.open => page.token = 0 \/ NoRequest
    BY <1>1 DEF SendInv, OneToken, OneCall
<1>5. page.open
    BY DEF ConfirmProofs
<1>6. CASE CallSend(s)
    BY <1>1, <1>2, <1>3, <1>4, <1>5, <1>6, CallStep
<1>7. CASE page' = Opened(s, {"proofs"}) /\ UNCHANGED sends
  <2>1. page' \in PageRecord
      BY <1>2, <1>7, ModalShapes DEF Modal
  <2> QED
      BY <1>1, <1>2, <1>7, <2>1, Calm DEF Opened, Closed, PageRecord, SendInv, SendReferences
<1> QED
    BY <1>1, <1>6, <1>7 DEF ConfirmWith

-----------------------------------------------------------------------------
\* Steps of the queue and of claims.
LEMMA SendsStep ==
    ASSUME SendInv, UNCHANGED <<page, deliveries>>, sends' \in Seq(SendRecord),
           DOMAIN sends' = DOMAIN sends,
           \A n \in DOMAIN sends : /\ sends[n].claimed = "all" => sends'[n].claimed = "all"
                                   /\ sends'[n].status = "COMPLETED" => sends'[n].claimed = "all"
                                   /\ sends'[n].heard # 0 => sends'[n].heard \in DOMAIN sends
    PROVE  SendInv'
<1>1. page.open => OneCall' \/ NoRequest
    BY DEF SendInv, OneToken, OneCall
<1>2. PageShapes'
    BY DEF SendInv, PageShapes
<1> QED
    BY <1>1, <1>2, Steady DEF SendInv, SendReferences, CompletedIsClaimed

\* A task starts or ends, or a token is claimed.
LEMMA QueueSteps ==
    ASSUME SendInv, NEW n \in DOMAIN sends, SendTaskStarts(n) \/ SendTaskEnds(n) \/ Claim(n)
    PROVE  SendInv'
<1>1. /\ sends \in Seq(SendRecord) /\ n \in Nat \ {0} /\ \A k \in DOMAIN sends : sends[k] \in SendRecord
      /\ PageShapes /\ SendReferences
      /\ \A k \in DOMAIN sends : /\ sends[k].status = "COMPLETED" => sends[k].claimed = "all"
                                 /\ sends[k].heard # 0 => sends[k].heard \in DOMAIN sends
    BY DEF SendInv, PageShapes, SendReferences, CompletedIsClaimed
<1>2. ASSUME NEW t \in SendRecord
      PROVE  [sends EXCEPT ![n] = t] \in Seq(SendRecord)
    BY <1>1
<1>3. CASE SendTaskStarts(n)
  <2>1. [sends[n] EXCEPT !.at = "running"] \in SendRecord
      BY <1>1 DEF SendRecord
  <2>2. sends' = [sends EXCEPT ![n] = [sends[n] EXCEPT !.at = "running"]]
      BY <1>1, <1>3 DEF SendTaskStarts
  <2>3. \A k \in DOMAIN sends : /\ sends'[k].claimed = sends[k].claimed
                                /\ sends'[k].status = sends[k].status
                                /\ sends'[k].heard = sends[k].heard
      BY <1>1, <2>1, <2>2 DEF SendRecord
  <2>4. sends' \in Seq(SendRecord) /\ DOMAIN sends' = DOMAIN sends
      BY <1>2, <2>1, <2>2
  <2>5. UNCHANGED <<page, deliveries>>
      BY <1>3 DEF SendTaskStarts
  <2> QED
      BY <1>1, <2>3, <2>4, <2>5, SendsStep
<1>4. CASE SendTaskEnds(n)
  <2>1. PICK t \in SendRecord :
            /\ sends' = Answered(n, t) /\ t.heard = sends[n].heard
            /\ t.status # "COMPLETED" /\ t.claimed = sends[n].claimed
    <3> DEFINE p == [sends[n] EXCEPT !.at = "ended", !.status = "PENDING", !.ecash = "PENDING"]
               e == [sends[n] EXCEPT !.at = "ended", !.status = "ERROR"]
    <3>1. p \in SendRecord /\ p.heard = sends[n].heard /\ p.status = "PENDING"
          /\ p.claimed = sends[n].claimed
        BY <1>1 DEF SendRecord, Settled
    <3>2. e \in SendRecord /\ e.heard = sends[n].heard /\ e.status = "ERROR"
          /\ e.claimed = sends[n].claimed
        BY <1>1 DEF SendRecord, Settled
    <3>3. sends' = Answered(n, p) \/ sends' = Answered(n, e)
        BY <1>4 DEF SendTaskEnds
    <3> HIDE DEF p, e
    <3> QED
        BY <3>1, <3>2, <3>3
  <2>2. /\ sends' \in Seq(SendRecord) /\ DOMAIN sends' = DOMAIN sends
        /\ \A k \in DOMAIN sends :
                /\ sends'[k].status = (IF k = n THEN t ELSE sends[k]).status
                /\ sends'[k].claimed = (IF k = n THEN t ELSE sends[k]).claimed
                /\ sends'[k].heard \in {n, sends[k].heard}
      BY <1>1, <2>1, AnsweredShape
  <2>3. UNCHANGED <<page, deliveries>>
      BY <1>4 DEF SendTaskEnds
  <2> QED
      BY <1>1, <2>1, <2>2, <2>3, SendsStep
<1>5. CASE Claim(n)
  <2>1. PICK c \in {"part", "all"} : sends' = [sends EXCEPT ![n].claimed = c]
      BY <1>5 DEF Claim
  <2>2. [sends[n] EXCEPT !.claimed = c] \in SendRecord
      BY <1>1 DEF SendRecord
  <2>3. sends' = [sends EXCEPT ![n] = [sends[n] EXCEPT !.claimed = c]]
      BY <1>1, <2>1
  <2>4. sends' \in Seq(SendRecord) /\ DOMAIN sends' = DOMAIN sends
      BY <1>2, <2>2, <2>3
  <2>5. UNCHANGED <<page, deliveries>> /\ sends[n].claimed # "all"
      BY <1>5 DEF Claim
  <2>6. \A k \in DOMAIN sends : /\ k # n => sends'[k] = sends[k]
                                /\ sends'[k].status = sends[k].status
                                /\ sends'[k].heard = sends[k].heard
      BY <1>1, <2>2, <2>3 DEF SendRecord
  <2> QED
      BY <1>1, <2>4, <2>5, <2>6, SendsStep
<1> QED
    BY <1>3, <1>4, <1>5

-----------------------------------------------------------------------------
\* The call that fails is the only one, or there is no request.
LEMMA TimeoutStep == ASSUME SendInv, NEW c \in DOMAIN sends, SendTimesOut(c) PROVE SendInv'
<1> DEFINE s == [page EXCEPT !.waits = @ \ {c}]
<1>1. /\ UNCHANGED <<sends, deliveries>> /\ c \in page.waits /\ page \in PageRecord
      /\ page' = IF s.open THEN SetError(s) ELSE s
    BY DEF SendTimesOut, SendInv, PageShapes
<1>2. s \in PageRecord /\ SetError(s) \in PageRecord
  <2>1. s \in PageRecord
      BY <1>1 DEF PageRecord
  <2> QED
      BY <2>1, ErrorShape
<1>3. /\ s.token = page.token /\ s.open = page.open /\ s.resolves = page.resolves
      /\ s.option = page.option /\ s.status = page.status /\ s.listens = page.listens
      /\ s.waits = page.waits \ {c} /\ s.modals = page.modals
    BY <1>1 DEF PageRecord
<1> HIDE DEF s
<1>4. CASE page.open
  <2>1. /\ page'.token = page.token /\ page'.open = page.open
        /\ page'.resolves = page.resolves /\ page'.option = page.option
        /\ page'.status = page.status /\ page'.waits = page.waits \ {c}
        /\ page'.listens = page.listens
        /\ page'.modals = page.modals \ (Modal \ {"result"})
      BY <1>1, <1>2, <1>3, <1>4 DEF SetError, Closed, PageRecord
  <2>2. page'.modals \cap {"nostrDM", "post", "proofs"} = {}
      BY <1>1, <2>1 DEF Modal, PageRecord
  <2>3. OneCall' \/ NoRequest
      BY <1>1, <1>4, <2>1, <2>2 DEF SendInv, OneToken, OneCall
  <2>4. PageShapes'
      BY <1>1, <1>2 DEF SendInv, PageShapes
  <2> QED
      BY <1>1, <2>1, <2>2, <2>3, <2>4, Steady DEF SendInv, SendReferences, CompletedIsClaimed
<1>5. CASE ~page.open
  <2>1. PageShapes' /\ page' = s
      BY <1>1, <1>2, <1>3, <1>5 DEF SendInv, PageShapes
  <2> QED
      BY <1>1, <1>3, <1>5, <2>1, Steady DEF SendInv, SendReferences, CompletedIsClaimed
<1> QED
    BY <1>4, <1>5

\* The fields SEND_TASK_SUCCESS sets.
LEMMA TokenUpdate ==
    ASSUME NEW o \in PageRecord, NEW n \in Nat, NEW v \in Settled
    PROVE  [o EXCEPT !.loading = FALSE, !.token = n, !.status = v, !.listens = TRUE]
                \in PageRecord
BY DEF PageRecord

\* The token of a call comes to the screen: there was none, or there is no request.
LEMMA MadeStep ==
    ASSUME SendInv, NEW c \in page.waits, NEW n \in DOMAIN sends, page.open,
           NEW s, s = [page EXCEPT !.waits = @ \ {c}], page' = Made(s, c, n),
           UNCHANGED deliveries, sends' \in Seq(SendRecord), DOMAIN sends' = DOMAIN sends,
           \A k \in DOMAIN sends : /\ sends'[k].claimed = sends[k].claimed
                                   /\ sends'[k].status = sends[k].status
                                   /\ sends'[k].heard = sends[k].heard
    PROVE  SendInv'
<1> DEFINE o == Opened(Closed(s, {"selector", "nostrDM", "post"}),
                       CASE sends[c].option = "contact" -> {"nostrDM"}
                         [] sends[c].option = "request" /\ sends[c].relays -> {"nostrDM"}
                         [] sends[c].option = "request" /\ sends[c].post -> {"post"}
                         [] OTHER -> {})
<1>1. page \in PageRecord /\ n \in Nat \ {0} /\ sends[n] \in SendRecord
    BY DEF SendInv, PageShapes
<1>2. s \in PageRecord
    BY <1>1 DEF PageRecord
<1>3. o \in PageRecord
    BY <1>2, ModalShapes DEF Modal
<1>4. /\ o.open = page.open /\ o.resolves = page.resolves /\ o.option = page.option
      /\ o.waits = page.waits \ {c}
      /\ o.modals \subseteq page.modals \cup {"nostrDM", "post"}
    BY <1>1 DEF Opened, Closed, PageRecord
<1>5. page' = [o EXCEPT !.loading = FALSE, !.token = n, !.status = sends[n].status,
                          !.listens = TRUE]
    BY DEF Made
<1> HIDE DEF o
<1>6. page' \in PageRecord
  <2>1. PICK v \in Settled : v = sends[n].status
      BY <1>1 DEF SendRecord
  <2>2. [o EXCEPT !.loading = FALSE, !.token = n, !.status = v, !.listens = TRUE]
            \in PageRecord
      BY <1>1, <1>3, TokenUpdate
  <2> QED
      BY <2>1, <2>2, <1>5
<1>7. /\ page'.open = page.open /\ page'.resolves = page.resolves
      /\ page'.option = page.option /\ page'.waits = page.waits \ {c}
      /\ page'.token = n /\ page'.status = sends[n].status /\ ~page'.loading
      /\ page'.modals \subseteq page.modals \cup {"nostrDM", "post"}
    BY <1>3, <1>4, <1>5 DEF PageRecord
<1>8. PageShapes' /\ SendReferences' /\ CompletedIsClaimed'
  <2>1. PageShapes'
      BY <1>6 DEF SendInv, PageShapes
  <2>2. SendReferences'
      BY <1>1, <1>7 DEF SendInv, SendReferences
  <2>3. CompletedIsClaimed'
      BY <1>1, <1>7 DEF SendInv, CompletedIsClaimed
  <2> QED
      BY <2>1, <2>2, <2>3
<1>9. OneToken'
  <2>1. CASE NoRequest
      BY <2>1, <1>7 DEF SendInv, OneToken, NoRequest, ForRequest
  <2>2. CASE OneCall
    <3>1. page.waits = {c} /\ page.loading /\ page.token = 0
        BY <2>2 DEF OneCall
    <3>2. page'.waits = {} /\ "proofs" \notin page'.modals
        BY <2>2, <3>1, <1>7 DEF OneCall
    <3>3. \A d : ~ForRequest(d)'
        BY <3>1 DEF SendInv, SendReferences, ForRequest
    <3>4. OneCall'
        BY <3>2 DEF OneCall
    <3> QED
        BY <3>3, <3>4, <1>7 DEF SendInv, OneToken
  <2> QED
      BY <2>1, <2>2 DEF SendInv, OneToken
<1> QED
    BY <1>8, <1>9 DEF SendInv

\* handleSendTaskResult.
LEMMA ResultStep == ASSUME SendInv, NEW c \in page.waits, SendResult(c) PROVE SendInv'
<1> DEFINE n == sends[c].heard
           s == [page EXCEPT !.waits = @ \ {c}]
           made == sends[n].ecash # "none"
           v == sends[n].linked \/ (made /\ sends[c].option = "request")
<1>1. /\ UNCHANGED deliveries /\ n \in DOMAIN sends /\ sends[n] \in SendRecord /\ n \in Nat \ {0}
      /\ page \in PageRecord
      /\ sends' = [sends EXCEPT ![n].linked = v]
      /\ page' = IF ~s.open THEN s ELSE IF made THEN Made(s, c, n) ELSE NotMade(s)
    BY DEF SendResult, SendInv, PageShapes, SendReferences
<1>2. /\ sends' \in Seq(SendRecord) /\ DOMAIN sends' = DOMAIN sends
      /\ \A k \in DOMAIN sends : /\ sends'[k].claimed = sends[k].claimed
                                 /\ sends'[k].status = sends[k].status
                                 /\ sends'[k].heard = sends[k].heard
  <2>1. v \in BOOLEAN
      BY <1>1 DEF SendRecord
  <2> HIDE DEF v
  <2>2. [sends[n] EXCEPT !.linked = v] \in SendRecord
      BY <1>1, <2>1 DEF SendRecord
  <2>3. sends' = [sends EXCEPT ![n] = [sends[n] EXCEPT !.linked = v]]
      BY <1>1
  <2> HIDE DEF n
  <2> QED
      BY <1>1, <2>2, <2>3 DEF SendInv, PageShapes, SendRecord
<1>3. s \in PageRecord
    BY <1>1 DEF PageRecord
<1>4. /\ s.token = page.token /\ s.open = page.open /\ s.resolves = page.resolves
      /\ s.option = page.option /\ s.status = page.status /\ s.listens = page.listens
      /\ s.waits = page.waits \ {c} /\ s.modals = page.modals
    BY <1>1 DEF PageRecord
<1> HIDE DEF n, s, made
<1>5. CASE ~page.open
  <2>1. page' = s
      BY <1>1, <1>4, <1>5
  <2>2. PageShapes'
      BY <1>1, <1>2, <1>3, <2>1 DEF SendInv, PageShapes
  <2> QED
      BY <1>1, <1>2, <1>4, <1>5, <2>1, <2>2, Steady DEF SendInv, SendReferences, CompletedIsClaimed
<1>6. CASE page.open /\ made
  <2>1. page' = Made(s, c, n)
      BY <1>1, <1>4, <1>6
  <2>2. s = [page EXCEPT !.waits = @ \ {c}]
      BY DEF s
  <2> QED
      BY <1>1, <1>2, <1>6, <2>1, <2>2, MadeStep
<1>7. CASE page.open /\ ~made
  <2>1. page' = NotMade(s)
      BY <1>1, <1>4, <1>7
  <2>2. Opened(s, {"result"}) \in PageRecord
      BY <1>3, ModalShapes DEF Modal
  <2>3. page' \in PageRecord
      BY <2>1, <2>2 DEF NotMade, PageRecord
  <2>4. /\ page'.token = page.token /\ page'.open = page.open
        /\ page'.resolves = page.resolves /\ page'.option = page.option
        /\ page'.status = page.status /\ page'.waits = page.waits \ {c}
        /\ page'.listens = page.listens /\ ~page'.loading
        /\ page'.modals = page.modals \cup {"result"}
      BY <1>3, <1>4, <2>1 DEF NotMade, Opened, PageRecord
  <2>5. OneCall' \/ NoRequest
      BY <1>7, <2>4 DEF SendInv, OneToken, OneCall
  <2>6. PageShapes'
      BY <1>1, <1>2, <2>3 DEF SendInv, PageShapes
  <2> QED
      BY <1>1, <1>2, <2>4, <2>5, <2>6, Steady DEF SendInv, SendReferences, CompletedIsClaimed
<1> QED
    BY <1>5, <1>6, <1>7

-----------------------------------------------------------------------------
\* A delivery is of the token on the screen, and of the last to leave for the request.
LEMMA DeliveryStarts ==
    ASSUME SendInv, NEW channel \in {"nostrDM", "post"}, CanDeliver(channel),
           StartDelivery(channel), UNCHANGED sends
    PROVE  SendInv'
<1> DEFINE r == [of |-> page.token, channel |-> channel, option |-> page.option,
                 arrived |-> FALSE, over |-> FALSE]
           e == Len(deliveries) + 1
<1>1. /\ page \in PageRecord /\ page.open /\ page.token # 0
      /\ page.token \in DOMAIN sends /\ e \in Nat
    BY DEF CanDeliver, SendInv, PageShapes, SendReferences
<1>2. r \in DeliveryRecord
    BY <1>1 DEF DeliveryRecord, PageRecord
<1>3. deliveries' = Append(deliveries, r)
    BY DEF StartDelivery
<1>4. /\ deliveries' \in Seq(DeliveryRecord) /\ deliveries'[e] = r
      /\ \A d \in DOMAIN deliveries : deliveries'[d] = deliveries[d]
      /\ \A d \in DOMAIN deliveries' : d \in DOMAIN deliveries \/ d = e
      /\ DOMAIN deliveries \subseteq DOMAIN deliveries'
    BY <1>2, <1>3 DEF SendInv, PageShapes
<1>5. page' = [page EXCEPT !.sending = @ \cup {channel}]
    BY DEF StartDelivery
<1>6. page' \in PageRecord
    BY <1>1, <1>5 DEF PageRecord
<1>7. /\ page'.open /\ page'.token = page.token /\ page'.resolves = page.resolves
      /\ page'.option = page.option /\ page'.status = page.status
      /\ page'.waits = page.waits /\ page'.loading = page.loading
      /\ page'.modals = page.modals /\ page'.listens = page.listens
    BY <1>1, <1>5 DEF PageRecord
<1>8. r.of = page.token /\ r.option = page.option
    OBVIOUS
<1> HIDE DEF r, e
<1>9. PageShapes' /\ SendReferences' /\ CompletedIsClaimed'
  <2>1. PageShapes'
      BY <1>4, <1>6 DEF SendInv, PageShapes
  <2>2. SendReferences'
      BY <1>1, <1>4, <1>7, <1>8 DEF SendInv, SendReferences
  <2>3. CompletedIsClaimed'
      BY <1>7 DEF SendInv, CompletedIsClaimed
  <2> QED
      BY <2>1, <2>2, <2>3
<1>10. OneToken'
  <2>1. ASSUME NEW d, ForRequest(d)' PROVE ~page.resolves /\ deliveries'[d].of = page.token
      BY <1>1, <1>4, <1>8, <2>1 DEF SendInv, OneToken, ForRequest
  <2>2. OneCall' \/ NoRequest'
    <3>1. CASE OneCall
        BY <3>1, <1>7 DEF OneCall
    <3>2. CASE NoRequest
        BY <3>2, <1>4, <1>7, <1>8 DEF NoRequest, ForRequest
    <3> QED
        BY <3>1, <3>2, <1>1 DEF SendInv, OneToken
  <2>3. page'.option = "request" => ~page'.resolves
      BY <1>7 DEF SendInv, OneToken
  <2> QED
      BY <2>1, <2>2, <2>3, <1>7 DEF OneToken
<1> QED
    BY <1>9, <1>10 DEF SendInv

\* A message that cannot be sent is an error after there is a token.
LEMMA DeliverySteps == ASSUME SendInv, SendAsNostrDM \/ SendAsPostRequest PROVE SendInv'
<1>1. CASE SendAsNostrDM /\ page' = SetError(page) /\ UNCHANGED deliveries
  <2>1. page.open /\ page.token # 0 /\ UNCHANGED sends
      BY <1>1 DEF SendAsNostrDM, CanDeliver, SendInv, SendReferences
  <2> QED
      BY <1>1, <2>1, ErrorStep DEF SendInv, PageShapes
<1>2. CASE SendAsNostrDM /\ StartDelivery("nostrDM")
    BY <1>2, DeliveryStarts DEF SendAsNostrDM
<1>3. CASE SendAsPostRequest
    BY <1>3, DeliveryStarts DEF SendAsPostRequest
<1> QED
    BY <1>1, <1>2, <1>3 DEF SendAsNostrDM

\* A delivery that is out keeps its token and its purpose.
LEMMA DeliveryGoesOn ==
    ASSUME SendInv, NEW d \in DOMAIN deliveries,
           \/ deliveries' = [deliveries EXCEPT ![d].arrived = TRUE]
           \/ deliveries' = [deliveries EXCEPT ![d].over = TRUE]
    PROVE  /\ deliveries' \in Seq(DeliveryRecord) /\ DOMAIN deliveries' = DOMAIN deliveries
           /\ \A e \in DOMAIN deliveries : /\ deliveries'[e].of = deliveries[e].of
                                           /\ deliveries'[e].option = deliveries[e].option
           /\ page.open => page.token # 0
<1>1. /\ deliveries \in Seq(DeliveryRecord) /\ deliveries[d] \in DeliveryRecord
      /\ deliveries # <<>>
    BY DEF SendInv, PageShapes
<1>2. PICK r \in DeliveryRecord :
          /\ deliveries' = [deliveries EXCEPT ![d] = r]
          /\ r.of = deliveries[d].of /\ r.option = deliveries[d].option
  <2> DEFINE a == [deliveries[d] EXCEPT !.arrived = TRUE]
             o == [deliveries[d] EXCEPT !.over = TRUE]
  <2>1. /\ a \in DeliveryRecord /\ a.of = deliveries[d].of /\ a.option = deliveries[d].option
        /\ o \in DeliveryRecord /\ o.of = deliveries[d].of /\ o.option = deliveries[d].option
      BY <1>1 DEF DeliveryRecord
  <2>2. deliveries' = [deliveries EXCEPT ![d] = a] \/ deliveries' = [deliveries EXCEPT ![d] = o]
      BY <1>1
  <2> HIDE DEF a, o
  <2> QED
      BY <2>1, <2>2
<1> QED
    BY <1>1, <1>2 DEF SendInv, SendReferences

\* The answers to a delivery.
LEMMA DeliveryEnds ==
    ASSUME SendInv, NEW d \in DOMAIN deliveries,
           DeliveryArrives(d) \/ DeliveryConfirmed(d) \/ DeliveryUnsure(d) \/ DeliveryFails(d)
    PROVE  SendInv'
<1>1. /\ deliveries' \in Seq(DeliveryRecord) /\ DOMAIN deliveries' = DOMAIN deliveries
      /\ \A e \in DOMAIN deliveries : /\ deliveries'[e].of = deliveries[e].of
                                      /\ deliveries'[e].option = deliveries[e].option
      /\ page.open => page.token # 0
    BY DeliveryGoesOn DEF DeliveryArrives, DeliveryConfirmed, DeliveryUnsure, DeliveryFails
<1>2. /\ page \in PageRecord /\ sends \in Seq(SendRecord)
      /\ deliveries[d] \in DeliveryRecord /\ deliveries[d].of \in DOMAIN sends
    BY DEF SendInv, PageShapes, SendReferences
\* What the screen shows of it touches neither the calls nor the overlay.
<1>3. ASSUME UNCHANGED sends, page' \in PageRecord,
             page' = [page EXCEPT !.sending = page'.sending, !.sent = page'.sent]
      PROVE  SendInv'
  <2>1. /\ page'.token = page.token /\ page'.open = page.open
        /\ page'.resolves = page.resolves /\ page'.option = page.option
        /\ page'.status = page.status /\ page'.waits = page.waits
        /\ page'.listens = page.listens /\ page'.loading = page.loading
        /\ page'.modals = page.modals
      BY <1>2, <1>3 DEF PageRecord
  <2>2. page.open => OneCall' \/ NoRequest
      BY <2>1 DEF SendInv, OneToken, OneCall
  <2>3. PageShapes'
      BY <1>1, <1>3 DEF SendInv, PageShapes
  <2> QED
      BY <1>1, <1>3, <2>1, <2>2, <2>3, Steady DEF SendInv, SendReferences, CompletedIsClaimed
<1>4. CASE UNCHANGED <<page, sends>>
  <2>1. page.open => OneCall' \/ NoRequest
      BY <1>4 DEF SendInv, OneToken, OneCall
  <2>2. PageShapes'
      BY <1>1, <1>4 DEF SendInv, PageShapes
  <2> QED
      BY <1>1, <1>4, <2>1, <2>2, Steady DEF SendInv, SendReferences, CompletedIsClaimed
<1>5. CASE page.open /\ page' = SetError(page) /\ UNCHANGED sends
    BY <1>1, <1>5, ErrorStep
<1>6. CASE DeliveryConfirmed(d)
  <2>0. PICK n \in DOMAIN sends : n = deliveries[d].of
      BY <1>2
  <2>1. /\ sends' = [sends EXCEPT ![n].status = "PENDING"]
        /\ page' = IF ~page.open THEN page
                     ELSE [page EXCEPT !.sending = @ \ {deliveries[d].channel},
                                         !.sent = @ \cup {deliveries[d].channel}]
      BY <1>6, <2>0 DEF DeliveryConfirmed
  <2>2. page' \in PageRecord
      BY <1>2, <2>1 DEF PageRecord, DeliveryRecord
  <2>3. /\ page'.token = page.token /\ page'.open = page.open
        /\ page'.resolves = page.resolves /\ page'.option = page.option
        /\ page'.status = page.status /\ page'.waits = page.waits
        /\ page'.listens = page.listens /\ page'.loading = page.loading
        /\ page'.modals = page.modals
      BY <1>2, <2>1 DEF PageRecord
  <2>4. /\ sends' \in Seq(SendRecord) /\ DOMAIN sends' = DOMAIN sends
        /\ \A k \in DOMAIN sends : /\ sends'[k].claimed = sends[k].claimed
                                   /\ sends'[k].heard = sends[k].heard
                                   /\ sends'[k].status \in {"PENDING", sends[k].status}
    <3> sends[n] \in SendRecord
        BY <1>2
    <3>1. [sends[n] EXCEPT !.status = "PENDING"] \in SendRecord
        BY DEF SendRecord, Settled
    <3>2. sends' = [sends EXCEPT ![n] = [sends[n] EXCEPT !.status = "PENDING"]]
        BY <1>2, <2>1
    <3>3. /\ sends' \in Seq(SendRecord) /\ DOMAIN sends' = DOMAIN sends
          /\ \A k \in DOMAIN sends : k # n => sends'[k] = sends[k]
          /\ sends'[n] = [sends[n] EXCEPT !.status = "PENDING"]
        BY <1>2, <3>1, <3>2
    <3> QED
        BY <3>1, <3>3 DEF SendRecord
  <2>5. PageShapes'
      BY <1>1, <2>2, <2>4 DEF SendInv, PageShapes
  <2>6. page.open => OneCall' \/ NoRequest
      BY <2>3 DEF SendInv, OneToken, OneCall
  <2> QED
      BY <1>1, <2>3, <2>4, <2>5, <2>6, Steady DEF SendInv, SendReferences, CompletedIsClaimed
<1>7. CASE DeliveryUnsure(d) /\ page.open /\ deliveries[d].channel = "nostrDM"
  <2>1. /\ page' = [page EXCEPT !.sending = @ \ {"nostrDM"}, !.sent = @ \ {"nostrDM"}]
        /\ UNCHANGED sends
      BY <1>7 DEF DeliveryUnsure
  <2> QED
      BY <1>2, <1>3, <2>1 DEF PageRecord
<1> QED
    BY <1>4, <1>5, <1>6, <1>7 DEF DeliveryArrives, DeliveryUnsure, DeliveryFails

-----------------------------------------------------------------------------
\* A sync tells of a claim, or of something else.
LEMMA ToldStep ==
    ASSUME SendInv, NEW n, NEW s \in {"COMPLETED", "ERROR"}, page' = ToldOf(n, s),
           UNCHANGED deliveries, sends' \in Seq(SendRecord), DOMAIN sends' = DOMAIN sends,
           \A k \in DOMAIN sends : /\ sends'[k].claimed = sends[k].claimed
                                   /\ sends'[k].heard = sends[k].heard
                                   /\ sends'[k].status = "COMPLETED" => sends'[k].claimed = "all",
           page.token = n /\ n # 0 /\ s = "COMPLETED" => sends[n].claimed = "all"
    PROVE  SendInv'
<1>1. page \in PageRecord /\ (page.listens => page.token # 0)
    BY DEF SendInv, PageShapes, SendReferences
<1>2. Closed(page, {"nostrDM", "proofs"}) \in PageRecord
    BY <1>1, ModalShapes DEF Modal
<1>3. page' \in PageRecord
  <2> DEFINE o == Closed(page, {"nostrDM", "proofs"})
  <2>1. [page EXCEPT !.listens = FALSE] \in PageRecord
      BY <1>1 DEF PageRecord
  <2> HIDE DEF o
  <2>2. [o EXCEPT !.status = s, !.due = TRUE, !.listens = FALSE] \in PageRecord
      BY <1>2 DEF o, PageRecord, Settled
  <2> QED
      BY <1>1, <2>1, <2>2 DEF ToldOf, o
<1>4. /\ page'.token = page.token /\ page'.open = page.open
      /\ page'.resolves = page.resolves /\ page'.option = page.option
      /\ page'.waits = page.waits /\ page'.loading = page.loading
      /\ page'.listens => page.listens
      /\ page'.modals \subseteq page.modals
    BY <1>1 DEF ToldOf, Closed, PageRecord
<1>5. page'.status = "COMPLETED" =>
        page.status = "COMPLETED" \/ (page.token # 0 /\ sends'[page.token].claimed = "all")
    BY <1>1 DEF ToldOf, Closed, PageRecord, SendInv, SendReferences
<1>6. page.open => OneCall' \/ NoRequest
    BY <1>4 DEF SendInv, OneToken, OneCall
<1>7. PageShapes'
    BY <1>3 DEF SendInv, PageShapes
<1> QED
    BY <1>1, <1>4, <1>5, <1>6, <1>7, Steady DEF SendInv, SendReferences, CompletedIsClaimed

\* The results of syncs.
LEMMA SyncSteps ==
    ASSUME SendInv, OtherSettles \/ \E n \in DOMAIN sends : SyncFindsClaim(n) PROVE SendInv'
<1>1. CASE OtherSettles
  <2>1. page' = ToldOf(0, "COMPLETED") /\ UNCHANGED <<sends, deliveries>>
      BY <1>1 DEF OtherSettles
  <2> QED
      BY <2>1, ToldStep DEF SendInv, PageShapes, CompletedIsClaimed
<1>2. ASSUME NEW n \in DOMAIN sends, SyncFindsClaim(n) PROVE SendInv'
  <2>1. PICK s \in {"COMPLETED", "ERROR"} :
            /\ s = "COMPLETED" => sends[n].claimed = "all"
            /\ sends' = [sends EXCEPT ![n] = [@ EXCEPT !.status = s, !.ecash = "SPENT"]]
            /\ page' = ToldOf(n, s) /\ UNCHANGED deliveries
      BY <1>2 DEF SyncFindsClaim
  <2>2. sends \in Seq(SendRecord) /\ sends[n] \in SendRecord
      BY DEF SendInv, PageShapes
  <2> DEFINE r == [sends[n] EXCEPT !.status = s, !.ecash = "SPENT"]
  <2>3. /\ r \in SendRecord /\ r.status = s /\ r.claimed = sends[n].claimed
        /\ r.heard = sends[n].heard
      BY <2>2 DEF SendRecord, Settled
  <2>4. sends' = [sends EXCEPT ![n] = r]
      BY <2>1
  <2> HIDE DEF r
  <2>5. /\ sends' \in Seq(SendRecord) /\ DOMAIN sends' = DOMAIN sends
        /\ \A k \in DOMAIN sends : k # n => sends'[k] = sends[k]
        /\ sends'[n] = r
      BY <2>2, <2>3, <2>4
  <2> QED
      BY <2>1, <2>3, <2>5, ToldStep DEF SendInv, CompletedIsClaimed
<1> QED
    BY <1>1, <1>2

-----------------------------------------------------------------------------
\* Every step keeps the strengthening.
LEMMA SendNextStep == ASSUME SendInv, may.fixed \in BOOLEAN, may.accepts \in SUBSET SendFrom, SendNext
                      PROVE  SendInv'
<1>1. CASE \E c \in page.waits : SendResult(c)
    BY <1>1, ResultStep
<1>2. CASE RequestResolves \/ LeaveSendScreen
    BY <1>2, ResolveStep, LeaveStep
<1>3. CASE \/ NetworkChanges \/ EnterAmount \/ (\E m \in SendFrom : SelectFrom(m))
           \/ LockToFriend \/ CancelLock \/ PickContact \/ ShowMessage \/ ResultModalOpens
           \/ (\E m \in Modal \ {"selector"} : CloseModal(m))
    BY <1>3, PageSteps
<1>4. CASE Confirm \/ ConfirmProofs
    BY <1>4, ConfirmStep, ConfirmProofsStep
<1>5. CASE \E n \in DOMAIN sends : SendTaskStarts(n) \/ SendTaskEnds(n) \/ Claim(n)
    BY <1>5, QueueSteps
<1>6. CASE \E n \in DOMAIN sends : SendTimesOut(n)
    BY <1>6, TimeoutStep
<1>7. CASE SendAsNostrDM \/ SendAsPostRequest
    BY <1>7, DeliverySteps
<1>8. CASE \E d \in DOMAIN deliveries :
              \/ DeliveryArrives(d) \/ DeliveryConfirmed(d) \/ DeliveryUnsure(d) \/ DeliveryFails(d)
    BY <1>8, DeliveryEnds
<1>9. CASE OtherSettles \/ \E n \in DOMAIN sends : SyncFindsClaim(n)
    BY <1>9, SyncSteps
<1> QED
    BY <1>1, <1>2, <1>3, <1>4, <1>5, <1>6, <1>7, <1>8, <1>9 DEF SendNext

\* A stuttering step keeps it.
LEMMA Untouched == SendInv /\ UNCHANGED sendVars => SendInv'
BY DEF sendVars, SendInv, PageShapes, SendReferences, CompletedIsClaimed, OneToken, OneCall, NoRequest,
       ForRequest

\* The case keeps what it says of the request.
LEMMA CaseStays == may \in CaseRecord /\ [SendNext]_sendVars => may' \in CaseRecord
<1> SUFFICES ASSUME may \in CaseRecord, [SendNext]_sendVars PROVE may' \in CaseRecord
    OBVIOUS
<1>1. may' = may \/ OtherSettles
    BY DEF SendNext, sendVars, SendResult, RequestResolves, LeaveSendScreen, NetworkChanges,
           EnterAmount, SelectFrom, LockToFriend, CancelLock, Confirm, ConfirmProofs,
           SendTaskStarts, SendTaskEnds, SendTimesOut, Claim, SyncFindsClaim, PickContact,
           ShowMessage, SendAsNostrDM, SendAsPostRequest, DeliveryArrives, DeliveryConfirmed,
           DeliveryUnsure, DeliveryFails, ResultModalOpens, CloseModal
<1>2. CASE OtherSettles
    BY <1>2 DEF OtherSettles, CaseRecord
<1> QED
    BY <1>1, <1>2

\* The strengthening, for every set of mints, every case and any number of calls.
THEOREM SendScreenInvariant == SendSpec => [](SendInv /\ may \in CaseRecord)
<1>1. SendInit => SendInv /\ may \in CaseRecord
    BY SendInitStep, SendScreenAssumptions DEF SendInit, SendScreenAssumptions, CaseRecord
<1>2. SendInv /\ may \in CaseRecord /\ [SendNext]_sendVars => (SendInv /\ may \in CaseRecord)'
  <2>1. may \in CaseRecord => may.fixed \in BOOLEAN /\ may.accepts \in SUBSET SendFrom
      BY DEF CaseRecord
  <2> QED
      BY <2>1, SendNextStep, Untouched, CaseStays
<1> QED
    BY <1>1, <1>2, PTL DEF SendSpec

\* SendScreen shows COMPLETED only of a token that was claimed (handleSyncStateResult), for
\* every number of calls, deliveries and settlements of other transactions.
THEOREM ClaimShown == SendSpec => []ClaimShownIsTrue
<1>1. SendInv => ClaimShownIsTrue
    BY DEF SendInv, CompletedIsClaimed, ClaimShownIsTrue
<1> QED
    BY <1>1, SendScreenInvariant, PTL

\* At most one token leaves under a request's id.
LEMMA OneTokenLeaves == SendInv => Cardinality(PaidWith) <= 1
<1> SUFFICES ASSUME SendInv PROVE Cardinality(PaidWith) <= 1
    OBVIOUS
<1>1. \A x, y \in PaidWith : x = y
    BY DEF SendInv, OneToken, ForRequest, PaidWith
<1>2. CASE PaidWith = {}
    BY <1>2, FS_EmptySet
<1>3. CASE PaidWith # {}
  <2>1. PICK x : PaidWith = {x}
      BY <1>1, <1>3
  <2>2. Cardinality(PaidWith) = 1
      BY <2>1, FS_Singleton
  <2> QED
      BY <2>2
<1> QED
    BY <1>2, <1>3

-----------------------------------------------------------------------------
(* On what terms a request is paid.                                        *)

\* The call was made for the request.
AskedFor(c) == c \in DOMAIN sends /\ sends[c].option = "request"

\* Nothing is asked for a request that has not come.
NotBefore == page.resolves => \A c : ~AskedFor(c)

\* Always online: no coins are picked by hand.
Online == may.steady => page.online /\ "proofs" \notin page.modals

\* While a request with an amount is on the screen, the amount cannot be entered, so only mints the
\* request accepts are offered.
OnItsTerms ==
    may.fixed /\ page.option = "request" =>
        /\ page.fixed
        /\ may.steady => page.offers \subseteq may.accepts /\ page.from \in may.accepts \cup {"none"}

FromAccepted == \A c : AskedFor(c) /\ may.fixed /\ may.steady => sends[c].mint \in may.accepts

\* A call that waits from before the request came is alone; the token of a later one is linked when it comes.
Linking ==
    /\ page.option = "request" =>
        /\ \A c \in page.waits : AskedFor(c) \/ \A n : ~AskedFor(n)
        /\ AskedFor(page.token) => sends[page.token].linked
    /\ \A d : ForRequest(d) /\ AskedFor(deliveries[d].of) => sends[deliveries[d].of].linked

Terms == may \in CaseRecord /\ NotBefore /\ Online /\ OnItsTerms /\ FromAccepted /\ Linking

\* Steps that keep the calls, the deliveries and the terms.
LEMMA TermsKept ==
    ASSUME SendInv, Terms, may' = may, page'.resolves => page.resolves,
           DOMAIN sends' = DOMAIN sends,
           \A c \in DOMAIN sends : /\ sends'[c].option = sends[c].option /\ sends'[c].mint = sends[c].mint
                                   /\ sends[c].linked => sends'[c].linked,
           DOMAIN deliveries' = DOMAIN deliveries,
           \A d \in DOMAIN deliveries : /\ deliveries'[d].of = deliveries[d].of
                                        /\ deliveries'[d].option = deliveries[d].option,
           page'.waits \subseteq page.waits,
           page'.option = "request" => page.option = "request" /\ page'.token = page.token,
           Online', OnItsTerms'
    PROVE  Terms'
<1>1. \A c : AskedFor(c)' <=> AskedFor(c)
    BY DEF AskedFor
<1>2. \A d : ForRequest(d)' <=> ForRequest(d)
    BY DEF ForRequest
<1>3. may' \in CaseRecord /\ NotBefore'
    BY <1>1 DEF Terms, NotBefore
<1>4. FromAccepted'
    BY <1>1 DEF Terms, FromAccepted, AskedFor
<1>5. Linking'
  <2>1. ASSUME page'.option = "request"
        PROVE  /\ \A c \in page'.waits : AskedFor(c)' \/ \A n : ~AskedFor(n)'
               /\ AskedFor(page.token)' => sends'[page.token].linked
      BY <2>1, <1>1 DEF Terms, Linking, AskedFor
  <2>2. \A d : ForRequest(d)' => ForRequest(d) /\ deliveries'[d].of = deliveries[d].of
      BY <1>2 DEF ForRequest
  <2>3. ASSUME NEW d, (ForRequest(d) /\ AskedFor(deliveries[d].of))'
        PROVE  sends'[deliveries'[d].of].linked
    <3>1. PICK n : n = deliveries[d].of
        OBVIOUS
    <3>2. ForRequest(d) /\ n = deliveries'[d].of /\ AskedFor(n)'
        BY <2>2, <2>3, <3>1
    <3> QED
        BY <1>1, <3>1, <3>2 DEF Terms, Linking, AskedFor
  <2> QED
      BY <2>1, <2>2, <2>3 DEF Linking
<1> QED
    BY <1>3, <1>4, <1>5 DEF Terms

\* Steps of the screen that do not change calls or deliveries, nor what is offered for a request.
LEMMA ScreenTerms ==
    ASSUME SendInv, Terms, UNCHANGED <<sends, deliveries, may>>,
           page'.resolves = page.resolves, page'.waits \subseteq page.waits,
           page'.option = "request" => page.option = "request" /\ page'.token = page.token,
           may.steady => page'.online = page.online,
           may.steady /\ "proofs" \in page'.modals => "proofs" \in page.modals,
           may.fixed /\ page'.option = "request" =>
               /\ page'.fixed = page.fixed
               /\ may.steady => /\ page'.offers \subseteq page.offers
                                /\ page'.from \in page.offers \cup {page.from, "none"}
    PROVE  Terms'
<1>1. Online'
    BY DEF Terms, Online
<1>2. OnItsTerms'
    BY DEF Terms, OnItsTerms
<1> QED
    BY <1>1, <1>2, TermsKept

\* An error clears the mint.
LEMMA ErrorTerms ==
    ASSUME SendInv, Terms, NEW s \in PageRecord, page' = SetError(s), UNCHANGED <<sends, deliveries, may>>,
           s.resolves = page.resolves, s.waits \subseteq page.waits, s.option = page.option,
           s.token = page.token, s.online = page.online, s.modals = page.modals, s.fixed = page.fixed
    PROVE  Terms'
<1>1. /\ page'.resolves = page.resolves /\ page'.waits = s.waits /\ page'.option = page.option
      /\ page'.token = page.token /\ page'.online = page.online
      /\ page'.modals = page.modals \ (Modal \ {"result"})
      /\ page'.fixed = page.fixed /\ page'.offers = {} /\ page'.from = "none"
    BY DEF SetError, Closed, PageRecord
<1> QED
    BY <1>1, ScreenTerms

\* Taps and effects.
LEMMA TapTerms ==
    ASSUME SendInv, Terms,
           \/ NetworkChanges \/ EnterAmount \/ (\E m \in SendFrom : SelectFrom(m))
           \/ LockToFriend \/ CancelLock \/ PickContact \/ ShowMessage \/ ResultModalOpens
           \/ (\E m \in Modal \ {"selector"} : CloseModal(m)) \/ LeaveSendScreen
    PROVE  Terms'
<1>0. page \in PageRecord
    BY DEF SendInv, PageShapes
<1>1. CASE NetworkChanges
  <2>1. /\ UNCHANGED <<sends, deliveries, may>> /\ ~may.steady
        /\ page'.resolves = page.resolves /\ page'.waits = page.waits /\ page'.option = page.option
        /\ page'.token = page.token /\ page'.fixed = page.fixed
      BY <1>0, <1>1 DEF NetworkChanges, PageRecord
  <2> QED
      BY <2>1, ScreenTerms
<1>2. CASE EnterAmount
  <2>1. ~page.fixed /\ UNCHANGED <<sends, deliveries, may>>
      BY <1>2 DEF EnterAmount
  <2>2. /\ page'.resolves = page.resolves /\ page'.waits = page.waits /\ page'.option = page.option
        /\ page'.token = page.token /\ page'.online = page.online
        /\ page'.modals = page.modals \cup {"selector"}
      BY <1>0, <1>2 DEF EnterAmount, Opened, PageRecord
  <2>3. ~(may.fixed /\ page.option = "request")
      BY <2>1 DEF Terms, OnItsTerms
  <2> QED
      BY <2>1, <2>2, <2>3, ScreenTerms
<1>3. ASSUME NEW m \in SendFrom, SelectFrom(m) PROVE Terms'
  <2>1. /\ UNCHANGED <<sends, deliveries, may>> /\ m \in page.offers
        /\ page' = [page EXCEPT !.from = m]
      BY <1>3 DEF SelectFrom
  <2>2. /\ page'.resolves = page.resolves /\ page'.waits = page.waits /\ page'.option = page.option
        /\ page'.token = page.token /\ page'.online = page.online /\ page'.modals = page.modals
        /\ page'.fixed = page.fixed /\ page'.offers = page.offers /\ page'.from = m
      BY <1>0, <2>1 DEF PageRecord
  <2> QED
      BY <2>1, <2>2, ScreenTerms
<1>4. CASE LockToFriend \/ PickContact
  <2>1. page' = ToContact(page) /\ UNCHANGED <<sends, deliveries, may>>
      BY <1>4 DEF LockToFriend, PickContact
  <2>2. /\ page'.resolves = page.resolves /\ page'.waits = page.waits /\ page'.option = "contact"
        /\ page'.online = page.online /\ page'.modals \subseteq page.modals \cup {"nostrDM"}
      BY <1>0, <2>1 DEF ToContact, Addressed, Opened, PageRecord
  <2> QED
      BY <2>1, <2>2, ScreenTerms
<1>5. ASSUME UNCHANGED <<sends, deliveries, may>>, NEW o, page' = o,
             o.resolves = page.resolves, o.waits = page.waits, o.option = page.option,
             o.token = page.token, o.online = page.online, o.fixed = page.fixed,
             o.offers = page.offers, o.from = page.from,
             o.modals \subseteq page.modals \cup {"nostrDM", "result"}
      PROVE  Terms'
    BY <1>5, ScreenTerms
<1>7. CASE CancelLock
    BY <1>0, <1>5, <1>7 DEF CancelLock, PageRecord
<1>8. CASE ShowMessage
    BY <1>0, <1>5, <1>8 DEF ShowMessage, Opened, PageRecord
<1>9. CASE ResultModalOpens
  <2>1. /\ UNCHANGED <<sends, deliveries, may>>
        /\ page' = [page EXCEPT !.modals = @ \cup {"result"}, !.due = FALSE]
      BY <1>0, <1>9 DEF ResultModalOpens, Opened, PageRecord
  <2>2. PICK o : o = [page EXCEPT !.modals = @ \cup {"result"}, !.due = FALSE]
      OBVIOUS
  <2>3. /\ o.resolves = page.resolves /\ o.waits = page.waits /\ o.option = page.option
        /\ o.token = page.token /\ o.online = page.online /\ o.fixed = page.fixed
        /\ o.offers = page.offers /\ o.from = page.from
        /\ o.modals = page.modals \cup {"result"}
      BY <1>0, <2>2 DEF PageRecord
  <2> QED
      BY <1>5, <2>1, <2>2, <2>3
<1>10. ASSUME NEW m \in Modal \ {"selector"}, CloseModal(m) PROVE Terms'
    BY <1>0, <1>5, <1>10 DEF CloseModal, Closed, PageRecord
<1>6. CASE LeaveSendScreen
  <2>1. /\ UNCHANGED <<sends, deliveries, may>>
        /\ page' = [EmptyScreen EXCEPT !.open = FALSE, !.waits = page.waits]
      BY <1>6 DEF LeaveSendScreen
  <2>2. /\ ~page'.resolves /\ page'.waits = page.waits /\ page'.option = "show"
        /\ page'.online /\ page'.modals = {}
      BY <2>1 DEF EmptyScreen
  <2>3. Online' /\ OnItsTerms'
      BY <2>2 DEF Online, OnItsTerms
  <2> QED
      BY <2>1, <2>2, <2>3, TermsKept
<1> QED
    BY <1>1, <1>2, <1>3, <1>4, <1>6, <1>7, <1>8, <1>9, <1>10

\* A request with an amount offers mints it accepts; where it offers none it accepts all.
LEMMA OfferedTerms ==
    ASSUME NEW s \in PageRecord, NEW kind, may \in CaseRecord, NEW offers \in Offers(may),
           NEW r, r = Requested(s, kind, may.fixed, offers)
    PROVE  /\ ~r.resolves /\ r.online = s.online /\ r.modals = s.modals \cup {"selector"}
           /\ r.token = s.token /\ r.waits = s.waits
           /\ may.fixed => r.fixed /\ r.offers \subseteq may.accepts /\ r.from \in may.accepts \cup {"none"}
<1>1. may.fixed \in BOOLEAN /\ may.accepts \in SUBSET SendFrom
    BY DEF CaseRecord
<1>2. /\ ~r.resolves /\ r.online = s.online /\ r.modals = s.modals \cup {"selector"} /\ r.token = s.token
      /\ r.waits = s.waits /\ r.fixed = may.fixed /\ r.offers = offers
      /\ r.from = IF offers = {} THEN s.from ELSE CHOOSE m \in offers : TRUE
    BY DEF Requested, Addressed, Opened, PageRecord
<1>3. ASSUME may.fixed PROVE r.from \in may.accepts \cup {"none"} /\ offers \subseteq may.accepts
  <2>1. offers \subseteq may.accepts /\ (offers = {} => may.accepts = SendFrom)
      BY <1>1, <1>3 DEF Offers
  <2>2. CASE offers = {}
      BY <1>2, <2>1, <2>2 DEF PageRecord
  <2>3. CASE offers # {}
    <3>1. (CHOOSE m \in offers : TRUE) \in offers
        BY <2>3
    <3> QED
        BY <3>1, <1>2, <2>1, <2>3
  <2> QED
      BY <2>1, <2>2, <2>3
<1> QED
    BY <1>2, <1>3

\* The request comes before anything was asked for it, with mints it accepts.
LEMMA ResolveTerms == ASSUME SendInv, Terms, RequestResolves PROVE Terms'
<1>1. /\ UNCHANGED <<sends, deliveries, may>> /\ page.resolves /\ page.option # "request"
      /\ \A d : ~ForRequest(d)
      /\ page \in PageRecord
    BY DEF RequestResolves, SendInv, PageShapes, OneToken
<1>2. \A c : ~AskedFor(c)
    BY <1>1 DEF Terms, NotBefore
<1>3. (\A c : ~AskedFor(c)') /\ (\A d : ~ForRequest(d)')
    BY <1>1, <1>2 DEF AskedFor, ForRequest
<1>4. may' \in CaseRecord /\ NotBefore' /\ FromAccepted' /\ Linking'
    BY <1>1, <1>3 DEF Terms, NotBefore, FromAccepted, Linking
<1>5. may.fixed \in BOOLEAN /\ may.accepts \in SUBSET SendFrom
    BY DEF Terms, CaseRecord
<1>6. ASSUME NEW offers \in Offers(may), page' = Requested(page, "nostr", may.fixed, offers)
      PROVE  Online' /\ OnItsTerms'
  <2>1. /\ page'.online = page.online /\ page'.modals = page.modals \cup {"selector"}
        /\ may.fixed => page'.fixed /\ page'.offers \subseteq may.accepts
                        /\ page'.from \in may.accepts \cup {"none"}
      BY <1>1, <1>6, OfferedTerms DEF Terms
  <2> QED
      BY <2>1, <1>1 DEF Terms, Online, OnItsTerms
<1>7. ASSUME page' = Unpayable(page, may.fixed) PROVE Online' /\ OnItsTerms'
  <2>1. page'.option = page.option /\ page'.online = page.online /\ page'.modals = page.modals
      BY <1>1, <1>7 DEF Unpayable, PageRecord
  <2> QED
      BY <2>1, <1>1 DEF Terms, Online, OnItsTerms
<1>8. ASSUME page' = [SetError(page) EXCEPT !.resolves = FALSE] PROVE Online' /\ OnItsTerms'
  <2>1. /\ page'.option = page.option /\ page'.online = page.online
        /\ page'.modals = page.modals \ (Modal \ {"result"})
      BY <1>1, <1>8 DEF SetError, Closed, PageRecord
  <2> QED
      BY <2>1, <1>1 DEF Terms, Online, OnItsTerms
<1> QED
    BY <1>4, <1>6, <1>7, <1>8 DEF RequestResolves, Terms

\* A call for a request is from a mint it accepts, and no older call waits.
LEMMA CallTerms ==
    ASSUME SendInv, Terms, NEW s \in PageRecord, CallSend(s), UNCHANGED <<deliveries, may>>,
           page.open, ~page.loading, s = [page EXCEPT !.modals = s.modals], s.modals \subseteq page.modals,
           may.steady => page.from # "none"
    PROVE  Terms'
<1> DEFINE n == Len(sends) + 1
           r == [mint |-> s.from, option |-> s.option, relays |-> s.relays, post |-> s.post,
                 heard |-> 0, at |-> "queued", status |-> "none", ecash |-> "none",
                 claimed |-> "none", linked |-> FALSE]
<1>1. page \in PageRecord /\ s.from = page.from /\ s.option = page.option
    BY DEF SendInv, PageShapes, PageRecord
<1>2. r \in SendRecord /\ r.mint = page.from /\ r.option = page.option
    BY <1>1 DEF SendRecord, PageRecord, Settled
<1>3. sends' = Append(sends, r)
    BY DEF CallSend
<1>4. /\ n \in Nat \ {0} /\ Len(sends') = n /\ n \notin DOMAIN sends
      /\ sends'[n] = r /\ DOMAIN sends' = DOMAIN sends \cup {n}
      /\ \A k \in DOMAIN sends : sends'[k] = sends[k]
    BY <1>2, <1>3 DEF SendInv, PageShapes
<1>5. page' = [s EXCEPT !.loading = TRUE, !.waits = @ \cup {n}]
    BY <1>4 DEF CallSend
<1>6. /\ page'.token = page.token /\ page'.resolves = page.resolves /\ page'.option = page.option
      /\ page'.waits = page.waits \cup {n} /\ page'.modals \subseteq page.modals
      /\ page'.online = page.online /\ page'.fixed = page.fixed /\ page'.offers = page.offers
      /\ page'.from = page.from
    BY <1>1, <1>5 DEF PageRecord
<1> HIDE DEF n, r
<1>7. \A c : AskedFor(c)' <=> AskedFor(c) \/ (c = n /\ page.option = "request")
    BY <1>2, <1>4 DEF AskedFor
<1>8. page.token \in DOMAIN sends \cup {0} /\ page.token # n
    BY <1>4 DEF SendInv, SendReferences
<1>9. NotBefore'
    BY <1>6, <1>7 DEF Terms, NotBefore, SendInv, OneToken
<1>10. Online' /\ OnItsTerms'
    BY <1>6 DEF Terms, Online, OnItsTerms
<1>11. FromAccepted'
    BY <1>2, <1>4, <1>6, <1>7 DEF Terms, FromAccepted, OnItsTerms, AskedFor
<1>12. Linking'
  <2>1. page.option = "request" => page.waits = {}
      BY DEF SendInv, OneToken, OneCall, NoRequest
  <2>2. page'.option = "request" => \A c \in page'.waits : AskedFor(c)'
      BY <2>1, <1>6, <1>7
  <2>3. page'.option = "request" /\ AskedFor(page.token)' => sends'[page'.token].linked
      BY <1>4, <1>6, <1>7, <1>8 DEF Terms, Linking, AskedFor
  <2>4. \A d : ForRequest(d)' => ForRequest(d) /\ deliveries'[d] = deliveries[d] /\ deliveries[d].of \in DOMAIN sends
      BY DEF ForRequest, SendInv, SendReferences
  <2>5. ASSUME NEW d, (ForRequest(d) /\ AskedFor(deliveries[d].of))'
        PROVE  sends'[deliveries'[d].of].linked
    <3>1. PICK k \in DOMAIN sends : k = deliveries[d].of
        BY <2>4, <2>5
    <3>2. ForRequest(d) /\ k = deliveries'[d].of /\ AskedFor(k)' /\ k # n
        BY <2>4, <2>5, <3>1, <1>4
    <3> QED
        BY <1>4, <1>7, <3>1, <3>2 DEF Terms, Linking, AskedFor
  <2> QED
      BY <2>2, <2>3, <2>5 DEF Linking
<1> QED
    BY <1>9, <1>10, <1>11, <1>12 DEF Terms

\* onMintBalanceConfirm and onOfflineSendConfirm.
LEMMA ConfirmTerms == ASSUME SendInv, Terms, Confirm \/ ConfirmProofs PROVE Terms'
<1>0. page \in PageRecord
    BY DEF SendInv, PageShapes
<1>1. ASSUME NEW s \in PageRecord, page' = Opened(s, {"proofs"}), UNCHANGED <<sends, deliveries, may>>, ~s.online,
             s = [page EXCEPT !.modals = s.modals]
      PROVE  Terms'
  <2>1. /\ page'.resolves = page.resolves /\ page'.waits = page.waits /\ page'.option = page.option
        /\ page'.token = page.token /\ page'.online = page.online /\ page'.fixed = page.fixed
        /\ page'.offers = page.offers /\ page'.from = page.from /\ ~page.online
      BY <1>0, <1>1 DEF Opened, PageRecord
  <2>2. ~may.steady
      BY <2>1 DEF Terms, Online
  <2> QED
      BY <1>1, <2>1, <2>2, ScreenTerms
<1>2. CASE Confirm
  <2>1. /\ SelectorShown /\ UNCHANGED <<deliveries, may>> /\ page.open /\ ~page.loading
        /\ page = [page EXCEPT !.modals = page.modals]
      BY <1>0, <1>2 DEF Confirm, SelectorShown, TapsPass, PageRecord
  <2>2. CASE page.from # "none" /\ CallSend(page)
      BY <1>0, <2>1, <2>2, CallTerms
  <2>3. CASE page' = SetError(page) /\ UNCHANGED sends
      BY <1>0, <2>1, <2>3, ErrorTerms
  <2>4. CASE ~page.online /\ page' = Opened(page, {"proofs"}) /\ UNCHANGED sends
      BY <1>0, <1>1, <2>1, <2>4
  <2> QED
      BY <1>2, <2>2, <2>3, <2>4 DEF Confirm, ConfirmWith
<1>3. CASE ConfirmProofs
  <2> DEFINE s == Closed(page, {"proofs"})
  <2>1. /\ "proofs" \in page.modals /\ ~page.loading /\ page.open /\ UNCHANGED <<deliveries, may>>
        /\ ConfirmWith(s)
      BY <1>3 DEF ConfirmProofs
  <2>2. s \in PageRecord /\ s.modals \subseteq page.modals /\ s = [page EXCEPT !.modals = s.modals]
      BY <1>0, ModalShapes DEF Closed, Modal, PageRecord
  <2>3. ~may.steady
      BY <2>1 DEF Terms, Online
  <2> HIDE DEF s
  <2>4. CASE CallSend(s)
      BY <2>1, <2>2, <2>3, <2>4, CallTerms
  <2>5. CASE ~s.online /\ page' = Opened(s, {"proofs"}) /\ UNCHANGED sends
      BY <1>1, <2>1, <2>2, <2>5
  <2> QED
      BY <2>1, <2>4, <2>5 DEF ConfirmWith
<1> QED
    BY <1>2, <1>3

\* The queue and the syncs do not change what a call was made for.
LEMMA CallsKept ==
    ASSUME SendInv, NEW n \in DOMAIN sends,
           SendTaskStarts(n) \/ SendTaskEnds(n) \/ Claim(n) \/ SyncFindsClaim(n)
    PROVE  /\ DOMAIN sends' = DOMAIN sends
           /\ \A c \in DOMAIN sends : /\ sends'[c].option = sends[c].option /\ sends'[c].mint = sends[c].mint
                                      /\ sends'[c].linked = sends[c].linked
<1>1. /\ sends \in Seq(SendRecord) /\ \A k \in DOMAIN sends : sends[k] \in SendRecord
    BY DEF SendInv, PageShapes
<1>2. CASE SendTaskStarts(n)
    BY <1>1, <1>2 DEF SendTaskStarts, SendRecord
<1>3. CASE Claim(n)
    BY <1>1, <1>3 DEF Claim, SendRecord
<1>4. CASE SyncFindsClaim(n)
    BY <1>1, <1>4 DEF SyncFindsClaim, SendRecord
<1>5. ASSUME NEW t, sends' = Answered(n, t), t.option = sends[n].option, t.mint = sends[n].mint,
             t.linked = sends[n].linked, DOMAIN t = DOMAIN sends[n]
      PROVE  /\ DOMAIN sends' = DOMAIN sends
             /\ \A c \in DOMAIN sends : /\ sends'[c].option = sends[c].option /\ sends'[c].mint = sends[c].mint
                                        /\ sends'[c].linked = sends[c].linked
    BY <1>1, <1>5 DEF Answered, SendRecord
<1>6. CASE SendTaskEnds(n)
  <2> DEFINE p == [sends[n] EXCEPT !.at = "ended", !.status = "PENDING", !.ecash = "PENDING"]
             e == [sends[n] EXCEPT !.at = "ended", !.status = "ERROR"]
  <2>1. /\ p.option = sends[n].option /\ p.mint = sends[n].mint /\ p.linked = sends[n].linked
        /\ DOMAIN p = DOMAIN sends[n]
        /\ e.option = sends[n].option /\ e.mint = sends[n].mint /\ e.linked = sends[n].linked
        /\ DOMAIN e = DOMAIN sends[n]
      BY <1>1 DEF SendRecord
  <2>2. sends' = Answered(n, p) \/ sends' = Answered(n, e)
      BY <1>6 DEF SendTaskEnds
  <2> HIDE DEF p, e
  <2> QED
      BY <1>5, <2>1, <2>2
<1> QED
    BY <1>2, <1>3, <1>4, <1>6

\* Tasks, claims, syncs.
LEMMA QueueTerms ==
    ASSUME SendInv, Terms,
           \/ \E n \in DOMAIN sends : SendTaskStarts(n) \/ SendTaskEnds(n) \/ Claim(n) \/ SyncFindsClaim(n)
           \/ OtherSettles
    PROVE  Terms'
<1>0. page \in PageRecord
    BY DEF SendInv, PageShapes
<1>1. \/ UNCHANGED page
      \/ \E n, s : page' = ToldOf(n, s)
    BY DEF SendTaskStarts, SendTaskEnds, Claim, SyncFindsClaim, OtherSettles
<1>2. /\ page'.resolves = page.resolves /\ page'.waits = page.waits /\ page'.option = page.option
      /\ page'.token = page.token /\ page'.online = page.online /\ page'.fixed = page.fixed
      /\ page'.offers = page.offers /\ page'.from = page.from /\ page'.modals \subseteq page.modals
  <2>1. ASSUME NEW n, NEW s, page' = ToldOf(n, s)
        PROVE  \/ page' = page
               \/ page' = [page EXCEPT !.listens = FALSE]
               \/ page' = [page EXCEPT !.modals = @ \ {"nostrDM", "proofs"}, !.status = s, !.due = TRUE,
                                        !.listens = FALSE]
      BY <1>0, <2>1 DEF ToldOf, Closed, PageRecord
  <2>2. CASE page' = page
      BY <2>2
  <2>3. CASE page' = [page EXCEPT !.listens = FALSE]
      BY <1>0, <2>3 DEF PageRecord
  <2>4. ASSUME NEW s, page' = [page EXCEPT !.modals = @ \ {"nostrDM", "proofs"}, !.status = s, !.due = TRUE,
                                           !.listens = FALSE]
        PROVE  /\ page'.resolves = page.resolves /\ page'.waits = page.waits /\ page'.option = page.option
               /\ page'.token = page.token /\ page'.online = page.online /\ page'.fixed = page.fixed
               /\ page'.offers = page.offers /\ page'.from = page.from
               /\ page'.modals \subseteq page.modals
      BY <1>0, <2>4 DEF PageRecord
  <2> QED
      BY <1>1, <2>1, <2>2, <2>3, <2>4
<1>3. UNCHANGED deliveries
    BY DEF SendTaskStarts, SendTaskEnds, Claim, SyncFindsClaim, OtherSettles
<1>4. CASE OtherSettles
  <2>1. UNCHANGED sends /\ may' = [may EXCEPT !.others = @ - 1]
      BY <1>4 DEF OtherSettles
  <2>2. may' \in CaseRecord /\ may'.fixed = may.fixed /\ may'.steady = may.steady /\ may'.accepts = may.accepts
      BY <1>4 DEF Terms, CaseRecord, OtherSettles
  <2>3. \A c : AskedFor(c)' <=> AskedFor(c)
      BY <2>1 DEF AskedFor
  <2>4. \A d : ForRequest(d)' <=> ForRequest(d)
      BY <1>3 DEF ForRequest
  <2>5. NotBefore' /\ Online' /\ OnItsTerms'
      BY <1>2, <2>2, <2>3 DEF Terms, NotBefore, Online, OnItsTerms
  <2>6. FromAccepted'
      BY <2>1, <2>2, <2>3 DEF Terms, FromAccepted
  <2>7. Linking'
      BY <1>2, <1>3, <2>1, <2>3, <2>4 DEF Terms, Linking
  <2> QED
      BY <2>2, <2>5, <2>6, <2>7 DEF Terms
<1>5. ASSUME NEW n \in DOMAIN sends,
             SendTaskStarts(n) \/ SendTaskEnds(n) \/ Claim(n) \/ SyncFindsClaim(n)
      PROVE  Terms'
  <2>1. UNCHANGED may
      BY <1>5 DEF SendTaskStarts, SendTaskEnds, Claim, SyncFindsClaim
  <2>2. Online' /\ OnItsTerms'
      BY <1>2, <2>1 DEF Terms, Online, OnItsTerms
  <2> QED
      BY <1>2, <1>3, <1>5, <2>1, <2>2, CallsKept, TermsKept
<1> QED
    BY <1>4, <1>5

\* A call ends without a token.
LEMMA TimeoutTerms == ASSUME SendInv, Terms, NEW c \in DOMAIN sends, SendTimesOut(c) PROVE Terms'
<1> DEFINE s == [page EXCEPT !.waits = @ \ {c}]
<1>1. /\ UNCHANGED <<sends, deliveries, may>> /\ page \in PageRecord
      /\ page' = IF s.open THEN SetError(s) ELSE s
    BY DEF SendTimesOut, SendInv, PageShapes
<1>2. s \in PageRecord
    BY <1>1 DEF PageRecord
<1>3. /\ s.resolves = page.resolves /\ s.waits = page.waits \ {c} /\ s.option = page.option
      /\ s.token = page.token /\ s.online = page.online /\ s.fixed = page.fixed
      /\ s.offers = page.offers /\ s.from = page.from /\ s.modals = page.modals
    BY <1>1 DEF PageRecord
<1> HIDE DEF s
<1>4. CASE page' = SetError(s)
    BY <1>1, <1>2, <1>3, <1>4, ErrorTerms
<1>5. CASE page' = s
    BY <1>1, <1>3, <1>5, ScreenTerms
<1> QED
    BY <1>1, <1>4, <1>5

\* The call that brings the token of another was made for the request, as that one was.
LEMMA ResultTerms == ASSUME SendInv, Terms, NEW c \in page.waits, SendResult(c) PROVE Terms'
<1> DEFINE n == sends[c].heard
           s == [page EXCEPT !.waits = @ \ {c}]
           made == sends[n].ecash # "none"
           v == sends[n].linked \/ (made /\ sends[c].option = "request")
<1>1. /\ UNCHANGED <<deliveries, may>> /\ n \in DOMAIN sends /\ sends[n] \in SendRecord /\ c \in DOMAIN sends
      /\ page \in PageRecord
      /\ sends' = [sends EXCEPT ![n].linked = v]
      /\ page' = IF ~s.open THEN s ELSE IF made THEN Made(s, c, n) ELSE NotMade(s)
    BY DEF SendResult, SendInv, PageShapes, SendReferences
<1>2. /\ DOMAIN sends' = DOMAIN sends
      /\ \A k \in DOMAIN sends : /\ sends'[k].option = sends[k].option /\ sends'[k].mint = sends[k].mint
                                 /\ sends[k].linked => sends'[k].linked
      /\ made /\ sends[c].option = "request" => sends'[n].linked
  <2> HIDE DEF n
  <2>1. /\ DOMAIN sends' = DOMAIN sends
        /\ \A k \in DOMAIN sends : k # n => sends'[k] = sends[k]
        /\ sends'[n] = [sends[n] EXCEPT !.linked = v]
      BY <1>1
  <2>2. sends'[n].linked = v /\ sends'[n].option = sends[n].option /\ sends'[n].mint = sends[n].mint
      BY <1>1, <2>1 DEF SendRecord
  <2> QED
      BY <2>1, <2>2
<1>3. s \in PageRecord
    BY <1>1 DEF PageRecord
<1>4. /\ s.resolves = page.resolves /\ s.waits = page.waits \ {c} /\ s.option = page.option
      /\ s.token = page.token /\ s.online = page.online /\ s.fixed = page.fixed
      /\ s.offers = page.offers /\ s.from = page.from /\ s.modals = page.modals
    BY <1>1 DEF PageRecord
<1> HIDE DEF n, s, made, v
<1>5. ASSUME page'.resolves = page.resolves, page'.waits \subseteq page.waits, page'.option = page.option,
             page'.online = page.online, page'.fixed = page.fixed, page'.offers = page.offers,
             page'.from = page.from, page'.modals \subseteq page.modals \cup {"nostrDM", "post", "result"}
      PROVE  Online' /\ OnItsTerms'
    BY <1>1, <1>5 DEF Terms, Online, OnItsTerms
<1>6. CASE page' = s
    BY <1>1, <1>2, <1>4, <1>5, <1>6, TermsKept
<1>7. CASE page' = NotMade(s)
  <2>1. /\ page'.resolves = page.resolves /\ page'.waits = page.waits \ {c} /\ page'.option = page.option
        /\ page'.token = page.token /\ page'.online = page.online /\ page'.fixed = page.fixed
        /\ page'.offers = page.offers /\ page'.from = page.from
        /\ page'.modals = page.modals \cup {"result"}
      BY <1>3, <1>4, <1>7 DEF NotMade, Opened, PageRecord
  <2> QED
      BY <1>1, <1>2, <1>5, <2>1, TermsKept
<1>8. CASE made /\ page' = Made(s, c, n)
  <2>1. /\ page'.resolves = page.resolves /\ page'.waits = page.waits \ {c} /\ page'.option = page.option
        /\ page'.token = n /\ page'.online = page.online /\ page'.fixed = page.fixed
        /\ page'.offers = page.offers /\ page'.from = page.from
        /\ page'.modals \subseteq page.modals \cup {"nostrDM", "post"}
      BY <1>3, <1>4, <1>8 DEF Made, Opened, Closed, PageRecord
  <2>2. Online' /\ OnItsTerms'
      BY <1>5, <2>1
  <2>3. \A k : AskedFor(k)' <=> AskedFor(k)
      BY <1>2 DEF AskedFor
  <2>4. \A d : ForRequest(d)' <=> ForRequest(d)
      BY <1>1 DEF ForRequest
  <2>5. may' \in CaseRecord /\ NotBefore'
      BY <1>1, <2>1, <2>3 DEF Terms, NotBefore
  <2>6. FromAccepted'
      BY <1>1, <1>2, <2>3 DEF Terms, FromAccepted, AskedFor
  <2>7. page.option = "request" /\ AskedFor(n) => sends'[n].linked
      BY <1>2, <1>8 DEF Terms, Linking, AskedFor
  <2>8. \A d : ForRequest(d) /\ AskedFor(deliveries[d].of) => sends'[deliveries[d].of].linked
      BY <1>2 DEF Terms, Linking, AskedFor
  <2>9. page.option = "request" => \A k \in page'.waits : AskedFor(k) \/ \A m : ~AskedFor(m)
      BY <2>1 DEF Terms, Linking
  <2>10. Linking'
      BY <1>1, <2>1, <2>3, <2>4, <2>7, <2>8, <2>9 DEF Linking
  <2> QED
      BY <2>2, <2>5, <2>6, <2>10 DEF Terms
<1> QED
    BY <1>1, <1>6, <1>7, <1>8

\* What leaves for the request is the token on the screen, which is linked.
LEMMA DeliverTerms ==
    ASSUME SendInv, Terms, SendAsNostrDM \/ SendAsPostRequest PROVE Terms'
<1>0. page \in PageRecord /\ deliveries \in Seq(DeliveryRecord)
    BY DEF SendInv, PageShapes
<1>1. CASE page' = SetError(page) /\ UNCHANGED <<sends, deliveries, may>>
    BY <1>0, <1>1, ErrorTerms
<1>2. ASSUME NEW channel \in {"nostrDM", "post"}, StartDelivery(channel), UNCHANGED <<sends, may>>
      PROVE  Terms'
  <2> DEFINE r == [of |-> page.token, channel |-> channel, option |-> page.option,
                   arrived |-> FALSE, over |-> FALSE]
             e == Len(deliveries) + 1
  <2>1. /\ DOMAIN deliveries' = DOMAIN deliveries \cup {e} /\ deliveries'[e] = r
        /\ \A d \in DOMAIN deliveries : d # e /\ deliveries'[d] = deliveries[d]
    <3>1. deliveries' = Append(deliveries, r)
        BY <1>2 DEF StartDelivery
    <3> HIDE DEF r
    <3> QED
        BY <1>0, <3>1
  <2>2. r.of = page.token /\ r.option = page.option
      OBVIOUS
  <2> HIDE DEF r, e
  <2>3. page' = [page EXCEPT !.sending = @ \cup {channel}]
      BY <1>2 DEF StartDelivery
  <2>4. /\ page'.resolves = page.resolves /\ page'.waits = page.waits /\ page'.option = page.option
        /\ page'.token = page.token /\ page'.online = page.online /\ page'.fixed = page.fixed
        /\ page'.offers = page.offers /\ page'.from = page.from /\ page'.modals = page.modals
      BY <1>0, <2>3 DEF PageRecord
  <2>5. \A k : AskedFor(k)' <=> AskedFor(k)
      BY <1>2 DEF AskedFor
  <2>6. may' \in CaseRecord /\ NotBefore' /\ Online' /\ OnItsTerms'
      BY <1>2, <2>4, <2>5 DEF Terms, NotBefore, Online, OnItsTerms
  <2>7. FromAccepted'
      BY <1>2, <2>5 DEF Terms, FromAccepted
  <2>8. ASSUME NEW d, (ForRequest(d) /\ AskedFor(deliveries[d].of))'
        PROVE  sends'[deliveries'[d].of].linked
    <3>1. PICK k : k = deliveries'[d].of
        OBVIOUS
    <3>2. AskedFor(k) /\ d \in DOMAIN deliveries' /\ deliveries'[d].option = "request"
        BY <2>5, <2>8, <3>1 DEF ForRequest
    <3>3. CASE d \in DOMAIN deliveries
      <4>1. ForRequest(d) /\ k = deliveries[d].of
          BY <2>1, <3>1, <3>2, <3>3 DEF ForRequest
      <4> QED
          BY <1>2, <3>1, <3>2, <4>1 DEF Terms, Linking
    <3>4. CASE d = e
      <4>1. k = page.token /\ page.option = "request"
          BY <2>1, <2>2, <3>1, <3>2, <3>4
      <4> QED
          BY <1>2, <3>1, <3>2, <4>1 DEF Terms, Linking
    <3> QED
        BY <2>1, <3>2, <3>3, <3>4
  <2>9. Linking'
      BY <1>2, <2>4, <2>5, <2>8 DEF Terms, Linking
  <2> QED
      BY <2>6, <2>7, <2>9 DEF Terms
<1> QED
    BY <1>1, <1>2 DEF SendAsNostrDM, SendAsPostRequest

\* The answers to a delivery.
LEMMA DeliveryEndTerms ==
    ASSUME SendInv, Terms, NEW d \in DOMAIN deliveries,
           DeliveryArrives(d) \/ DeliveryConfirmed(d) \/ DeliveryUnsure(d) \/ DeliveryFails(d)
    PROVE  Terms'
<1>1. /\ DOMAIN deliveries' = DOMAIN deliveries
      /\ \A e \in DOMAIN deliveries : /\ deliveries'[e].of = deliveries[e].of
                                      /\ deliveries'[e].option = deliveries[e].option
    BY DeliveryGoesOn DEF DeliveryArrives, DeliveryConfirmed, DeliveryUnsure, DeliveryFails
<1>2. /\ page \in PageRecord /\ sends \in Seq(SendRecord) /\ deliveries[d].of \in DOMAIN sends /\ UNCHANGED may
    BY DEF SendInv, PageShapes, SendReferences, DeliveryArrives, DeliveryConfirmed, DeliveryUnsure, DeliveryFails
<1>3. /\ DOMAIN sends' = DOMAIN sends
      /\ \A c \in DOMAIN sends : /\ sends'[c].option = sends[c].option /\ sends'[c].mint = sends[c].mint
                                 /\ sends'[c].linked = sends[c].linked
  <2>1. UNCHANGED sends \/ sends' = [sends EXCEPT ![deliveries[d].of].status = "PENDING"]
      BY DEF DeliveryArrives, DeliveryConfirmed, DeliveryUnsure, DeliveryFails
  <2>2. \A k \in DOMAIN sends : sends[k] \in SendRecord
      BY <1>2
  <2> QED
      BY <1>2, <2>1, <2>2 DEF SendRecord
<1>4. \/ page' = SetError(page)
      \/ page' = [page EXCEPT !.sending = page'.sending, !.sent = page'.sent]
  <2>1. CASE page' = page
      BY <1>2, <2>1 DEF PageRecord
  <2>2. CASE \E x, y : page' = [page EXCEPT !.sending = x, !.sent = y]
      BY <1>2, <2>2 DEF PageRecord
  <2> QED
      BY <2>1, <2>2 DEF DeliveryArrives, DeliveryConfirmed, DeliveryUnsure, DeliveryFails
<1>5. /\ page'.resolves = page.resolves /\ page'.waits = page.waits /\ page'.option = page.option
      /\ page'.token = page.token /\ page'.online = page.online /\ page'.fixed = page.fixed
      /\ page'.offers \subseteq page.offers /\ page'.from \in {page.from, "none"}
      /\ page'.modals \subseteq page.modals
  <2>1. CASE page' = SetError(page)
      BY <1>2, <2>1 DEF SetError, Closed, PageRecord
  <2>2. CASE page' = [page EXCEPT !.sending = page'.sending, !.sent = page'.sent]
      BY <1>2, <2>2 DEF PageRecord
  <2> QED
      BY <1>4, <2>1, <2>2
<1>6. Online' /\ OnItsTerms'
    BY <1>2, <1>5 DEF Terms, Online, OnItsTerms
<1> QED
    BY <1>1, <1>2, <1>3, <1>5, <1>6, TermsKept

\* The screen opens on the request's terms.
LEMMA InitTerms == SendInit => Terms
<1> SUFFICES ASSUME SendInit PROVE Terms
    OBVIOUS
<1>1. may \in CaseRecord /\ sends = <<>> /\ deliveries = <<>>
    BY SendScreenAssumptions DEF SendInit, SendScreenAssumptions, CaseRecord
<1>2. NotBefore /\ FromAccepted /\ (\A d : ~ForRequest(d)) /\ \A c : ~AskedFor(c)
    BY <1>1 DEF NotBefore, FromAccepted, AskedFor, ForRequest
<1>3. EmptyScreen \in PageRecord
    BY DEF EmptyScreen, PageRecord, Option, Settled, Modal
<1>4. Linking
    BY <1>2 DEF Linking
<1>5. Online /\ OnItsTerms
  <2>1. CASE may.opens = "plain"
    <3>1. PICK m \in SendFrom \cup {"none"} : page = [EmptyScreen EXCEPT !.from = m]
        BY <2>1 DEF SendInit
    <3> QED
        BY <3>1 DEF EmptyScreen, Online, OnItsTerms
  <2>2. CASE may.opens = "contact"
    <3>1. page = ToContact(EmptyScreen)
        BY <2>2 DEF SendInit
    <3> QED
        BY <3>1 DEF ToContact, Addressed, Opened, EmptyScreen, Online, OnItsTerms
  <2>3. CASE may.opens = "late"
    <3>1. page = [EmptyScreen EXCEPT !.resolves = TRUE]
        BY <2>3 DEF SendInit
    <3> QED
        BY <3>1 DEF EmptyScreen, Online, OnItsTerms
  <2>4. CASE may.opens \notin {"plain", "contact", "late"}
    <3>1. PICK offers \in Offers(may) :
              \/ page = Requested(EmptyScreen, may.opens, may.fixed, offers)
              \/ page = Unpayable(EmptyScreen, may.fixed)
        BY <2>4 DEF SendInit
    <3>2. EmptyScreen.online /\ EmptyScreen.modals = {}
        BY DEF EmptyScreen
    <3>3. CASE page = Requested(EmptyScreen, may.opens, may.fixed, offers)
      <4>1. /\ page.online /\ page.modals = {"selector"}
            /\ may.fixed => page.fixed /\ page.offers \subseteq may.accepts
                            /\ page.from \in may.accepts \cup {"none"}
          BY <1>1, <1>3, <3>2, <3>3, OfferedTerms
      <4> QED
          BY <4>1 DEF Online, OnItsTerms
    <3>4. CASE page = Unpayable(EmptyScreen, may.fixed)
        BY <3>4 DEF Unpayable, EmptyScreen, Online, OnItsTerms
    <3> QED
        BY <3>1, <3>3, <3>4
  <2> QED
      BY <2>1, <2>2, <2>3, <2>4
<1> QED
    BY <1>1, <1>2, <1>4, <1>5 DEF Terms

\* Every step keeps the terms.
LEMMA TermsStep == SendInv /\ Terms /\ [SendNext]_sendVars => Terms'
<1> SUFFICES ASSUME SendInv, Terms, [SendNext]_sendVars PROVE Terms'
    OBVIOUS
<1>1. CASE \E c \in page.waits : SendResult(c)
    BY <1>1, ResultTerms
<1>2. CASE RequestResolves
    BY <1>2, ResolveTerms
<1>3. CASE \/ NetworkChanges \/ EnterAmount \/ (\E m \in SendFrom : SelectFrom(m))
           \/ LockToFriend \/ CancelLock \/ PickContact \/ ShowMessage \/ ResultModalOpens
           \/ (\E m \in Modal \ {"selector"} : CloseModal(m)) \/ LeaveSendScreen
    BY <1>3, TapTerms
<1>4. CASE Confirm \/ ConfirmProofs
    BY <1>4, ConfirmTerms
<1>5. CASE \/ \E n \in DOMAIN sends : SendTaskStarts(n) \/ SendTaskEnds(n) \/ Claim(n) \/ SyncFindsClaim(n)
           \/ OtherSettles
    BY <1>5, QueueTerms
<1>6. CASE \E n \in DOMAIN sends : SendTimesOut(n)
    BY <1>6, TimeoutTerms
<1>7. CASE SendAsNostrDM \/ SendAsPostRequest
    BY <1>7, DeliverTerms
<1>8. CASE \E d \in DOMAIN deliveries :
              \/ DeliveryArrives(d) \/ DeliveryConfirmed(d) \/ DeliveryUnsure(d) \/ DeliveryFails(d)
    BY <1>8, DeliveryEndTerms
<1>9. CASE UNCHANGED sendVars
    BY <1>9 DEF sendVars, Terms, NotBefore, Online, OnItsTerms, FromAccepted, Linking, AskedFor, ForRequest
<1> QED
    BY <1>1, <1>2, <1>3, <1>4, <1>5, <1>6, <1>7, <1>8, <1>9 DEF SendNext

\* A payment request is paid with one token, for every number of calls and deliveries.  A token made
\* for it is linked to it before it can leave (handleSendTaskResult), and comes from a mint the
\* request accepts if the amount was given and the phone always online.
THEOREM OnlyAsRequested == SendSpec => []PaysAsRequested
<1>1. SendInv /\ Terms => PaysAsRequested
  <2>1. SendInv /\ Terms => \A n \in PaidWith : sends[n].option = "request" =>
            /\ sends[n].linked
            /\ may.fixed /\ may.steady => sends[n].mint \in may.accepts
      BY DEF SendInv, SendReferences, Terms, FromAccepted, Linking, AskedFor, ForRequest, PaidWith
  <2> QED
      BY <2>1, OneTokenLeaves DEF PaysAsRequested
<1>2. SendSpec => []Terms
    BY InitTerms, TermsStep, SendScreenInvariant, PTL DEF SendSpec
<1> QED
    BY <1>1, <1>2, SendScreenInvariant, PTL
===============================================================================
