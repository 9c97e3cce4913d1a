------------------------------ MODULE NostrIntake ------------------------------
(***************************************************************************)
(* What reaches the wallet over Nostr: Nostr Wallet Connect commands       *)
(* (NwcStore), by push notification and by relay subscription, and direct  *)
(* messages with tokens, invoices and payment requests (nostrOperations).  *)
(*                                                                         *)
(* Every event goes through one ring of received ids (RelaysStore) into    *)
(* the SyncQueue, which runs one task at a time.  A pay command holds the  *)
(* queue while its payment is under way: until it settles, until the       *)
(* listener closes, or until a timer ends the wait.  How the payment       *)
(* itself goes is TransferLifecycle; here it is what NwcStore gets to see. *)
(***************************************************************************)
EXTENDS Integers, FiniteSets, Sequences

CONSTANTS
    Event,          \* Nostr events addressed to the wallet
    EventKind,      \* Event -> pay, query or message
    Bill,           \* Event -> the amounts of the invoices of a pay command
    FeeReserve,     \* what payInvoice adds to an amount for the fee
    Fees,           \* fees a payment may turn out to have
    DailyLimit,     \* of the connection
    Funds,          \* sats of the mint the payment is made from
    MaxMultiPay,    \* MAX_MULTI_PAY_INVOICES
    RingSize,       \* receivedEventIds: 50 in the code
    MaxDay,         \* bound: days
    MaxRuns,        \* bound: times one event is put in the queue
    Scenarios       \* bound: the events of a run, its days, and its restarts, lost
                    \* outcomes and failed replies

ASSUME NostrAssumptions ==
    /\ EventKind \in [Event -> {"pay", "query", "message"}]
    /\ Bill \in [Event -> Seq(Nat \ {0})]
    /\ FeeReserve \in Nat /\ Fees \subseteq 0 .. FeeReserve
    /\ DailyLimit \in Nat /\ Funds \in Nat /\ MaxMultiPay \in Nat
    /\ RingSize \in Nat \ {0} /\ MaxDay \in Nat /\ MaxRuns \in Nat
    /\ \A x \in Scenarios :
          x.events \subseteq Event /\ x.days \in 0 .. MaxDay /\ x.faults \in Nat

VARIABLES
    scenario,   \* what this run does: one of Scenarios
    stamp,      \* relays: Event -> day it was published, -1 before
    ring,       \* receivedEventIds, newest first
    forgotten,  \* ids that fell out of the ring
    since,      \* retrieveEventsSince
    lastCheck,  \* contactsStore.lastPendingReceivedCheck
    nwcSubs,    \* open NWC subscriptions, by the day they start from
    dmSubs,     \* the same for direct messages
    starting,   \* a pushed command was queued, its listener is not open yet
    service,    \* the foreground service and its poll are up
    waiting,    \* events whose task waits in the SyncQueue
    running,    \* the task that runs
    runs,       \* Event -> tasks started for it
    remaining,  \* remainingDailyLimit
    limitDay,   \* currentDay
    today,
    flight,     \* payments under way: [inv, day]
    settledAs,  \* invoices settled: invoice -> amount and fee, 0 if it failed
    spent,      \* day -> sats paid or under way for commands checked that day
    booked,     \* messages that became a transaction
    told,       \* replies published: <<invoice, paid or error>>
    nwcFaults

nostrVars == <<scenario, stamp, ring, forgotten, since, lastCheck, nwcSubs, dmSubs, starting,
               service, waiting, running, runs, remaining, limitDay, today, flight,
               settledAs, spent, booked, told, nwcFaults>>

Invoice == UNION {{<<e, i>> : i \in 1 .. Len(Bill[e])} : e \in Event}
AmountOf(inv) == Bill[inv[1]][inv[2]]
NoTask == [event |-> "none", pc |-> "idle", i |-> 0, out |-> <<>>]
IsNwc(e) == EventKind[e] # "message"

NostrInit ==
    /\ scenario \in Scenarios
    /\ stamp = [e \in Event |-> -1]
    /\ ring = <<>> /\ forgotten = {}
    /\ since = 0 /\ lastCheck = 0 /\ nwcSubs = {} /\ dmSubs = {}
    /\ starting = FALSE /\ service = FALSE
    /\ waiting = {} /\ running = NoTask
    /\ runs = [e \in Event |-> 0]
    /\ remaining = DailyLimit /\ limitDay = 0 /\ today = 0
    /\ flight = {} /\ settledAs = <<>>
    /\ spent = [d \in 0 .. MaxDay |-> 0]
    /\ booked = {} /\ told = {}
    /\ nwcFaults = 0

\* What most actions leave alone, by group.
relayVars == <<scenario, stamp, ring, forgotten, since, lastCheck, nwcSubs, dmSubs, runs,
               booked>>
limitVars == <<remaining, limitDay>>
moneyVars == <<flight, settledAs, spent>>

------------------------------------------------------------------------------
(* Events arrive.                                                          *)

Publish(e) ==
    /\ e \in scenario.events /\ stamp[e] = -1
    /\ stamp' = [stamp EXCEPT ![e] = today]
    /\ UNCHANGED <<scenario, ring, forgotten, since, lastCheck, nwcSubs, dmSubs, runs, starting,
                   service, waiting, running, limitVars, today, moneyVars, booked, told, nwcFaults>>

\* addReceivedEventId: newest in front, the last one out when the ring is full.
Remember(e) ==
    IF Len(ring) < RingSize
    THEN ring' = <<e>> \o ring /\ UNCHANGED forgotten
    ELSE /\ ring' = <<e>> \o SubSeq(ring, 1, RingSize - 1)
         /\ forgotten' = forgotten \cup {ring[RingSize]}

Known(e) == \E i \in 1 .. Len(ring) : ring[i] = e

\* Marked first, then put in the queue.
Accept(e) ==
    /\ runs[e] < MaxRuns
    /\ Remember(e)
    /\ waiting' = waiting \cup {e}
    /\ runs' = [runs EXCEPT ![e] = @ + 1]

\* Mutant: a pushed command is queued without marking its id.
PushUnmarked(e) ==
    /\ IsNwc(e) /\ stamp[e] >= 0 /\ ~starting
    /\ IF Known(e) THEN UNCHANGED <<ring, forgotten, waiting, runs, since>>
       ELSE /\ runs[e] < MaxRuns /\ waiting' = waiting \cup {e}
            /\ runs' = [runs EXCEPT ![e] = @ + 1]
            /\ since' = stamp[e] /\ UNCHANGED <<ring, forgotten>>
    /\ starting' = TRUE
    /\ UNCHANGED <<scenario, stamp, lastCheck, nwcSubs, dmSubs, service, running, limitVars,
                   today, moneyVars, booked, told, nwcFaults>>

\* _nwcRequestHandler and receivePushedEvent: the command in the push is queued here and
\* now; the listener window starts at this event; its listener is opened afterwards.
Push(e) ==
    /\ IsNwc(e) /\ stamp[e] >= 0 /\ ~starting
    /\ IF Known(e) THEN UNCHANGED <<ring, forgotten, waiting, runs, since>>
       ELSE Accept(e) /\ since' = stamp[e]
    /\ starting' = TRUE
    /\ UNCHANGED <<scenario, stamp, lastCheck, nwcSubs, dmSubs, service, running, limitVars,
                   today, moneyVars, booked, told, nwcFaults>>

\* resetDailyLimits: when the day is another one.
ResetLimit ==
    IF limitDay # today THEN remaining' = DailyLimit /\ limitDay' = today
    ELSE UNCHANGED limitVars

\* listenForNwcEvents, from the wallet screen, a reconnection or the service: another
\* subscription each time (isNwcListenerActive is never set).
Listen ==
    /\ nwcSubs' = nwcSubs \cup {since}
    /\ ResetLimit

ListenAgain ==
    /\ Listen
    /\ UNCHANGED <<scenario, stamp, ring, forgotten, since, lastCheck, dmSubs, runs, starting,
                   service, waiting, running, today, moneyVars, booked, told, nwcFaults>>

\* WalletScreen and NwcScreen reset the limits when they open.
OpenScreen ==
    /\ limitDay # today /\ ResetLimit
    /\ UNCHANGED <<relayVars, starting, service, waiting, running, today, moneyVars,
                   told, nwcFaults>>

\* A relay hands over what the subscription asks for, in any order and repeatedly.
NwcDelivers(e) ==
    /\ IsNwc(e) /\ ~Known(e)
    /\ stamp[e] >= 0 /\ \E s \in nwcSubs : stamp[e] >= s
    /\ Accept(e)
    /\ UNCHANGED <<scenario, stamp, since, lastCheck, nwcSubs, dmSubs, starting, service, running,
                   limitVars, today, moneyVars, booked, told, nwcFaults>>

NwcCloses ==
    /\ nwcSubs # {}
    /\ nwcSubs' = {} /\ since' = today
    /\ UNCHANGED <<scenario, stamp, ring, forgotten, lastCheck, dmSubs, runs, starting, service,
                   waiting, running, limitVars, today, moneyVars, booked, told, nwcFaults>>

\* receiveEventsFromRelaysQueue: from the last check, less a margin (here a day).
SubscribeMessages ==
    /\ dmSubs = {}
    /\ dmSubs' = {lastCheck - 1} /\ lastCheck' = today
    /\ UNCHANGED <<scenario, stamp, ring, forgotten, since, nwcSubs, runs, starting, service,
                   waiting, running, limitVars, today, moneyVars, booked, told, nwcFaults>>

MessageDelivers(e) ==
    /\ ~IsNwc(e) /\ ~Known(e)
    /\ stamp[e] >= 0 /\ \E s \in dmSubs : stamp[e] >= s
    /\ Accept(e)
    /\ UNCHANGED <<scenario, stamp, since, lastCheck, nwcSubs, dmSubs, starting, service, running,
                   limitVars, today, moneyVars, booked, told, nwcFaults>>

------------------------------------------------------------------------------
(* A task of the queue.                                                    *)

TaskAt(pc) == running.pc = pc
Invoiced == <<running.event, running.i>>
Total(inv) == AmountOf(inv) + FeeReserve

\* One invoice of the command is done with; the next one is looked at, or the replies sent.
Finish(outcome) ==
    running' = [running EXCEPT !.i = @ + 1, !.out = Append(@, outcome),
                    !.pc = IF running.i = Len(Bill[running.event]) THEN "reply" ELSE "check"]

TakeEvent(e) ==
    /\ TaskAt("idle") /\ e \in waiting
    /\ waiting' = waiting \ {e}
    /\ running' = [event |-> e, pc |-> "open", i |-> 1, out |-> <<>>]
    /\ UNCHANGED <<relayVars, starting, service, limitVars, today, moneyVars, told,
                   nwcFaults>>

\* handleReceivedEventTask: the check moves to the message; a stranger's message is
\* dropped, the others become a transaction or end in an error. All of it ends the task.
HandleMessage ==
    /\ TaskAt("open") /\ EventKind[running.event] = "message"
    /\ lastCheck' = stamp[running.event]
    /\ booked' \in {booked, booked \cup {running.event}}
    /\ running' = NoTask
    /\ UNCHANGED <<scenario, stamp, ring, forgotten, since, nwcSubs, dmSubs, runs, starting, service,
                   waiting, limitVars, today, moneyVars, told, nwcFaults>>

\* Decrypted, proofs loaded: a query is answered from the stores, too many invoices are
\* refused as a whole.
OpenCommand ==
    /\ TaskAt("open") /\ IsNwc(running.event)
    /\ running' = [running EXCEPT
          !.pc  = IF EventKind[running.event] = "query"
                     \/ Len(Bill[running.event]) \notin 1 .. MaxMultiPay
                  THEN "reply" ELSE "check",
          !.out = IF EventKind[running.event] = "query" THEN <<"result">>
                  ELSE IF Len(Bill[running.event]) > MaxMultiPay THEN <<"error">> ELSE <<>>]
    /\ UNCHANGED <<relayVars, starting, service, waiting, limitVars, today, moneyVars, told,
                   nwcFaults>>

Held == {f.inv : f \in flight}

\* Sats left in the wallet: what was paid is gone, what is under way is reserved.
Available == Funds - (LET Sum[d \in -1 .. MaxDay] == IF d = -1 THEN 0 ELSE Sum[d-1] + spent[d]
                      IN Sum[MaxDay])

\* payInvoice up to its first await. The day is looked at once per command.
CheckInvoice ==
    /\ TaskAt("check")
    /\ LET fresh == running.i = 1 /\ limitDay # today
           left  == IF fresh THEN DailyLimit ELSE remaining
       IN /\ remaining' = left
          /\ limitDay' = IF fresh THEN today ELSE limitDay
          /\ IF Available < Total(Invoiced) \/ Total(Invoiced) > left
             THEN Finish("error") ELSE running' = [running EXCEPT !.pc = "melt"]
    /\ UNCHANGED <<relayVars, starting, service, waiting, today, moneyVars, told, nwcFaults>>

\* The mint pays an invoice once: settled as paid, or being paid, it refuses.
Payable(inv) == inv \notin Held /\ (inv \in DOMAIN settledAs => settledAs[inv] = 0)

Settle(inv, cost) ==
    settledAs' = [x \in DOMAIN settledAs \cup {inv} |-> IF x = inv THEN cost ELSE settledAs[x]]

\* The quote or the transfer failed and nothing was paid.
MeltFails ==
    /\ TaskAt("melt") /\ Finish("error")
    /\ UNCHANGED <<relayVars, starting, service, waiting, limitVars, today, moneyVars, told,
                   nwcFaults>>

\* The notification of a payment: when it throws, payInvoice answers with an error.
Announce ==
    \/ Finish("paid") /\ UNCHANGED nwcFaults
    \/ nwcFaults < scenario.faults /\ nwcFaults' = nwcFaults + 1 /\ Finish("error")

\* Paid at once: the limit goes down by what it cost.
MeltPays(fee) ==
    /\ TaskAt("melt") /\ Payable(Invoiced)
    /\ LET cost == AmountOf(Invoiced) + fee IN
       /\ Settle(Invoiced, cost)
       /\ spent' = [spent EXCEPT ![limitDay] = @ + cost]
       /\ remaining' = remaining - cost
    /\ Announce
    /\ UNCHANGED <<relayVars, starting, service, waiting, limitDay, today, flight, told>>

\* The mint took the payment and answers later: the command waits, in the queue's slot.
MeltPending ==
    /\ TaskAt("melt") /\ Payable(Invoiced)
    /\ flight' = flight \cup {[inv |-> Invoiced, day |-> limitDay]}
    /\ spent' = [spent EXCEPT ![limitDay] = @ + Total(Invoiced)]
    /\ running' = [running EXCEPT !.pc = "settle"]
    /\ UNCHANGED <<relayVars, starting, service, waiting, limitVars, today, settledAs, told,
                   nwcFaults>>

\* The payment is under way and the wallet does not know: the error is all it has.
MeltUnknown ==
    /\ TaskAt("melt") /\ Payable(Invoiced) /\ nwcFaults < scenario.faults
    /\ nwcFaults' = nwcFaults + 1
    /\ flight' = flight \cup {[inv |-> Invoiced, day |-> limitDay]}
    /\ spent' = [spent EXCEPT ![limitDay] = @ + Total(Invoiced)]
    /\ Finish("error")
    /\ UNCHANGED <<relayVars, starting, service, waiting, limitVars, today, settledAs, told>>

\* ev_asyncMeltResult: the monitor settles the payment; a command waiting for this very
\* transaction goes on with it.
MonitorTells(f, cost) ==
    /\ f \in flight
    /\ flight' = flight \ {f}
    /\ Settle(f.inv, cost)
    /\ spent' = [spent EXCEPT ![f.day] = @ - Total(f.inv) + cost]
    /\ IF TaskAt("settle") /\ Invoiced = f.inv
       THEN /\ IF cost > 0 THEN Announce ELSE Finish("error") /\ UNCHANGED nwcFaults
            /\ remaining' = remaining - cost
       ELSE UNCHANGED <<running, remaining, nwcFaults>>
    /\ UNCHANGED <<relayVars, starting, service, waiting, limitDay, today, told>>

\* Mutant: a command that stops waiting leaves the limit as it is.
StopWaitingFree ==
    IF TaskAt("settle") THEN Finish("pending") /\ UNCHANGED remaining
    ELSE UNCHANGED <<running, remaining>>

\* Mutant: a command that stops waiting reports a failure.
StopWaitingFailed ==
    IF TaskAt("settle")
    THEN Finish("error") /\ remaining' = remaining - Total(Invoiced)
    ELSE UNCHANGED <<running, remaining>>

\* The wait ends without an outcome: the limit is lowered by the whole reserve, and no
\* reply is sent.
StopWaiting ==
    IF TaskAt("settle")
    THEN Finish("pending") /\ remaining' = remaining - Total(Invoiced)
    ELSE UNCHANGED <<running, remaining>>

\* Mutant: the backstop only counts while the service is up.
BackstopWithService ==
    /\ TaskAt("settle") /\ service /\ StopWaiting
    /\ UNCHANGED <<relayVars, starting, service, waiting, limitDay, today, moneyVars, told,
                   nwcFaults>>

\* NWC_ASYNC_MELT_SAFETY_MS.
Backstop ==
    /\ TaskAt("settle") /\ StopWaiting
    /\ UNCHANGED <<relayVars, starting, service, waiting, limitDay, today, moneyVars, told,
                   nwcFaults>>

\* Replies go out one by one, none for a payment that is still pending.
Reply ==
    /\ TaskAt("reply")
    /\ IF running.out = <<>> THEN running' = NoTask /\ UNCHANGED told
       ELSE /\ running' = [running EXCEPT !.out = Tail(@)]
            /\ told' = IF Head(running.out) \in {"paid", "error"} /\ Bill[running.event] # <<>>
                       THEN told \cup {<<<<running.event,
                                Len(Bill[running.event]) - Len(running.out) + 1>>,
                                Head(running.out)>>}
                       ELSE told
    /\ UNCHANGED <<relayVars, starting, service, waiting, limitVars, today, moneyVars,
                   nwcFaults>>

\* A notification or a publication throws: the task fails and the rest is not sent.
ReplyFails ==
    /\ TaskAt("reply") /\ running.out # <<>> /\ nwcFaults < scenario.faults
    /\ nwcFaults' = nwcFaults + 1
    /\ running' = NoTask
    /\ UNCHANGED <<relayVars, starting, service, waiting, limitVars, today, moneyVars, told>>

------------------------------------------------------------------------------
(* The foreground service, the clock, restarts.                            *)

\* createNwcListenerNotification: the service starts and listens, or Android refuses it
\* and a waiting command is let go at once.
ServiceOpens ==
    /\ starting /\ starting' = FALSE
    /\ \/ service' = TRUE /\ Listen /\ UNCHANGED running
       \/ StopWaiting /\ UNCHANGED <<service, nwcSubs, limitDay>>
    /\ UNCHANGED <<scenario, stamp, ring, forgotten, since, lastCheck, dmSubs, runs, waiting, today,
                   moneyVars, booked, told, nwcFaults>>

\* closeNwcListener: idle, at its hard cap, or stopped by the user. iOS closes the
\* subscription with it.
ServiceCloses ==
    /\ service /\ service' = FALSE
    /\ StopWaiting
    /\ \/ UNCHANGED <<nwcSubs, since>>
       \/ nwcSubs' = {} /\ since' = today
    /\ UNCHANGED <<scenario, stamp, ring, forgotten, lastCheck, dmSubs, runs, starting, waiting,
                   limitDay, today, moneyVars, booked, told, nwcFaults>>

NewDay ==
    /\ today < scenario.days /\ today' = today + 1
    /\ UNCHANGED <<relayVars, starting, service, waiting, running, limitVars, moneyVars,
                   told, nwcFaults>>

\* The snapshot keeps the ring, the windows and the limits; queue and task are gone.
RestartNostr ==
    /\ nwcFaults < scenario.faults /\ nwcFaults' = nwcFaults + 1
    /\ nwcSubs' = {} /\ dmSubs' = {} /\ starting' = FALSE /\ service' = FALSE
    /\ waiting' = {} /\ running' = NoTask
    /\ UNCHANGED <<scenario, stamp, ring, forgotten, since, lastCheck, runs, limitVars, today,
                   moneyVars, booked, told>>

------------------------------------------------------------------------------
Arrival == \/ \E e \in Event : Publish(e) \/ Push(e) \/ NwcDelivers(e) \/ MessageDelivers(e)
           \/ ListenAgain \/ NwcCloses \/ SubscribeMessages \/ OpenScreen

CommandStep == \/ \E e \in Event : TakeEvent(e)
               \/ HandleMessage \/ OpenCommand \/ CheckInvoice \/ Reply
               \/ MeltFails \/ MeltPending \/ \E fee \in Fees : MeltPays(fee)

Surroundings == \/ MeltUnknown \/ ReplyFails \/ RestartNostr \/ NewDay
                \/ ServiceOpens \/ ServiceCloses
                \/ \E f \in flight : \/ MonitorTells(f, 0)
                                     \/ \E fee \in Fees : MonitorTells(f, AmountOf(f.inv) + fee)

NostrNext == Arrival \/ CommandStep \/ Backstop \/ Surroundings

\* A task that can go on goes on, and the timer fires. The mint, the relays, the user and
\* the service owe nothing.
NostrFair == WF_nostrVars(CommandStep) /\ WF_nostrVars(Backstop)

NostrSpec == NostrInit /\ [][NostrNext]_nostrVars /\ NostrFair

------------------------------------------------------------------------------
(* Properties.                                                             *)

\* No day's commands pay more than the limit, with payments still under way counted at
\* their reserve, over a change of day, a command of several invoices and a listener that
\* closes in the middle - as long as the process lives and learns its payments' outcomes.
LimitHolds ==
    nwcFaults = 0 => \A d \in 0 .. MaxDay : spent[d] <= DailyLimit

\* Push, subscriptions and their restarts bring the same command, and it runs once,
\* unless as many newer ids as the ring holds came after it.
HandledOnce == \A e \in Event : runs[e] > 1 => e \in forgotten

\* An error reply means the invoice is not paid and will not be.
ErrorMeansUnpaid ==
    nwcFaults = 0 => \A inv \in Invoice :
        <<inv, "error">> \in told /\ inv[1] \notin forgotten
            => inv \notin Held /\ (inv \in DOMAIN settledAs => settledAs[inv] = 0)

\* A command does not keep the queue for ever, whatever the mint and the service do.
QueueMovesOn == []<>(running.pc = "idle")
===============================================================================
