------------------------------- MODULE SendScreen -------------------------------
(***************************************************************************)
(* SendScreen: making one token and getting it to somebody.                *)
(*                                                                         *)
(* A token is made by a sendTask in the queue, shown as a QR code, and     *)
(* sent by a Nostr message or a POST; a sync finds out that it was         *)
(* claimed.  The screen awaits all of these while the user goes on.        *)
(* SendLifecycle has the task and the sync in full.                        *)
(***************************************************************************)
EXTENDS Integers, Sequences, FiniteSets

CONSTANTS
    SendFrom, DefaultFrom,  \* mints to send from, and the one with the highest balance
    SendCases               \* how the screen is opened; of a request: whether it fixes the amount,
                            \* the mints it accepts; whether the network is steady; bounds on
                            \* calls, deliveries and settlements of other transactions

\* late: the payee is unknown, so that the relays are asked for a profile first.
ASSUME SendScreenAssumptions ==
    /\ DefaultFrom \in SendFrom /\ "none" \notin SendFrom
    /\ SendCases \subseteq [opens : {"plain", "contact", "nostr", "late", "post"}, fixed : BOOLEAN,
                            accepts : SUBSET SendFrom, steady : BOOLEAN, calls : Nat,
                            deliveries : Nat, others : Nat]

VARIABLES
    page,       \* the reducer's state, with what the screen waits for and listens to
    sends,      \* the calls begun: what they were begun with, and the transaction
    deliveries, \* messages and POST requests, in order
    may         \* the case, with the other settlements that are left

sendVars == <<page, sends, deliveries, may>>

Modal == {"selector", "proofs", "nostrDM", "post", "result"}

-----------------------------------------------------------------------------
(* The reducer.                                                            *)

Closed(s, m) == [s EXCEPT !.modals = @ \ m]
Opened(s, m) == [s EXCEPT !.modals = @ \cup m]

\* SET_ERROR
SetError(s) ==
    [Closed(s, Modal \ {"result"}) EXCEPT !.loading = FALSE, !.offers = {}, !.from = "none",
                                          !.sending = {}]

\* What the token is for, and how it gets there.
Addressed(s, option, contact, relays, post) ==
    [s EXCEPT !.option = option, !.contact = contact, !.relays = relays, !.post = post]

\* PREPARE_SEND_TO_CONTACT; the message is offered at once if there is a token.
ToContact(s) ==
    Addressed(Opened(s, IF s.token # 0 THEN {"nostrDM"} ELSE {}), "contact", "friend", TRUE, s.post)

\* The accepted mints; each may be short of a fixed amount, all of them only if the request
\* names none, which accepts every mint.
Offers(c) ==
    IF ~c.fixed THEN {c.accepts}
    ELSE IF c.accepts = SendFrom THEN SUBSET SendFrom ELSE (SUBSET c.accepts) \ {{}}

\* PREPARE_CASHU_PR after the amount was set, which makes the listener subscribe again.
Requested(s, kind, fixed, offers) ==
    LET nostr == kind # "post"
        to == IF nostr THEN "payee" ELSE "none"
    IN  [Addressed(Opened(s, {"selector"}), "request", to, nostr, ~nostr)
            EXCEPT !.resolves = FALSE, !.fixed = fixed, !.offers = offers,
                   !.from = IF offers = {} THEN @ ELSE CHOOSE m \in offers : TRUE,
                   !.listens = @ \/ (fixed /\ s.token # 0)]

\* Without a common mint, or funds, the amount stays fixed and there is nothing to pay it with.
Unpayable(s, fixed) ==
    [s EXCEPT !.resolves = FALSE, !.fixed = fixed, !.listens = @ \/ (fixed /\ s.token # 0)]

-----------------------------------------------------------------------------
(* Opening and leaving.                                                    *)

EmptyScreen ==
    [open |-> TRUE, online |-> TRUE, option |-> "show", resolves |-> FALSE, fixed |-> FALSE,
     contact |-> "none", relays |-> FALSE, post |-> FALSE, offers |-> {}, from |-> "none",
     token |-> 0, status |-> "none", modals |-> {}, due |-> FALSE,
     loading |-> FALSE, waits |-> {}, listens |-> FALSE, sending |-> {}, sent |-> {}]

\* The effects: a mint that was chosen before; a request is there at once unless a profile has to be asked for.
SendInit ==
    /\ may \in SendCases
    /\ sends = <<>> /\ deliveries = <<>>
    /\ CASE may.opens = "plain" -> \E m \in SendFrom \cup {"none"} :
                                       page = [EmptyScreen EXCEPT !.from = m]
         [] may.opens = "contact" -> page = ToContact(EmptyScreen)
         [] may.opens = "late" -> page = [EmptyScreen EXCEPT !.resolves = TRUE]
         [] OTHER -> \E offers \in Offers(may) :
                         page \in {Requested(EmptyScreen, may.opens, may.fixed, offers),
                                     Unpayable(EmptyScreen, may.fixed)}

\* handlePaymentRequest goes on after the profile: on top of whatever the user did meanwhile.
RequestResolves ==
    /\ page.resolves
    /\ \/ \E offers \in Offers(may) :
              page' = Requested(page, "nostr", may.fixed, offers)
       \/ page' = Unpayable(page, may.fixed)
       \/ page' = [SetError(page) EXCEPT !.resolves = FALSE]
    /\ UNCHANGED <<sends, deliveries, may>>

\* gotoWallet or back.  What was awaited goes on without a screen.
LeaveSendScreen ==
    /\ page.open
    /\ page' = [EmptyScreen EXCEPT !.open = FALSE, !.waits = page.waits]
    /\ UNCHANGED <<sends, deliveries, may>>

\* Offline every mint is offered, for coins picked by hand.
NetworkChanges ==
    /\ page.open /\ ~may.steady
    /\ page' = IF page.online THEN [page EXCEPT !.online = FALSE, !.offers = SendFrom]
                                  ELSE [page EXCEPT !.online = TRUE]
    /\ UNCHANGED <<sends, deliveries, may>>

-----------------------------------------------------------------------------
(* Amount, mint, lock.                                                     *)

\* The loading overlay and the modals take every tap.
TapsPass == page.open /\ ~page.loading /\ page.modals \subseteq {"selector"}

\* Mutant: also when a token is shown.
SelectorShownAgain == TapsPass /\ "selector" \in page.modals

SelectorShown == TapsPass /\ "selector" \in page.modals /\ page.token = 0

\* Mutant: the amount of a request can be entered again.
EnterAnyAmount ==
    /\ TapsPass /\ page.status # "PENDING"
    /\ page' = [Opened(page, {"selector"})
                    EXCEPT !.offers = SendFrom, !.from = IF @ = "none" THEN DefaultFrom ELSE @]
    /\ UNCHANGED <<sends, deliveries, may>>

\* onAmountEndEditing
EnterAmount ==
    /\ TapsPass /\ page.status # "PENDING" /\ ~page.fixed
    /\ page' = [Opened(page, {"selector"})
                    EXCEPT !.offers = SendFrom, !.from = IF @ = "none" THEN DefaultFrom ELSE @]
    /\ UNCHANGED <<sends, deliveries, may>>

SelectFrom(m) ==
    /\ SelectorShown /\ m \in page.offers \ {page.from}
    /\ page' = [page EXCEPT !.from = m]
    /\ UNCHANGED <<sends, deliveries, may>>

\* onLockPubkeySelect with the key of a contact, and onLockPubkeyCancel.  Another key changes
\* the token only.
LockToFriend ==
    /\ SelectorShown
    /\ page' = ToContact(page)
    /\ UNCHANGED <<sends, deliveries, may>>

CancelLock ==
    /\ SelectorShown /\ page.contact # "none"
    /\ page' = [page EXCEPT !.contact = "none"]
    /\ UNCHANGED <<sends, deliveries, may>>

-----------------------------------------------------------------------------
(* Making the token.                                                       *)

\* sendQueueAwaitable.  What happens with the answer is decided by this render's state.
CallSend(s) ==
    /\ Len(sends) < may.calls
    /\ sends' = Append(sends, [mint |-> s.from, option |-> s.option, relays |-> s.relays,
                               post |-> s.post, heard |-> 0, at |-> "queued",
                               status |-> "none", ecash |-> "none", claimed |-> "none",
                               linked |-> FALSE])
    /\ page' = [s EXCEPT !.loading = TRUE, !.waits = @ \cup {Len(sends')}]

\* onMintBalanceConfirm.  Offline it goes on only if coins for the exact amount were found.
ConfirmWith(s) ==
    \/ CallSend(s)
    \/ ~s.online /\ page' = Opened(s, {"proofs"}) /\ UNCHANGED sends

Confirm ==
    /\ SelectorShown
    /\ IF page.from = "none" THEN page' = SetError(page) /\ UNCHANGED sends
                               ELSE ConfirmWith(page)
    /\ UNCHANGED <<deliveries, may>>

\* onOfflineSendConfirm; the selector was opened with a mint.
ConfirmProofs ==
    /\ page.open /\ "proofs" \in page.modals /\ ~page.loading
    /\ ConfirmWith(Closed(page, {"proofs"}))
    /\ UNCHANGED <<deliveries, may>>

\* The queue runs one task at a time, the latest call first.
SendTaskStarts(n) ==
    /\ sends[n].at = "queued"
    /\ \A k \in DOMAIN sends : sends[k].at # "running" /\ (k > n => sends[k].at = "ended")
    /\ sends' = [sends EXCEPT ![n].at = "running"]
    /\ UNCHANGED <<page, deliveries, may>>

\* createQueueAwaitable takes the event of a task's end for the answer to every call that waits.
Answered(n, t) ==
    [k \in DOMAIN sends |->
        LET r == IF k = n THEN t ELSE sends[k]
        IN  IF k \in page.waits THEN [r EXCEPT !.heard = n] ELSE r]

\* sendTask
SendTaskEnds(n) ==
    /\ sends[n].at = "running"
    /\ \/ sends' = Answered(n, [sends[n] EXCEPT !.at = "ended", !.status = "PENDING",
                                                !.ecash = "PENDING"])
       \/ sends' = Answered(n, [sends[n] EXCEPT !.at = "ended", !.status = "ERROR"])
    /\ UNCHANGED <<page, deliveries, may>>

\* SEND_TASK_SUCCESS with the token of n, shown as c wants it; the new transactionId makes the
\* screen listen to syncs.
Made(s, c, n) ==
    LET via == CASE sends[c].option = "contact" -> {"nostrDM"}
                 [] sends[c].option = "request" /\ sends[c].relays -> {"nostrDM"}
                 [] sends[c].option = "request" /\ sends[c].post -> {"post"}
                 [] OTHER -> {}
    IN  [Opened(Closed(s, {"selector", "nostrDM", "post"}), via)
            EXCEPT !.loading = FALSE, !.token = n, !.status = sends[n].status, !.listens = TRUE]

\* SEND_TASK_ERROR: the status of the transaction on the screen is not set.
NotMade(s) == [Opened(s, {"result"}) EXCEPT !.loading = FALSE]

\* handleSendTaskResult: the transaction is linked to the request although the screen is gone.  The
\* request has an id, which the format leaves optional: without one nothing is linked, and such
\* requests are not modelled.
SendResult(c) ==
    LET n == sends[c].heard
        s == [page EXCEPT !.waits = @ \ {c}]
        made == sends[n].ecash # "none"
    IN  /\ c \in page.waits /\ n # 0
        /\ sends' = [sends EXCEPT ![n].linked = @ \/ (made /\ sends[c].option = "request")]
        /\ page' = IF ~s.open THEN s ELSE IF made THEN Made(s, c, n) ELSE NotMade(s)
        /\ UNCHANGED <<deliveries, may>>

\* The call times out; the task goes on, for whoever waits then.
SendTimesOut(c) ==
    /\ c \in page.waits /\ sends[c].heard = 0
    /\ LET s == [page EXCEPT !.waits = @ \ {c}]
       IN  page' = IF s.open THEN SetError(s) ELSE s
    /\ UNCHANGED <<sends, deliveries, may>>

-----------------------------------------------------------------------------
(* Delivering it.                                                          *)

\* TokenOptionsBlock, next to the QR code.
TokenShown == TapsPass /\ page.status = "PENDING" /\ page.token # 0

\* "Send to contact" leads to the contacts and back; "Send to ..." opens the message again.
PickContact ==
    /\ TokenShown /\ page.contact = "none"
    /\ page' = ToContact(page)
    /\ UNCHANGED <<sends, deliveries, may>>

ShowMessage ==
    /\ TokenShown /\ page.contact # "none"
    /\ page' = Opened(page, {"nostrDM"})
    /\ UNCHANGED <<sends, deliveries, may>>

CanDeliver(channel) ==
    page.open /\ channel \in page.modals /\ channel \notin page.sending \cup page.sent

StartDelivery(channel) ==
    /\ Len(deliveries) < may.deliveries
    /\ deliveries' = Append(deliveries, [of |-> page.token, channel |-> channel,
                              option |-> page.option, arrived |-> FALSE, over |-> FALSE])
    /\ page' = [page EXCEPT !.sending = @ \cup {channel}]

\* sendAsNostrDM.  For a request it carries the request's id.  A receiver may have been
\* cancelled, a mint cleared by an error.
SendAsNostrDM ==
    /\ CanDeliver("nostrDM")
    /\ IF page.contact = "none" \/ page.token = 0 \/ page.from = "none"
       THEN page' = SetError(page) /\ UNCHANGED deliveries
       ELSE StartDelivery("nostrDM")
    /\ UNCHANGED <<sends, may>>

\* sendAsPostRequest; its modal is never there without endpoint, token and mint.
SendAsPostRequest == CanDeliver("post") /\ StartDelivery("post") /\ UNCHANGED <<sends, may>>

DeliveryArrives(d) ==
    /\ ~deliveries[d].arrived /\ ~deliveries[d].over
    /\ deliveries' = [deliveries EXCEPT ![d].arrived = TRUE]
    /\ UNCHANGED <<page, sends, may>>

\* The answer is in: the message was found at a relay, or the endpoint answered.  PENDING is
\* written again with the event and the relays, after whatever the send has become.
DeliveryConfirmed(d) ==
    /\ ~deliveries[d].over /\ deliveries[d].arrived
    /\ deliveries' = [deliveries EXCEPT ![d].over = TRUE]
    /\ sends' = [sends EXCEPT ![deliveries[d].of].status = "PENDING"]
    /\ page' = IF ~page.open THEN page
                 ELSE [page EXCEPT !.sending = @ \ {deliveries[d].channel},
                                     !.sent = @ \cup {deliveries[d].channel}]
    /\ UNCHANGED may

\* The message is published but not found again, or there is no answer: it may have arrived.
DeliveryUnsure(d) ==
    /\ ~deliveries[d].over
    /\ deliveries' = [deliveries EXCEPT ![d].over = TRUE]
    /\ page' = IF ~page.open THEN page
                 ELSE IF deliveries[d].channel = "nostrDM"
                      THEN [page EXCEPT !.sending = @ \ {"nostrDM"}, !.sent = @ \ {"nostrDM"}]
                      ELSE SetError(page)
    /\ UNCHANGED <<sends, may>>

DeliveryFails(d) ==
    /\ ~deliveries[d].over /\ deliveries[d].channel = "nostrDM"
    /\ deliveries' = [deliveries EXCEPT ![d].over = TRUE]
    /\ page' = IF page.open THEN SetError(page) ELSE page
    /\ UNCHANGED <<sends, may>>

-----------------------------------------------------------------------------
(* Claims, and what a sync tells.                                          *)

\* Whoever has seen the token, or got it: all of it, or a part first.
Claim(n) ==
    /\ sends[n].ecash = "PENDING" /\ sends[n].claimed # "all"
    /\ \/ page.token = n
       \/ \E d \in DOMAIN deliveries : deliveries[d].of = n /\ deliveries[d].arrived
    /\ \E c \in {"part", "all"} \ {sends[n].claimed} :
           sends' = [sends EXCEPT ![n].claimed = c]
    /\ UNCHANGED <<page, deliveries, may>>

\* Mutant: any transaction's settlement is taken for the one on the screen.
ToldOfAny(n, s) ==
    IF page.listens
    THEN [Closed(page, {"nostrDM", "proofs"})
            EXCEPT !.status = s, !.due = TRUE, !.listens = FALSE]
    ELSE page

\* handleSyncStateResult.  The handler unsubscribes whatever transaction was updated (0: one
\* that was not begun here); the result modal opens after a delay.
ToldOf(n, s) ==
    IF ~page.listens THEN page
    ELSE IF n # page.token THEN [page EXCEPT !.listens = FALSE]
    ELSE [Closed(page, {"nostrDM", "proofs"})
            EXCEPT !.status = s, !.due = TRUE, !.listens = FALSE]

SyncFindsClaim(n) ==
    /\ sends[n].ecash = "PENDING" /\ sends[n].claimed # "none"
    /\ LET s == IF sends[n].claimed = "all" THEN "COMPLETED" ELSE "ERROR"
       IN  /\ sends' = [sends EXCEPT ![n] = [@ EXCEPT !.status = s, !.ecash = "SPENT"]]
           /\ page' = ToldOf(n, s)
    /\ UNCHANGED <<deliveries, may>>

OtherSettles ==
    /\ may.others > 0
    /\ may' = [may EXCEPT !.others = @ - 1]
    /\ page' = ToldOf(0, "COMPLETED")
    /\ UNCHANGED <<sends, deliveries>>

ResultModalOpens ==
    /\ page.due
    /\ page' = [Opened(page, {"result"}) EXCEPT !.due = FALSE]
    /\ UNCHANGED <<sends, deliveries, may>>

\* Back button, backdrop or close button of the modal in front.
CloseModal(m) ==
    /\ m \in page.modals
    /\ page' = Closed(page, {m})
    /\ UNCHANGED <<sends, deliveries, may>>

-----------------------------------------------------------------------------
\* Calls are resolved before anything else runs.
SendResultIsIn == \E c \in page.waits : sends[c].heard # 0

SendNext ==
    \/ \E c \in page.waits : SendResult(c)
    \/ /\ ~SendResultIsIn
       /\ \/ RequestResolves \/ LeaveSendScreen \/ NetworkChanges \/ EnterAmount
          \/ \E m \in SendFrom : SelectFrom(m)
          \/ LockToFriend \/ CancelLock \/ Confirm \/ ConfirmProofs
          \/ \E n \in DOMAIN sends :
              \/ SendTaskStarts(n) \/ SendTaskEnds(n) \/ SendTimesOut(n)
              \/ Claim(n) \/ SyncFindsClaim(n)
          \/ PickContact \/ ShowMessage \/ SendAsNostrDM \/ SendAsPostRequest
          \/ \E d \in DOMAIN deliveries :
              \/ DeliveryArrives(d) \/ DeliveryConfirmed(d) \/ DeliveryUnsure(d) \/ DeliveryFails(d)
          \/ OtherSettles \/ ResultModalOpens
          \/ \E m \in Modal \ {"selector"} : CloseModal(m)

SendSpec == SendInit /\ [][SendNext]_sendVars

-----------------------------------------------------------------------------
(* Properties.                                                             *)

\* "That was fast!": SendScreen shows a send as COMPLETED only if the token it shows was
\* claimed, through results of other transactions that the same event carries and tokens
\* that come late.
ClaimShownIsTrue ==
    page.status = "COMPLETED" => sends[page.token].claimed = "all"

\* The tokens that left under the request's id.
PaidWith == {deliveries[d].of : d \in {e \in DOMAIN deliveries : deliveries[e].option = "request"}}

\* A payment request that has an id is paid with one token, although a call may time out with its
\* token still being made, be made again, and a message may be sent again when no relay confirms it.
\* That token is linked to the request (handleSendTaskResult), and comes from a mint the request
\* accepts if the amount was given and the phone always online; unless the request came from the
\* relays after the token had been asked for.
PaysAsRequested ==
    /\ Cardinality(PaidWith) <= 1
    /\ \A n \in PaidWith :
        sends[n].option = "request" =>
            /\ sends[n].linked
            /\ may.fixed /\ may.steady => sends[n].mint \in may.accepts
=================================================================================
