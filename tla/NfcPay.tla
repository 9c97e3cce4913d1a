-------------------------------- MODULE NfcPay --------------------------------
(***************************************************************************)
(* NfcPayScreen: reading a payment request over NFC, paying it, writing    *)
(* the token back, and getting the reader ready for the next tap.          *)
(*                                                                         *)
(* Every startNfcSession, with the rearmReader that may follow it, is a    *)
(* lane; lanes run side by side and meet at the reader, which serves one   *)
(* technology request at a time and refuses a second, and at the refs and  *)
(* the state of the screen.  The terminal goes on presenting its request.  *)
(***************************************************************************)
EXTENDS Integers

CONSTANTS
    Lane,           \* flows that may run at a time
    MaxDismissals,  \* results the user dismisses
    MaxVisits       \* times the user goes to the scan screen and back

ASSUME NfcPayAssumptions ==
    /\ {MaxDismissals, MaxVisits} \subseteq Nat
    /\ Lane # {} /\ "none" \notin Lane

VARIABLES
    android,        \* the platform: iOS never arms its reader again by itself
    screenAt,       \* shown, hidden behind the scan screen, gone
    keepScanning, paymentLocked, readerActive,      \* the refs
    nfcEnabled, processing, paid, modal,            \* the state
    reader,         \* lane of the open technology request, or none
    lane,           \* Lane -> where its flow is
    fallback,       \* the timer that shows a payment still pending
    begun,          \* payments begun
    dismissed, visits

nfcVars == <<android, screenAt, keepScanning, paymentLocked, readerActive, nfcEnabled, processing,
             paid, modal, reader, lane, fallback, begun, dismissed, visits>>

refs == <<keepScanning, paymentLocked, readerActive>>
shownState == <<nfcEnabled, processing, paid, modal>>
userVars == <<android, screenAt, dismissed, visits>>

FreeLane == CHOOSE l \in Lane : lane[l] = "none"
HasLane == \E l \in Lane : lane[l] = "none"
Step(l, to) == lane' = [lane EXCEPT ![l] = to]

\* A resolved read goes on before the user acts and before a timer of 300 ms ends.
Resolving == \E l \in Lane : lane[l] = "found"

\* initNfc: armed for a tap, or given what the launching tap had read and paying that without
\* a reader.
NfcInit ==
    /\ android \in BOOLEAN /\ screenAt = "shown"
    /\ paymentLocked = FALSE /\ readerActive = FALSE /\ paid = FALSE /\ modal = FALSE
    /\ fallback = FALSE /\ dismissed = 0 /\ visits = 0
    /\ nfcEnabled \in BOOLEAN /\ keepScanning = nfcEnabled /\ processing = ~nfcEnabled
    /\ LET first == CHOOSE l \in Lane : TRUE
       IN /\ lane = [l \in Lane |-> IF l # first THEN "none"
                                    ELSE IF nfcEnabled THEN "reading" ELSE "launched"]
          /\ reader = IF nfcEnabled THEN first ELSE "none"
    /\ begun = IF nfcEnabled THEN 0 ELSE 1

-----------------------------------------------------------------------------
(* The reader.                                                             *)

\* readNdefTag: requestTechnology is refused while another request is open.
Request(l, to) ==
    IF reader = "none" THEN reader' = l /\ Step(l, to)
    ELSE Step(l, "failed") /\ UNCHANGED reader

\* A tag in the field resolves the request; the connection stays open.
TagFound(l) ==
    /\ reader = l /\ lane[l] \in {"reading", "tapping"}
    /\ Step(l, IF lane[l] = "reading" THEN "found" ELSE "tapped")
    /\ UNCHANGED <<userVars, refs, shownState, reader, fallback, begun>>

\* cancelTechnologyRequest rejects a request that still waits.
Cancelled(lanes) ==
    [l \in Lane |-> IF reader = l /\ lanes[l] \in {"reading", "tapping"} THEN "failed" ELSE lanes[l]]

-----------------------------------------------------------------------------
(* startNfcSession after the read.                                         *)

\* Mutant: the lock is left to the end of the payment.
LockOnLate(l) ==
    /\ lane[l] = "found" /\ readerActive' = TRUE
    /\ \/ Step(l, "failed") /\ UNCHANGED <<paymentLocked, processing, begun>>
       \/ /\ processing' = TRUE /\ UNCHANGED paymentLocked
          /\ \/ Step(l, "failed") /\ UNCHANGED begun
             \/ Step(l, "paying") /\ begun' = begun + 1
    /\ UNCHANGED <<userVars, keepScanning, nfcEnabled, paid, modal, reader, fallback>>

\* A tag without a message fails before the lock, one without a request after it.
LockOn(l) ==
    /\ lane[l] = "found" /\ readerActive' = TRUE
    /\ \/ Step(l, "failed") /\ UNCHANGED <<paymentLocked, processing, begun>>
       \/ /\ paymentLocked' = TRUE /\ processing' = TRUE
          /\ \/ Step(l, "failed") /\ UNCHANGED begun
             \/ Step(l, "paying") /\ begun' = begun + 1
    /\ UNCHANGED <<userVars, keepScanning, nfcEnabled, paid, modal, reader, fallback>>

\* handleIncomingData for an invoice, a token or a request with a transport: the result goes
\* to a modal, or, for a request, to the screen.
PayElsewhere(l) ==
    /\ lane[l] \in {"paying", "launched"}
    /\ paid' = TRUE /\ modal' \in {modal, ~modal} /\ fallback' \in {fallback, TRUE}
    /\ Step(l, IF lane[l] = "paying" THEN "finally" ELSE "none")
    /\ processing' = (processing /\ lane[l] = "paying")
    /\ UNCHANGED <<userVars, refs, nfcEnabled, reader, begun>>

\* handleSendTaskResult of a request without a transport: the token goes back over NFC.
MakeToken(l) ==
    /\ lane[l] = "paying" /\ fallback' = TRUE
    /\ Step(l, IF readerActive THEN "write" ELSE "tap")
    /\ UNCHANGED <<userVars, refs, shownState, reader, begun>>

TapAgain(l) ==
    /\ lane[l] = "tap" /\ Request(l, "tapping")
    /\ UNCHANGED <<userVars, refs, shownState, fallback, begun>>

Tapped(l) ==
    /\ lane[l] = "tapped" /\ readerActive' = TRUE /\ Step(l, "write")
    /\ UNCHANGED <<userVars, keepScanning, paymentLocked, shownState, reader, fallback, begun>>

\* writeNdefMessage writes to the tag the reader is connected to; offline a modal tells it.
Write(l) ==
    /\ lane[l] = "write" /\ reader # "none"
    /\ lane[reader] \notin {"reading", "tapping"}
    /\ paid' = TRUE /\ modal' \in {modal, ~modal} /\ Step(l, "finally")
    /\ UNCHANGED <<userVars, refs, nfcEnabled, processing, reader, fallback, begun>>

PayFails(l) ==
    /\ lane[l] \in {"paying", "write"} /\ Step(l, "failed")
    /\ UNCHANGED <<userVars, refs, shownState, reader, fallback, begun>>

LaunchFails(l) ==
    /\ lane[l] = "launched" /\ Step(l, "none")
    /\ processing' = FALSE /\ modal' = ~modal
    /\ UNCHANGED <<userVars, refs, nfcEnabled, paid, reader, fallback, begun>>

\* The catch: toggleResultModal, whatever the modal showed.
Failed(l) ==
    /\ lane[l] = "failed" /\ modal' = ~modal /\ Step(l, "finally")
    /\ UNCHANGED <<userVars, refs, nfcEnabled, processing, paid, reader, fallback, begun>>

Finally(l) ==
    /\ lane[l] = "finally" /\ processing' = FALSE
    /\ IF android
       THEN /\ Step(l, IF paymentLocked THEN "none" ELSE "rearm") /\ UNCHANGED <<reader, readerActive>>
       ELSE /\ lane' = [Cancelled(lane) EXCEPT ![l] = "none"]
            /\ reader' = "none" /\ readerActive' = FALSE
    /\ UNCHANGED <<userVars, keepScanning, paymentLocked, nfcEnabled, paid, modal, fallback, begun>>

-----------------------------------------------------------------------------
(* rearmReader.                                                            *)

Rearm(l) ==
    /\ lane[l] = "rearm"
    /\ IF android /\ keepScanning
       THEN lane' = [Cancelled(lane) EXCEPT ![l] = "cancelled"] /\ reader' = "none"
       ELSE Step(l, "none") /\ UNCHANGED reader
    /\ UNCHANGED <<userVars, refs, shownState, fallback, begun>>

RearmPause(l) ==
    /\ lane[l] = "cancelled" /\ readerActive' = FALSE /\ Step(l, "pause")
    /\ UNCHANGED <<userVars, keepScanning, paymentLocked, shownState, reader, fallback, begun>>

\* 300 ms later.
RearmStart(l) ==
    /\ lane[l] = "pause" /\ ~Resolving
    /\ IF keepScanning /\ ~paymentLocked THEN Request(l, "reading")
       ELSE Step(l, "none") /\ UNCHANGED reader
    /\ UNCHANGED <<userVars, refs, shownState, fallback, begun>>

-----------------------------------------------------------------------------
(* The user and the timer.                                                 *)

\* Mutant: the result is dismissed and the lock released, the reader left as it was.
DismissOnly ==
    /\ screenAt = "shown" /\ modal /\ HasLane /\ ~Resolving
    /\ dismissed < MaxDismissals
    /\ dismissed' = dismissed + 1
    /\ modal' = FALSE /\ paid' = FALSE /\ processing' = FALSE /\ paymentLocked' = FALSE
    /\ UNCHANGED <<android, screenAt, visits, keepScanning, readerActive, nfcEnabled, reader, lane,
                   fallback, begun>>

\* dismissResultModal: resetState and rearmReader, whatever flow is still running.
Dismiss ==
    /\ screenAt = "shown" /\ modal /\ HasLane /\ ~Resolving
    /\ dismissed < MaxDismissals
    /\ dismissed' = dismissed + 1
    /\ modal' = FALSE /\ paid' = FALSE /\ processing' = FALSE /\ paymentLocked' = FALSE
    /\ Step(FreeLane, "rearm")
    /\ UNCHANGED <<android, screenAt, visits, keepScanning, readerActive, nfcEnabled, reader,
                   fallback, begun>>

Hide ==
    /\ screenAt = "shown" /\ ~modal /\ ~processing /\ ~paid /\ ~Resolving /\ visits < MaxVisits
    /\ screenAt' = "hidden" /\ visits' = visits + 1
    /\ UNCHANGED <<android, dismissed, refs, shownState, reader, lane, fallback, begun>>

\* The focus listener.
Focus ==
    /\ ~Resolving /\ screenAt = "hidden" /\ screenAt' = "shown"
    /\ IF nfcEnabled /\ ~processing /\ ~paymentLocked
       THEN HasLane /\ keepScanning' = TRUE /\ Request(FreeLane, "reading")
       ELSE UNCHANGED <<keepScanning, lane, reader>>
    /\ UNCHANGED <<android, dismissed, visits, paymentLocked, readerActive, shownState, fallback,
                   begun>>

\* The effect's cleanup; the flows go on.
LeaveScreen ==
    /\ ~Resolving /\ screenAt = "shown" /\ screenAt' = "gone"
    /\ keepScanning' = FALSE /\ readerActive' = FALSE
    /\ lane' = Cancelled(lane) /\ reader' = "none" /\ fallback' = FALSE
    /\ UNCHANGED <<android, dismissed, visits, paymentLocked, shownState, begun>>

\* checkFallback, or the sync's result: a modal over whatever is going on.
ShowPending ==
    /\ fallback /\ fallback' = FALSE /\ modal' \in {modal, TRUE}
    /\ UNCHANGED <<userVars, refs, nfcEnabled, processing, paid, reader, lane, begun>>

NfcStep(l) ==
    \/ LockOn(l) \/ TapAgain(l) \/ Tapped(l) \/ Failed(l) \/ Finally(l)
    \/ Rearm(l) \/ RearmPause(l) \/ RearmStart(l)

NfcNext ==
    \/ \E l \in Lane : NfcStep(l)
    \/ \E l \in Lane : TagFound(l) \/ PayElsewhere(l) \/ MakeToken(l) \/ Write(l) \/ PayFails(l)
    \/ \E l \in Lane : LaunchFails(l)
    \/ Dismiss \/ Hide \/ Focus \/ LeaveScreen \/ ShowPending

\* The code's own steps, its timer of 300 ms and the cancel calls happen.
NfcFair == \A l \in Lane : WF_nfcVars(NfcStep(l))

NfcSpec == NfcInit /\ [][NfcNext]_nfcVars /\ NfcFair

-----------------------------------------------------------------------------
(* A terminal goes on presenting its request after it was paid.  However   *)
(* failed reads, refused requests, delayed arming, returns from the scan   *)
(* screen and the payment interleave, the screen begins another payment    *)
(* only after the user dismissed a result.                                 *)
PaymentNeedsConsent == begun <= 1 + dismissed

(* On Android the screen takes the next tap itself: while it means to scan *)
(* and holds no payment, a request is opened again, whoever cancelled the  *)
(* last one.                                                               *)
ReaderComesBack ==
    android /\ screenAt = "shown" /\ keepScanning /\ ~paymentLocked
        ~> reader # "none" \/ paymentLocked \/ screenAt # "shown"

=============================================================================
