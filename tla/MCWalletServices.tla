--------------------------- MODULE MCWalletServices ---------------------------
(***************************************************************************)
(* The services around the payments, checked in one run: a behaviour takes *)
(* one of them, "focus", and the others rest in their first state.         *)
(***************************************************************************)
EXTENDS IncomingLifecycle, NostrIntake, TaskCalls, MintBook, NfcPay, PayScreen, WalletSeed, TLC

CONSTANTS
    tok, off, req, lnq, btcq,
    receive1, offline1, request1, topup1, rescue1, deposit1, deposit2,
    pay1, pay2, pay3, ask1, note1, note2, note3

VARIABLE focus

MCSource == {tok, off, req, lnq, btcq}
MCMaxPaid == [s \in MCSource |-> IF s = btcq THEN 2 ELSE 1]
MCInTx == {receive1, offline1, request1, topup1, rescue1, deposit1, deposit2}
MCInKind ==
    receive1 :> "receive" @@ offline1 :> "offline" @@ request1 :> "request" @@ topup1 :> "topup"
    @@ rescue1 :> "recover" @@ deposit1 :> "deposit" @@ deposit2 :> "deposit"
MCOrigin ==
    receive1 :> tok @@ offline1 :> off @@ request1 :> req @@ topup1 :> lnq @@ rescue1 :> lnq
    @@ deposit1 :> btcq @@ deposit2 :> btcq
MCSessions ==
    {[txs |-> {}, faults |-> 0], [txs |-> {topup1, rescue1}, faults |-> 0]}
      \cup {[txs |-> {t}, faults |-> 1] : t \in {receive1, offline1, request1, topup1, deposit1}}

MCEvent == {pay1, pay2, pay3, ask1, note1, note2, note3}
MCEventKind ==
    pay1 :> "pay" @@ pay2 :> "pay" @@ pay3 :> "pay" @@ ask1 :> "query"
    @@ note1 :> "message" @@ note2 :> "message" @@ note3 :> "message"
MCBill ==
    pay1 :> <<2, 1>> @@ pay2 :> <<1>> @@ pay3 :> <<2>> @@ ask1 :> <<>> @@ note1 :> <<>>
    @@ note2 :> <<>> @@ note3 :> <<>>
MCScenarios ==
    {[events |-> {}, days |-> 0, faults |-> 0], [events |-> {pay1}, days |-> 1, faults |-> 0],
     [events |-> {pay2, pay3}, days |-> 0, faults |-> 0],
     [events |-> {pay2, note1}, days |-> 0, faults |-> 1],
     [events |-> {ask1}, days |-> 0, faults |-> 1],
     [events |-> {note1, note2, note3}, days |-> 0, faults |-> 0]}

MCBudgets ==
    {[refreshes |-> 1, moves |-> 0, faults |-> 0], [refreshes |-> 0, moves |-> 1, faults |-> 0],
     [refreshes |-> 0, moves |-> 0, faults |-> 1]}

MCPayCases ==
    {[scanned |-> TRUE, quotes |-> 2, slips |-> 0], [scanned |-> TRUE, quotes |-> 1, slips |-> 1],
     [scanned |-> FALSE, quotes |-> 1, slips |-> 0]}

\* A new phone, two before an upgrade, one in use; each with what may happen to it.
MCNewPhone == [keychain |-> "none", schema |-> "none", row |-> 0, mint |-> FALSE,
               version |-> RootVersion, onboarded |-> FALSE, held |-> 0, holder |-> "none"]
MCOldMint == [keychain |-> "s1", schema |-> "old", row |-> 0, mint |-> FALSE,
              version |-> 32, onboarded |-> TRUE, held |-> 3, holder |-> "mint"]
MCOldBackup == [MCOldMint EXCEPT !.version = 35, !.holder = "backup"]
MCInUse == [keychain |-> "s1", schema |-> "built", row |-> 3, mint |-> TRUE,
            version |-> RootVersion, onboarded |-> TRUE, held |-> 0, holder |-> "none"]
MCWith(phone, kills, wipes, faults, rounds, draws) ==
    [known |-> {"s1"}, signed |-> {0, 2}, kills |-> kills, wipes |-> wipes, faults |-> faults,
     rounds |-> rounds, draws |-> draws] @@ phone
MCPhones ==
    {MCWith(MCNewPhone, 0, 0, 0, 2, 2), MCWith(MCOldMint, 1, 0, 0, 0, 2),
     MCWith(MCOldMint, 0, 0, 1, 0, 2), MCWith(MCOldBackup, 1, 0, 0, 0, 2),
     MCWith(MCInUse, 1, 1, 0, 0, 1), MCWith(MCInUse, 0, 1, 0, 2, 1),
     MCWith(MCInUse, 0, 0, 1, 0, 2), MCWith(MCInUse, 1, 0, 0, 0, 2)}

MCCall == {"send1", "send2", "sync1"}
MCFunction == "send1" :> "send" @@ "send2" :> "send" @@ "sync1" :> "sync"
MCLoopName == "loop1" :> "quote" @@ "loop2" :> "quote"

Init ==
    /\ focus \in {"incoming", "nostr", "calls", "mints", "nfc", "pay", "seed"}
    /\ IncomingInit /\ (focus # "incoming" => session.txs = {})
    /\ NostrInit /\ (focus # "nostr" => scenario.events = {})
    /\ CallsInit /\ MintInit /\ (focus # "mints" => budget.refreshes = 1)
    /\ NfcInit /\ (focus # "nfc" => android /\ nfcEnabled)
    /\ PayInit /\ (focus # "pay" => ~left.scanned)
    /\ SeedInit /\ (focus # "seed" => keychain = NoSeed)

IncomingRests == UNCHANGED incomingVars
NostrRests == UNCHANGED nostrVars
CallsRest == UNCHANGED callVars
MintsRest == UNCHANGED mintVars
NfcRests == UNCHANGED nfcVars
PayRests == UNCHANGED payVars
SeedRests == UNCHANGED seedVars

Next ==
    /\ UNCHANGED focus
    /\ \/ /\ focus = "incoming" /\ IncomingNext
          /\ NostrRests /\ CallsRest /\ MintsRest /\ NfcRests /\ PayRests /\ SeedRests
       \/ /\ focus = "nostr" /\ NostrNext
          /\ IncomingRests /\ CallsRest /\ MintsRest /\ NfcRests /\ PayRests /\ SeedRests
       \/ /\ focus = "calls" /\ CallsNext
          /\ IncomingRests /\ NostrRests /\ MintsRest /\ NfcRests /\ PayRests /\ SeedRests
       \/ /\ focus = "mints" /\ MintNext
          /\ IncomingRests /\ NostrRests /\ CallsRest /\ NfcRests /\ PayRests /\ SeedRests
       \/ /\ focus = "nfc" /\ NfcNext
          /\ IncomingRests /\ NostrRests /\ CallsRest /\ MintsRest /\ PayRests /\ SeedRests
       \/ /\ focus = "pay" /\ PayNext
          /\ IncomingRests /\ NostrRests /\ CallsRest /\ MintsRest /\ NfcRests /\ SeedRests
       \/ /\ focus = "seed" /\ SeedNext
          /\ IncomingRests /\ NostrRests /\ CallsRest /\ MintsRest /\ NfcRests /\ PayRests

vars == <<focus, incomingVars, nostrVars, callVars, mintVars, nfcVars, payVars,
          seedVars>>

In(which, step) == focus = which /\ step

\* The fairness of each service, for the behaviours that take it.
Fair ==
    /\ WF_incomingVars(In("incoming", TaskStart)) /\ WF_incomingVars(In("incoming", QueueStep))
    /\ WF_incomingVars(In("incoming", ScreenStep))
    /\ \A l \in Lanes : WF_incomingVars(In("incoming", MintServes(l)))
    /\ \A t \in Topups : /\ WF_incomingVars(In("incoming", PollerEnds(t)))
                         /\ WF_incomingVars(In("incoming", SweepPending(t)))
                         /\ SF_incomingVars(In("incoming", StartRefresh(t)))
    /\ \A s \in OnchainQuotes : /\ WF_incomingVars(In("incoming", SweepQuotes(s)))
                               /\ SF_incomingVars(In("incoming", StartCheck(s)))
    /\ WF_nostrVars(In("nostr", CommandStep)) /\ WF_nostrVars(In("nostr", Backstop))
    /\ \A c \in Awaited : WF_callVars(In("calls", CallTimesOut(c)))
    /\ \A l \in Loop : WF_callVars(In("calls", TurnLoop(l)))
    /\ \A l \in Lane : WF_nfcVars(In("nfc", NfcStep(l)))

Spec == Init /\ [][Next]_vars /\ Fair
===============================================================================
