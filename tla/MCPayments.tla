------------------------------ MODULE MCPayments ------------------------------
(***************************************************************************)
(* The melts, the screen that sends tokens, and the choice of proofs,      *)
(* checked in one run: they share nothing, and a behaviour takes one of    *)
(* them, "focus".                                                          *)
(***************************************************************************)
EXTENDS MCTransferLifecycle, SendScreen, CoinSelection

VARIABLE focus

MCCase(opens, fixed, accepts, steady, calls, delivered, others) ==
    [opens |-> opens, fixed |-> fixed, accepts |-> accepts, steady |-> steady, calls |-> calls,
     deliveries |-> delivered, others |-> others]
MCSendCases ==
    {MCCase("plain", FALSE, SendFrom, TRUE, 2, 1, 1),
     MCCase("contact", FALSE, SendFrom, FALSE, 2, 2, 0),
     MCCase("nostr", TRUE, {"here"}, TRUE, 2, 2, 0),
     MCCase("nostr", TRUE, SendFrom, TRUE, 2, 2, 0),
     MCCase("nostr", FALSE, {"here"}, TRUE, 2, 2, 0),
     MCCase("nostr", FALSE, {"here"}, FALSE, 1, 2, 0),
     MCCase("late", TRUE, {"here"}, TRUE, 2, 1, 0),
     MCCase("late", FALSE, {"here"}, TRUE, 2, 1, 0),
     MCCase("post", TRUE, {"here"}, FALSE, 2, 1, 1)}

\* Up to four proofs, and many small ones below two that cover what they cost.
MCGrowing(n) == {w \in [1..n -> {1, 2, 4, 8}] : \A i \in 1..(n - 1) : w[i] <= w[i + 1]}
MCWallets == UNION {MCGrowing(n) : n \in 1..4} \cup {<<1, 1, 1, 1, 8, 16>>}

OnePurse ==
    purse = [worth |-> <<1>>, old |-> {}, oldFee |-> 0, newFee |-> 0, target |-> 1, asItIs |-> TRUE]

PaymentsInit ==
    /\ focus \in {"transfer", "send", "coins"}
    /\ Init
    /\ SendInit /\ (focus # "send" => may.opens = "contact")
    /\ CoinInit /\ (focus # "coins" => OnePurse)

PaymentsNext ==
    /\ UNCHANGED focus
    /\ \/ focus = "transfer" /\ Next /\ UNCHANGED <<sendVars, coinVars>>
       \/ focus = "send" /\ SendNext /\ UNCHANGED <<vars, coinVars>>
       \/ focus = "coins" /\ CoinNext /\ UNCHANGED <<vars, sendVars>>

PaymentsSpec == PaymentsInit /\ [][PaymentsNext]_<<focus, vars, sendVars, coinVars>>
===============================================================================
