----------------------------- MODULE CoinSelection -----------------------------
(***************************************************************************)
(* Choosing the proofs that a send or a melt is paid from.                 *)
(*                                                                         *)
(* A mint charges for every proof it is given, so that more proofs cost    *)
(* more, and covering that may take more proofs again: the selection goes  *)
(* on until the proofs cover their own fee.  Proofs of inactive keysets go *)
(* first.  Elsewhere a selection costs nothing: SendLifecycle and          *)
(* TransferLifecycle have what is done with it.                            *)
(***************************************************************************)
EXTENDS Integers, Sequences, FiniteSets, FiniteSetsExt

CONSTANTS
    Wallets,        \* the proofs a mint may have issued, each by growing worth
    FeeRates,       \* what a keyset charges for 1000 proofs
    Targets,        \* amounts to send, or to melt with the reserve for the network's fee
    MaxIterations   \* of the loop: 32 in the code

\* A proof that costs more than a unit may be worth less than nothing.
ASSUME CoinAssumptions ==
    /\ \A w \in Wallets : /\ w \in Seq(Nat \ {0})
                          /\ \A i, j \in DOMAIN w : i < j => w[i] <= w[j]
    /\ FeeRates \subseteq 0..1000
    /\ Targets \subseteq Nat \ {0}
    /\ MaxIterations \in Nat

VARIABLES
    purse,      \* the proofs, which of them are of an inactive keyset, both fees, the amount,
                \* and whether an exact choice is handed out as it is: in a send to nobody's key
    search      \* where the selection stands, with the pool, what is chosen, and the rounds

coinVars == <<purse, search>>

Coins == DOMAIN purse.worth
Young == Coins \ purse.old

\* getProofsAmount
AmountOf(S) == MapThenSumSet(LAMBDA c : purse.worth[c], S)

\* getFeesForProofs: a mint rounds up over all the proofs it is given.
FeeOf(S) ==
    (Cardinality(S \cap purse.old) * purse.oldFee + Cardinality(S \ purse.old) * purse.newFee + 999)
        \div 1000

-----------------------------------------------------------------------------
(* One selection.                                                          *)

\* findExactMatch goes from the largest proof down and back: of the exact selections it finds
\* the one that has the largest proof in which it differs from another.
ExactMatches(x, pool) == {S \in SUBSET pool : AmountOf(S) = x}
FirstFound(found) ==
    CHOOSE S \in found : \A T \in found :
        \A c \in T \ S : \E d \in S \ T : d > c

\* findMinExcess, from the smallest proof up.
MinExcess(x, pool) == {c \in pool : AmountOf({d \in pool : d < c}) < x}

\* getProofsToSend, for an amount the pool has.
ToSend(x, pool) ==
    IF ExactMatches(x, pool) # {} THEN FirstFound(ExactMatches(x, pool)) ELSE MinExcess(x, pool)

\* The first choice of a send, for which no fee is due if it is exact.
Candidates ==
    LET oldAmount == AmountOf(purse.old)
    IN  CASE purse.old = {} -> ToSend(purse.target, Coins)
          [] purse.old # {} /\ oldAmount >= purse.target -> ToSend(purse.target, purse.old)
          [] OTHER -> ToSend(purse.target,
                             purse.old \cup MinExcess(purse.target - oldAmount, Young))

-----------------------------------------------------------------------------
(* Until it covers its fee.                                                *)

CoinInit ==
    /\ \E w \in Wallets, oldFee, newFee \in FeeRates, target \in Targets :
           \E old \in SUBSET DOMAIN w, asItIs \in BOOLEAN :
               purse = [worth |-> w, old |-> old, oldFee |-> oldFee, newFee |-> newFee,
                        target |-> target, asItIs |-> asItIs]
    /\ search = [at |-> "asked", pool |-> {}, chosen |-> {}, rounds |-> 0]

Refused == search' = [search EXCEPT !.at = "refused"]
Taken(S) == search' = [search EXCEPT !.at = "taken", !.chosen = S]
SearchIn(pool) ==
    search' = [at |-> "pool", pool |-> pool, chosen |-> ToSend(purse.target, pool), rounds |-> 0]

\* All that is old, and more of the rest as the fee asks for it.
Drain == search' = [at |-> "drain", pool |-> Young, chosen |-> purse.old, rounds |-> 0]

\* A melt, a send to a key, and a send without an exact choice pay fees.
PaysNoFee == purse.asItIs /\ AmountOf(Candidates) = purse.target

\* prepare
Ask ==
    /\ search.at = "asked"
    /\ CASE AmountOf(Coins) < purse.target -> Refused
         [] AmountOf(Coins) >= purse.target /\ PaysNoFee -> Taken(Candidates)
         [] OTHER -> IF purse.old = {} THEN SearchIn(Coins)
                     ELSE IF AmountOf(purse.old) >= purse.target THEN SearchIn(purse.old) ELSE Drain
    /\ UNCHANGED purse

AmountWithFees == purse.target + FeeOf(search.chosen)

\* Mutant: the fee is computed once more and not again.
CoveredOnce == AmountOf(search.chosen) >= AmountWithFees \/ search.rounds = 1

Covered == AmountOf(search.chosen) >= AmountWithFees

\* All there is has to cover it; when the rounds are used up nothing more is tried.
CanGrow(available) == search.rounds < MaxIterations /\ AmountOf(available) >= AmountWithFees

Grown(S) == search' = [search EXCEPT !.chosen = S, !.rounds = @ + 1]

\* selectFromPoolWithFeeReserve.  Without success among the old ones, they are drained.
FromPool ==
    /\ search.at = "pool"
    /\ IF Covered THEN Taken(search.chosen)
       ELSE IF CanGrow(search.pool) THEN Grown(ToSend(AmountWithFees, search.pool))
       ELSE IF purse.old = {} THEN Refused ELSE Drain
    /\ UNCHANGED purse

\* selectProofsToSendWithFeeReserve
TopUp ==
    /\ search.at = "drain"
    /\ IF Covered THEN Taken(search.chosen)
       ELSE IF CanGrow(Coins)
            THEN Grown(purse.old \cup ToSend(AmountWithFees - AmountOf(purse.old), search.pool))
       ELSE Refused
    /\ UNCHANGED purse

CoinNext == Ask \/ FromPool \/ TopUp

CoinSpec == CoinInit /\ [][CoinNext]_coinVars

-----------------------------------------------------------------------------
(* Properties.                                                             *)

\* selectProofsToSendWithFeeReserve: "iterates to a fixed point so the returned set always
\* satisfies" what the mint asks of it; and "not enough funds" is true: a selection that is refused
\* cannot be paid with any of the proofs, unless its rounds were used up.
FundsSuffice ==
    /\ search.at = "taken" =>
        AmountOf(search.chosen) >= purse.target + (IF PaysNoFee THEN 0 ELSE FeeOf(search.chosen))
    /\ search.at = "refused" =>
        \/ search.rounds = MaxIterations
        \/ \A S \in SUBSET Coins : AmountOf(S) < purse.target + FeeOf(S)
=================================================================================
