------------------------------- MODULE MintBook -------------------------------
(***************************************************************************)
(* The wallet's book of mints: MintsStore and Mint in memory, the mints,   *)
(* mint_keysets and mint_counters tables, and the seed wallets WalletStore *)
(* caches.  Screens and the receive task call addMint, updateMint,         *)
(* setMintUrl and removeMint; each call to the mint inside them lets the   *)
(* others run.                                                             *)
(*                                                                         *)
(* The urls are addresses of one mint, which serves one keyset at first    *)
(* and all of them after a rotation.  A draw stands for one answered call  *)
(* that derives outputs; what an interrupted call does to the indices is   *)
(* SendLifecycle's and IncomingLifecycle's.                                *)
(***************************************************************************)
EXTENDS Integers, Sequences, FiniteSets, SequencesExt, FiniteSetsExt

CONSTANTS
    Url,            \* addresses of the mint
    Keyset,         \* its keysets
    FirstKeyset,    \* the one it serves before the rotation
    MaxMints,       \* Mint instances made
    MaxDraws,       \* indices of a keyset
    Budgets         \* bounds of refreshes, of changes of url, of crashes and dropped writes

ASSUME MintBookAssumptions ==
    /\ FirstKeyset \in Keyset
    /\ {"none", "gone"} \cap Url = {}
    /\ {MaxMints, MaxDraws} \subseteq Nat
    /\ \A b \in Budgets : {b.refreshes, b.moves, b.faults} \subseteq Nat

VARIABLES
    served,         \* keysets the mint serves
    mintList,       \* MintsStore.mints
    urlOf,          \* instance -> its url, "none" when it was not made
    held,           \* instance -> its keysets
    counter,        \* instance -> keyset -> counter in memory
    observed,       \* instances with an observer
    adding,         \* instance -> its addMint, under way or not
    refreshing,     \* the update or sync of keysets under way
    budget,         \* what is left of refreshes, moves and faults
    mintRow,        \* instance -> url of its row
    owner,          \* keyset -> instance its row names, 0 when there is no row
    counterRow,     \* keyset -> counter in SQLite
    seedCounter,    \* url -> keyset -> counter of the cached seed wallet
    signed,         \* keyset -> indices the mint signed
    reused,         \* keysets of which an index was derived again
    unsure,         \* keysets two mints shared, or whose counter was made late
    behind          \* instances whose last write was dropped

mintVars == <<served, mintList, urlOf, held, counter, observed, adding, refreshing, budget,
              mintRow, owner, counterRow, seedCounter, signed, reused, unsure, behind>>

diskVars == <<mintRow, owner, behind>>
ghostVars == <<signed, reused, unsure>>

Instance == 1..MaxMints
NotAdding == [step |-> "none", got |-> {}]
NotRefreshing == [step |-> "none", inst |-> 0, url |-> "none", got |-> {}]

MintInit ==
    /\ served = {FirstKeyset} /\ mintList = <<>>
    /\ urlOf = [i \in Instance |-> "none"] /\ held = [i \in Instance |-> {}]
    /\ counter = [i \in Instance |-> [k \in Keyset |-> 0]]
    /\ observed = {} /\ adding = [i \in Instance |-> NotAdding]
    /\ refreshing = NotRefreshing /\ budget \in Budgets
    /\ mintRow = [i \in Instance |-> "none"] /\ owner = [k \in Keyset |-> 0]
    /\ counterRow = [k \in Keyset |-> 0]
    /\ seedCounter = [u \in Url |-> [k \in Keyset |-> 0]]
    /\ signed = [k \in Keyset |-> {}] /\ reused = {} /\ unsure = {}
    /\ behind = {}

Live == ToSet(mintList)
AllKeysetIds == UNION {held[i] : i \in Live}
MintExists(u) == \E i \in Live : urlOf[i] = u

\* findByUrl: the first of the list.
FindByUrl(u) == mintList[Min({n \in DOMAIN mintList : urlOf[mintList[n]] = u})]

\* hydrateCounters: the Map keeps the last counter of a keyset; counters only rise.
Hydrated(list, sets, counters) ==
    LET holders(k) == {n \in DOMAIN list : k \in sets[list[n]]}
    IN [i \in Instance |-> [k \in Keyset |->
            IF holders(k) # {} /\ list[Max(holders(k))] = i
            THEN Max({counters[i][k], counterRow[k]}) ELSE counters[i][k]]]

\* persistMint: the row of the mint and of each of its keysets, or a logged error.
Persist(rows, i, u, sets, left) ==
    \/ /\ mintRow' = [rows EXCEPT ![i] = u]
       /\ owner' = [k \in Keyset |-> IF k \in sets THEN i ELSE owner[k]]
       /\ behind' = behind \ {i} /\ budget' = left
    \/ /\ left.faults > 0 /\ budget' = [left EXCEPT !.faults = @ - 1]
       /\ mintRow' = rows /\ behind' = behind \cup {i} /\ UNCHANGED owner

-----------------------------------------------------------------------------
(* addMint.                                                                *)

AddStart(u) ==
    /\ ~MintExists(u)
    /\ \E i \in Instance :
        /\ urlOf[i] = "none" /\ \A j \in 1..(i - 1) : urlOf[j] # "none"
        /\ urlOf' = [urlOf EXCEPT ![i] = u]
        /\ adding' = [adding EXCEPT ![i] = [step |-> "keysets", got |-> {}]]
    /\ UNCHANGED <<served, mintList, held, counter, observed, refreshing, diskVars,
                   counterRow, seedCounter, ghostVars, budget>>

AddKeysets(i) ==
    /\ adding[i].step = "keysets"
    /\ adding' = [adding EXCEPT ![i] = [step |-> "keys", got |-> served]]
    /\ UNCHANGED <<served, mintList, urlOf, held, counter, observed, refreshing, diskVars,
                   counterRow, seedCounter, ghostVars, budget>>

\* initKeyset throws on an id another mint of the list holds.
AddKeys(i) ==
    /\ adding[i].step = "keys"
    /\ IF adding[i].got \cap AllKeysetIds = {}
       THEN /\ held' = [held EXCEPT ![i] = adding[i].got]
            /\ adding' = [adding EXCEPT ![i].step = "shortname"]
       ELSE adding' = [adding EXCEPT ![i] = NotAdding] /\ UNCHANGED held
    /\ UNCHANGED <<served, mintList, urlOf, counter, observed, refreshing, diskVars,
                   counterRow, seedCounter, ghostVars, budget>>

\* Mutant: the counters of a mint added again are not read back.
AddPushUnhydrated(i) ==
    /\ adding[i].step = "shortname"
    /\ adding' = [adding EXCEPT ![i] = NotAdding]
    /\ mintList' = Append(mintList, i) /\ observed' = observed \cup {i}
    /\ Persist(mintRow, i, urlOf[i], held[i], budget)
    /\ unsure' = unsure \cup (held[i] \cap AllKeysetIds)
    /\ UNCHANGED <<served, urlOf, held, counter, refreshing, counterRow, seedCounter,
                   signed, reused>>

\* Nothing is checked again after setShortname.
AddPush(i) ==
    /\ adding[i].step = "shortname"
    /\ adding' = [adding EXCEPT ![i] = NotAdding]
    /\ mintList' = Append(mintList, i) /\ observed' = observed \cup {i}
    /\ Persist(mintRow, i, urlOf[i], held[i], budget)
    /\ counter' = Hydrated(mintList', held, counter)
    /\ unsure' = unsure \cup (held[i] \cap AllKeysetIds)
    /\ UNCHANGED <<served, urlOf, held, refreshing, counterRow, seedCounter, signed, reused>>

-----------------------------------------------------------------------------
(* updateMint holds its mint from the start; syncKeysets finds it after    *)
(* the keysets came.                                                       *)

RefreshStart(u) ==
    /\ refreshing.step = "none" /\ budget.refreshes > 0 /\ MintExists(u)
    /\ budget' = [budget EXCEPT !.refreshes = @ - 1]
    /\ \E inst \in {0, FindByUrl(u)} :
        refreshing' = [step |-> "keysets", inst |-> inst, url |-> u, got |-> {}]
    /\ UNCHANGED <<served, mintList, urlOf, held, counter, observed, adding, diskVars, counterRow,
                   seedCounter, ghostVars>>

RefreshKeysets ==
    /\ refreshing.step = "keysets"
    /\ refreshing' =
        IF refreshing.inst # 0
        THEN [refreshing EXCEPT !.step = "update", !.got = served]
        ELSE IF MintExists(refreshing.url)
        THEN [refreshing EXCEPT !.step = "sync", !.inst = FindByUrl(refreshing.url), !.got = served]
        ELSE NotRefreshing
    /\ UNCHANGED <<served, mintList, urlOf, held, counter, observed, adding, diskVars,
                   counterRow, seedCounter, ghostVars, budget>>

\* initKeyset of each keyset: a collision throws with those before it added.  The counter of
\* a new keyset is made at 0.  updateMint does not ask whether its mint is still there.
RefreshKeys ==
    LET i == refreshing.inst
        fresh == refreshing.got \ held[i]
        colliding == fresh \cap AllKeysetIds
        asked == refreshing.step = "update" \/ i \in Live
    IN /\ refreshing.step \in {"update", "sync"}
       /\ refreshing' = NotRefreshing
       /\ \E added \in SUBSET (fresh \ colliding) :
            /\ ~asked => added = {}
            /\ asked /\ colliding = {} => added = fresh
            /\ held' = [held EXCEPT ![i] = @ \cup added]
            /\ unsure' = unsure \cup {k \in added : counter[i][k] < counterRow[k]}
            /\ IF added # {} /\ i \in observed THEN Persist(mintRow, i, urlOf[i], held'[i], budget)
               ELSE UNCHANGED <<diskVars, budget>>
       /\ UNCHANGED <<served, mintList, urlOf, counter, observed, adding, counterRow,
                      seedCounter, signed, reused>>

-----------------------------------------------------------------------------

\* One batch for the row, then the memory; the observer writes the same.
SetMintUrl(i, u) ==
    /\ i \in Live /\ u # urlOf[i] /\ ~MintExists(u) /\ budget.moves > 0
    /\ urlOf' = [urlOf EXCEPT ![i] = u]
    /\ Persist([j \in Instance |-> IF j = i /\ mintRow[i] # "none" THEN u ELSE mintRow[j]],
               i, u, held[i], [budget EXCEPT !.moves = @ - 1])
    /\ UNCHANGED <<served, mintList, held, counter, observed, adding, refreshing,
                   counterRow, seedCounter, ghostVars>>

\* detach: the instance leaves the array.
TakeOut(i) == \E n \in DOMAIN mintList : mintList[n] = i /\ mintList' = RemoveAt(mintList, n)

\* Mutant: the observer of a removed mint stays.
RemoveMintObserved(i) ==
    /\ i \in Live
    /\ mintRow' = [mintRow EXCEPT ![i] = "none"]
    /\ owner' = [k \in Keyset |-> IF owner[k] = i THEN 0 ELSE owner[k]]
    /\ behind' = behind \ {i} /\ TakeOut(i)
    /\ UNCHANGED <<served, urlOf, held, counter, observed, adding, refreshing, counterRow,
                   seedCounter, ghostVars, budget>>

\* removeMint: the observer goes first; the counters stay.
RemoveMint(i) ==
    /\ i \in Live
    /\ observed' = observed \ {i}
    /\ mintRow' = [mintRow EXCEPT ![i] = "none"]
    /\ owner' = [k \in Keyset |-> IF owner[k] = i THEN 0 ELSE owner[k]]
    /\ behind' = behind \ {i} /\ TakeOut(i)
    /\ UNCHANGED <<served, urlOf, held, counter, adding, refreshing, counterRow,
                   seedCounter, ghostVars, budget>>

\* A call that derives outputs: the seed wallet of the url goes on from the higher counter.
Draw(u, k) ==
    LET i == FindByUrl(u)
        start == Max({seedCounter[u][k], counter[i][k]})
    IN /\ MintExists(u) /\ k \in held[i] /\ start < MaxDraws
       /\ seedCounter' = [seedCounter EXCEPT ![u][k] = start + 1]
       /\ counter' = [counter EXCEPT ![i][k] = start + 1]
       /\ counterRow' = [counterRow EXCEPT ![k] = Max({@, start + 1})]
       /\ reused' = IF start \in signed[k] THEN reused \cup {k} ELSE reused
       /\ signed' = [signed EXCEPT ![k] = @ \cup {start}]
       /\ UNCHANGED <<served, mintList, urlOf, held, observed, adding, refreshing,
                      diskVars, unsure, budget>>

\* WalletScreen in the foreground again.
HydrateCounters ==
    /\ counter' = Hydrated(mintList, held, counter) /\ counter' # counter
    /\ UNCHANGED <<served, mintList, urlOf, held, observed, adding, refreshing, diskVars,
                   counterRow, seedCounter, ghostVars, budget>>

\* getMints: the rows, in the order the mints were made in.
Oldest(rows) ==
    {list \in [1 .. Cardinality(rows) -> rows] :
        ToSet(list) = rows /\ \A m, n \in DOMAIN list : m < n => list[m] < list[n]}

\* hydrateMints and hydrateCounters of the next start.
Relaunch ==
    LET rows == {i \in Instance : mintRow[i] # "none"}
        sets == [i \in Instance |-> {k \in Keyset : owner[k] = i}]
    IN /\ budget.faults > 0 /\ budget' = [budget EXCEPT !.faults = @ - 1]
       /\ mintList' \in Oldest(rows) /\ held' = sets /\ observed' = rows /\ behind' = {}
       /\ urlOf' = [i \in Instance |-> IF i \in rows THEN mintRow[i]
                                       ELSE IF urlOf[i] = "none" THEN "none" ELSE "gone"]
       /\ counter' = Hydrated(mintList', sets, [i \in Instance |-> [k \in Keyset |-> 0]])
       /\ seedCounter' = [u \in Url |-> [k \in Keyset |-> 0]]
       /\ adding' = [i \in Instance |-> NotAdding] /\ refreshing' = NotRefreshing
       /\ UNCHANGED <<served, mintRow, owner, counterRow, ghostVars>>

\* The mint makes its other keysets and serves them all.
Rotate ==
    /\ served # Keyset /\ served' = Keyset
    /\ UNCHANGED <<mintList, urlOf, held, counter, observed, adding, refreshing, diskVars,
                   counterRow, seedCounter, ghostVars, budget>>

MintNext ==
    \/ \E u \in Url : AddStart(u) \/ RefreshStart(u)
    \/ \E i \in Instance : AddKeysets(i) \/ AddKeys(i) \/ AddPush(i) \/ RemoveMint(i)
    \/ \E i \in Instance, u \in Url : SetMintUrl(i, u)
    \/ \E u \in Url, k \in Keyset : Draw(u, k)
    \/ RefreshKeysets \/ RefreshKeys \/ HydrateCounters \/ Relaunch \/ Rotate

MintSpec == MintInit /\ [][MintNext]_mintVars

-----------------------------------------------------------------------------
(* NUT-13: an index of a keyset derived twice gives the mint outputs it    *)
(* has signed.  Removing a mint, adding it again, perhaps elsewhere, a new *)
(* url, a new keyset and a restart keep the counter of every keyset that   *)
(* no two mints of the list ever shared and that was not met anew, at 0,   *)
(* by a refresh.                                                           *)
OutputsFresh == reused \subseteq unsure

(* The tables follow the list: a mint whose last write was not dropped has *)
(* its url and keysets in its rows, and a mint removed or never added has  *)
(* none, whatever flow still held it.                                      *)
BookIsOnDisk ==
    \A i \in Instance :
        /\ i \in Live \ behind =>
            mintRow[i] = urlOf[i] /\ \A k \in held[i] \ unsure : owner[k] = i
        /\ i \notin Live => mintRow[i] = "none" /\ \A k \in Keyset : owner[k] # i

=============================================================================
