------------------------- MODULE WalletServices_proofs -------------------------
(***************************************************************************)
(* What holds of three services around the wallet's ecash.                 *)
(*                                                                         *)
(* The book of mints, for any number of addresses, keysets, mints and      *)
(* derived indices, and whatever refreshes, changes of url, crashes and    *)
(* dropped writes come between: the counter of a keyset is never behind    *)
(* what the mint has signed, and the rows follow the list.                 *)
(*                                                                         *)
(* The seed and its counter, for any seeds, any interval of recovery, any  *)
(* phone the wallet left behind and any number of launches, wakes, kills,  *)
(* reinstalls, resets, rounds of recovery and calls: a wallet that opens   *)
(* has its keys, and no index is derived twice without a cause that        *)
(* `doubts` names.                                                         *)
(*                                                                         *)
(* The Nostr commands, for any events, invoices, fees, limits and ring     *)
(* size: a command runs once while its id is remembered, no day's commands *)
(* spend more than the connection's daily limit, and who is told of an     *)
(* error has an invoice that is not paid and will not be.                  *)
(***************************************************************************)
EXTENDS MintBook, WalletSeed, NostrIntake, FiniteSetTheorems, SequenceTheorems,
        WellFoundedInduction, TLAPS

------------------------------------------------------------------------------
(* The least and the largest of a set of numbers.                          *)

\* A set of natural numbers that is not empty has a least one.
LEMMA LeastIsThere ==
    ASSUME NEW S, S \subseteq Nat, S # {}
    PROVE  Min(S) \in S /\ \A n \in S : Min(S) <= n
<1> PICK less : less = {ss \in Nat \X Nat : ss[1] < ss[2]}
    OBVIOUS
<1>1. IsWellFoundedOn(less, Nat)
    <2>1. OpToRel(<, Nat) = {ss \in Nat \X Nat : ss[1] < ss[2]}
        BY DEF OpToRel
    <2> QED
        BY <2>1, NatLessThanWellFounded
<1>2. PICK x \in S : \A y \in S : ~ (<<y, x>> \in less)
    BY <1>1, WFMin
<1>3. \A y \in S : x <= y
    <2> SUFFICES ASSUME NEW y \in S PROVE x <= y
        OBVIOUS
    <2>1. <<y, x>> \in Nat \X Nat /\ <<y, x>>[1] = y /\ <<y, x>>[2] = x /\ y \in Nat /\ x \in Nat
        OBVIOUS
    <2>2. ~(<<y, x>>[1] < <<y, x>>[2])
        BY <1>2, <2>1
    <2> QED
        BY <2>1, <2>2
<1> QED
    BY <1>3 DEF Min

\* A set of natural numbers up to a bound that is not empty has a largest one.
LEMMA LargestIsThere ==
    ASSUME NEW b \in Nat, NEW S, S \subseteq 0 .. b, S # {}
    PROVE  Max(S) \in S /\ \A n \in S : Max(S) >= n
<1> PICK T : T = {b - n : n \in S}
    OBVIOUS
<1>1. T \subseteq Nat
    <2> SUFFICES ASSUME NEW n \in S PROVE b - n \in Nat
        OBVIOUS
    <2>1. n \in 0 .. b
        OBVIOUS
    <2> QED
        BY <2>1
<1>5. T # {}
    OBVIOUS
<1>2. Min(T) \in T /\ \A n \in T : Min(T) <= n
    BY <1>1, <1>5, LeastIsThere
<1>3. PICK x \in S : Min(T) = b - x
    BY <1>2
<1>4. \A n \in S : x >= n
    <2> SUFFICES ASSUME NEW n \in S PROVE x >= n
        OBVIOUS
    <2>1. b - n \in T /\ x \in Int /\ n \in Int
        OBVIOUS
    <2>2. b - x <= b - n
        BY <1>2, <1>3, <2>1
    <2> QED
        BY <2>1, <2>2
<1> QED
    BY <1>4 DEF Max

\* The larger of two.
LEMMA LargerOfTwo ==
    ASSUME NEW a \in Nat, NEW b \in Nat
    PROVE  /\ Max({a, b}) \in Nat /\ Max({a, b}) \in {a, b}
           /\ Max({a, b}) >= a /\ Max({a, b}) >= b
<1>1. \E x \in {a, b} : \A y \in {a, b} : x >= y
    OBVIOUS
<1> QED
    BY <1>1 DEF Max

------------------------------------------------------------------------------
(* The list of mints.                                                      *)

Once(list) == \A m, n \in DOMAIN list : list[m] = list[n] => m = n

\* A mint is pushed.
LEMMA Pushed ==
    ASSUME NEW list \in Seq(Instance), NEW i \in Instance
    PROVE  /\ Append(list, i) \in Seq(Instance)
           /\ ToSet(Append(list, i)) = ToSet(list) \cup {i}
           /\ Once(list) /\ i \notin ToSet(list) => Once(Append(list, i))
<1> PICK more : more = Append(list, i)
    OBVIOUS
<1>1. /\ more \in Seq(Instance) /\ DOMAIN more = 1 .. Len(list) + 1 /\ Len(list) \in Nat
      /\ more[Len(list) + 1] = i /\ \A n \in 1 .. Len(list) : more[n] = list[n]
      /\ DOMAIN list = 1 .. Len(list)
    OBVIOUS
<1>2. ToSet(more) = ToSet(list) \cup {i}
    <2>1. ASSUME NEW x \in ToSet(more) PROVE x \in ToSet(list) \cup {i}
        <3>1. PICK n \in 1 .. Len(list) + 1 : x = more[n]
            BY <1>1, <2>1 DEF ToSet
        <3>2. n \in 1 .. Len(list) \/ n = Len(list) + 1
            BY <1>1, <3>1
        <3> QED
            BY <1>1, <3>1, <3>2 DEF ToSet
    <2>2. i \in ToSet(more)
        BY <1>1 DEF ToSet
    <2>3. ASSUME NEW x \in ToSet(list) PROVE x \in ToSet(more)
        <3>1. PICK n \in 1 .. Len(list) : x = list[n]
            BY <1>1, <2>3 DEF ToSet
        <3>2. n \in 1 .. Len(list) + 1
            BY <1>1, <3>1
        <3> QED
            BY <1>1, <3>1, <3>2 DEF ToSet
    <2> QED
        BY <2>1, <2>2, <2>3
<1>3. ASSUME Once(list), i \notin ToSet(list) PROVE Once(more)
    <2> SUFFICES ASSUME NEW m \in 1 .. Len(list) + 1, NEW n \in 1 .. Len(list) + 1,
                        more[m] = more[n]
                 PROVE  m = n
        BY <1>1 DEF Once
    <2>1. \A k \in 1 .. Len(list) : list[k] # i
        BY <1>1, <1>3 DEF ToSet
    <2>2. /\ m \in 1 .. Len(list) \/ m = Len(list) + 1
          /\ n \in 1 .. Len(list) \/ n = Len(list) + 1
        BY <1>1
    <2> QED
        BY <1>1, <1>3, <2>1, <2>2 DEF Once
<1> QED
    BY <1>1, <1>2, <1>3

\* A mint is taken out.
LEMMA TakenOut ==
    ASSUME NEW list \in Seq(Instance), Once(list), NEW at \in DOMAIN list
    PROVE  /\ RemoveAt(list, at) \in Seq(Instance)
           /\ ToSet(RemoveAt(list, at)) = ToSet(list) \ {list[at]}
           /\ Once(RemoveAt(list, at))
<1> PICK less : less = RemoveAt(list, at)
    OBVIOUS
<1> PICK b \in Nat : b = Len(list) /\ DOMAIN list = 1 .. b
    OBVIOUS
<1>1. at \in 1 .. b
    OBVIOUS
<1>2. /\ less \in Seq(Instance) /\ Len(less) = b - 1 /\ DOMAIN less = 1 .. b - 1
      /\ \A n \in 1 .. b - 1 : less[n] = list[IF n < at THEN n ELSE n + 1]
    <2>1. /\ SubSeq(list, 1, at - 1) \in Seq(Instance) /\ Len(SubSeq(list, 1, at - 1)) = at - 1
          /\ \A n \in 1 .. at - 1 : SubSeq(list, 1, at - 1)[n] = list[n]
        BY <1>1
    <2>2. /\ SubSeq(list, at + 1, b) \in Seq(Instance) /\ Len(SubSeq(list, at + 1, b)) = b - at
          /\ \A n \in 1 .. b - at : SubSeq(list, at + 1, b)[n] = list[at + n]
        BY <1>1
    <2>3. less = SubSeq(list, 1, at - 1) \o SubSeq(list, at + 1, b)
        BY DEF RemoveAt
    <2>4. less \in Seq(Instance) /\ Len(less) = b - 1 /\ DOMAIN less = 1 .. b - 1
        BY <1>1, <2>1, <2>2, <2>3
    <2>5. ASSUME NEW n \in 1 .. b - 1 PROVE less[n] = list[IF n < at THEN n ELSE n + 1]
        <3>1. CASE n < at
            BY <1>1, <2>1, <2>2, <2>3, <3>1
        <3>2. CASE n >= at
            <4>1. n - (at - 1) \in 1 .. b - at /\ at + (n - (at - 1)) = n + 1
                BY <1>1, <3>2
            <4>2. less[n] = SubSeq(list, at + 1, b)[n - (at - 1)]
                <5> PICK f \in Seq(Instance), g \in Seq(Instance) :
                        f = SubSeq(list, 1, at - 1) /\ g = SubSeq(list, at + 1, b)
                    BY <2>1, <2>2
                <5>1. Len(f) = at - 1 /\ Len(g) = b - at /\ less = f \o g
                    BY <2>1, <2>2, <2>3
                <5>2. n \in 1 .. Len(f) + Len(g) /\ ~(n <= Len(f))
                    BY <1>1, <3>2, <5>1
                <5>3. (f \o g)[n] = IF n <= Len(f) THEN f[n] ELSE g[n - Len(f)]
                    BY <5>2, ConcatProperties, Zenon
                <5>4. less[n] = g[n - Len(f)]
                    BY <5>1, <5>2, <5>3, Zenon
                <5> QED
                    BY <5>1, <5>4
            <4> QED
                BY <1>1, <2>2, <3>2, <4>1, <4>2
        <3> QED
            BY <1>1, <3>1, <3>2
    <2> QED
        BY <2>4, <2>5
<1>3. ToSet(less) = ToSet(list) \ {list[at]}
    <2>1. ASSUME NEW x \in ToSet(less) PROVE x \in ToSet(list) \ {list[at]}
        <3>1. PICK n \in 1 .. b - 1 : x = less[n]
            BY <1>2, <2>1 DEF ToSet
        <3>2. PICK m \in 1 .. b : m # at /\ x = list[m]
            <4>1. (IF n < at THEN n ELSE n + 1) \in 1 .. b
                BY <1>1, <3>1
            <4>2. (IF n < at THEN n ELSE n + 1) # at
                BY <1>1, <3>1
            <4> QED
                BY <1>2, <3>1, <4>1, <4>2
        <3> QED
            BY <1>1, <3>2 DEF ToSet, Once
    <2>2. ASSUME NEW x \in ToSet(list), x # list[at] PROVE x \in ToSet(less)
        <3>1. PICK m \in 1 .. b : x = list[m]
            BY <2>2 DEF ToSet
        <3>2. CASE m < at
            <4>1. m \in 1 .. b - 1
                BY <1>1, <3>2
            <4> QED
                BY <1>2, <3>1, <3>2, <4>1 DEF ToSet
        <3>3. CASE m > at
            <4>1. m - 1 \in 1 .. b - 1 /\ ~(m - 1 < at) /\ (m - 1) + 1 = m
                BY <1>1, <3>3
            <4>2. less[m - 1] = list[m]
                BY <1>2, <4>1
            <4> QED
                BY <1>2, <3>1, <4>1, <4>2 DEF ToSet
        <3> QED
            BY <1>1, <2>2, <3>1, <3>2, <3>3
    <2> QED
        BY <2>1, <2>2
<1>4. Once(less)
    <2> SUFFICES ASSUME NEW m \in 1 .. b - 1, NEW n \in 1 .. b - 1, less[m] = less[n]
                 PROVE  m = n
        BY <1>2 DEF Once
    <2> PICK p, q : p = (IF m < at THEN m ELSE m + 1) /\ q = (IF n < at THEN n ELSE n + 1)
        OBVIOUS
    <2>1. p \in 1 .. b /\ q \in 1 .. b
        BY <1>1
    <2>2. p = q
        BY <1>2, <2>1 DEF Once
    <2> QED
        BY <1>1, <2>2
<1> QED
    BY <1>2, <1>3, <1>4

------------------------------------------------------------------------------
(* The invariant.                                                          *)

BookShape ==
    /\ served \subseteq Keyset /\ mintList \in Seq(Instance)
    /\ urlOf \in [Instance -> Url \cup {"none", "gone"}]
    /\ held \in [Instance -> SUBSET Keyset]
    /\ counter \in [Instance -> [Keyset -> Nat]]
    /\ adding \in [Instance -> [step : {"none", "keysets", "keys", "shortname"},
                                got : SUBSET Keyset]]
    /\ refreshing \in [step : {"none", "keysets", "update", "sync"}, inst : Instance \cup {0},
                       url : Url \cup {"none"}, got : SUBSET Keyset]
    /\ refreshing.step \in {"update", "sync"} => refreshing.inst \in Instance
    /\ mintRow \in [Instance -> Url \cup {"none"}]
    /\ owner \in [Keyset -> Instance \cup {0}]
    /\ counterRow \in [Keyset -> Nat]
    /\ seedCounter \in [Url -> [Keyset -> Nat]]
    /\ signed \in [Keyset -> SUBSET Nat]

\* The list holds a mint once, with its url and its observer, and none that addMint still
\* works on.
ListInv ==
    /\ Once(mintList)
    /\ \A i \in Live : urlOf[i] \in Url
    /\ \A i \in Instance : adding[i].step # "none" => i \notin Live /\ urlOf[i] \in Url
    /\ observed = Live

\* What the mint signed is below the counter in SQLite, and that is below the counter of the
\* only mint of the list that has the keyset.
CounterInv ==
    /\ \A k \in Keyset : \A n \in signed[k] : n < counterRow[k]
    /\ \A i \in Live : \A k \in held[i] \ unsure :
          /\ counter[i][k] >= counterRow[k]
          /\ \A j \in Live : k \in held[j] => j = i
    /\ reused \subseteq unsure

\* The rows follow the list, and a keyset's row names a mint that has one.
RowInv ==
    /\ BookIsOnDisk
    /\ \A k \in Keyset : owner[k] # 0 => mintRow[owner[k]] # "none"

BookInv == BookShape /\ ListInv /\ CounterInv /\ RowInv

\* findByUrl finds a mint of the list that has the url.
LEMMA FoundByUrl ==
    ASSUME BookShape, NEW u, MintExists(u)
    PROVE  FindByUrl(u) \in Live /\ FindByUrl(u) \in Instance /\ urlOf[FindByUrl(u)] = u
<1> PICK S : S = {n \in DOMAIN mintList : urlOf[mintList[n]] = u}
    OBVIOUS
<1>1. S \subseteq Nat /\ DOMAIN mintList = 1 .. Len(mintList)
    BY DEF BookShape
<1>2. S # {}
    BY DEF MintExists, Live, ToSet
<1>3. Min(S) \in S
    BY <1>1, <1>2, LeastIsThere
<1>4. FindByUrl(u) = mintList[Min(S)]
    BY DEF FindByUrl
<1>5. mintList[Min(S)] \in Live /\ urlOf[mintList[Min(S)]] = u
    BY <1>3 DEF Live, ToSet
<1>6. mintList[Min(S)] \in Instance
    BY <1>1, <1>3 DEF BookShape
<1> QED
    BY <1>4, <1>5, <1>6

\* Reading the counters back lowers none, and brings the counter of a keyset that one mint
\* of the list has up to the row's.
LEMMA HydratedUp ==
    ASSUME NEW list \in Seq(Instance), NEW sets, NEW counters \in [Instance -> [Keyset -> Nat]],
           counterRow \in [Keyset -> Nat], NEW risen, risen = Hydrated(list, sets, counters)
    PROVE  /\ risen \in [Instance -> [Keyset -> Nat]]
           /\ \A i \in Instance, k \in Keyset : risen[i][k] >= counters[i][k]
           /\ \A i \in ToSet(list), k \in Keyset :
                 k \in sets[i] /\ (\A j \in ToSet(list) : k \in sets[j] => j = i)
                    => risen[i][k] >= counterRow[k]
<1> DEFINE holders(k) == {n \in DOMAIN list : k \in sets[list[n]]}
           up(i, k) == IF holders(k) # {} /\ list[Max(holders(k))] = i
                       THEN Max({counters[i][k], counterRow[k]}) ELSE counters[i][k]
<1>1. risen = [i \in Instance |-> [k \in Keyset |-> up(i, k)]]
    BY DEF Hydrated
<1>2. ASSUME NEW i \in Instance, NEW k \in Keyset
      PROVE  /\ up(i, k) \in Nat /\ up(i, k) >= counters[i][k]
             /\ holders(k) # {} /\ list[Max(holders(k))] = i => up(i, k) >= counterRow[k]
    <2>1. counters[i][k] \in Nat /\ counterRow[k] \in Nat
        OBVIOUS
    <2>2. PICK m \in Nat : /\ m = Max({counters[i][k], counterRow[k]})
                           /\ m >= counters[i][k] /\ m >= counterRow[k]
        BY <2>1, LargerOfTwo
    <2>3. CASE holders(k) # {} /\ list[Max(holders(k))] = i
        <3>1. up(i, k) = m
            BY <2>2, <2>3, Zenon
        <3> HIDE DEF up, holders
        <3> QED
            BY <2>1, <2>2, <3>1
    <2>4. CASE ~(holders(k) # {} /\ list[Max(holders(k))] = i)
        <3>1. up(i, k) = counters[i][k]
            BY <2>4, Zenon
        <3> HIDE DEF up, holders
        <3> QED
            BY <2>1, <2>4, <3>1
    <2> QED
        BY <2>3, <2>4
<1>3. ASSUME NEW i \in ToSet(list), NEW k \in Keyset, k \in sets[i],
             \A j \in ToSet(list) : k \in sets[j] => j = i
      PROVE  i \in Instance /\ holders(k) # {} /\ list[Max(holders(k))] = i
    <2>1. DOMAIN list = 1 .. Len(list) /\ Len(list) \in Nat
        OBVIOUS
    <2>2. PICK n \in DOMAIN list : list[n] = i
        BY <1>3 DEF ToSet
    <2>3. holders(k) # {} /\ holders(k) \subseteq 0 .. Len(list) /\ i \in Instance
        BY <1>3, <2>1, <2>2
    <2>4. Max(holders(k)) \in holders(k)
        <3> HIDE DEF holders
        <3> QED
            BY <2>1, <2>3, LargestIsThere
    <2>5. Max(holders(k)) \in DOMAIN list /\ k \in sets[list[Max(holders(k))]]
        BY <2>4
    <2> QED
        BY <1>3, <2>3, <2>5 DEF ToSet
<1> HIDE DEF holders, up
<1>4. risen \in [Instance -> [Keyset -> Nat]]
    BY <1>1, <1>2
<1>5. \A i \in Instance, k \in Keyset : risen[i][k] = up(i, k)
    BY <1>1
<1> QED
    BY <1>2, <1>3, <1>4, <1>5

\* The rows of a mint that is written, whether or not the write is dropped.
LEMMA Persisted ==
    ASSUME BookShape, RowInv, NEW i \in Instance, NEW u \in Url,
           NEW rows \in [Instance -> Url \cup {"none"}], NEW sets \in SUBSET Keyset, NEW left,
           Persist(rows, i, u, sets, left),
           Live' = Live \cup {i}, urlOf'[i] = u, held'[i] = sets, unsure \subseteq unsure',
           rows[i] = "none" => mintRow[i] = "none",
           \A j \in Instance : j # i =>
              rows[j] = mintRow[j] /\ urlOf'[j] = urlOf[j] /\ held'[j] = held[j],
           \A j \in Live : j # i => held[j] \cap sets \subseteq unsure'
    PROVE  /\ RowInv'
           /\ mintRow' \in [Instance -> Url \cup {"none"}]
           /\ owner' \in [Keyset -> Instance \cup {0}]
<1>1. /\ {"none", "gone"} \cap Url = {} /\ MaxMints \in Nat
      /\ owner \in [Keyset -> Instance \cup {0}] /\ mintRow \in [Instance -> Url \cup {"none"}]
    BY MintBookAssumptions DEF BookShape
<1>2. i # 0 /\ u # "none"
    BY <1>1 DEF Instance
<1>3. CASE /\ mintRow' = [rows EXCEPT ![i] = u]
           /\ owner' = [k \in Keyset |-> IF k \in sets THEN i ELSE owner[k]]
           /\ behind' = behind \ {i}
    <2>1. /\ mintRow' \in [Instance -> Url \cup {"none"}] /\ mintRow'[i] = u
          /\ \A j \in Instance : j # i => mintRow'[j] = mintRow[j]
        BY <1>3
    <2>2. /\ owner' \in [Keyset -> Instance \cup {0}]
          /\ \A k \in Keyset : owner'[k] = IF k \in sets THEN i ELSE owner[k]
        BY <1>1, <1>3
    <2>3. \A k \in Keyset : owner'[k] # 0 => mintRow'[owner'[k]] # "none"
        BY <1>1, <1>2, <2>1, <2>2 DEF RowInv
    <2>4. ASSUME NEW j \in Instance
          PROVE  /\ j \in Live' \ behind' =>
                       mintRow'[j] = urlOf'[j] /\ \A k \in held'[j] \ unsure' : owner'[k] = j
                 /\ j \notin Live' => mintRow'[j] = "none" /\ \A k \in Keyset : owner'[k] # j
        <3>1. CASE j = i
            BY <2>1, <2>2, <3>1
        <3>2. CASE j # i
            <4>1. held[j] \subseteq Keyset
                BY DEF BookShape
            <4> QED
                BY <1>3, <2>1, <2>2, <3>2, <4>1 DEF RowInv, BookIsOnDisk
        <3> QED
            BY <3>1, <3>2
    <2> QED
        BY <2>1, <2>2, <2>3, <2>4 DEF RowInv, BookIsOnDisk
<1>4. CASE mintRow' = rows /\ behind' = behind \cup {i} /\ owner' = owner
    <2>1. \A k \in Keyset : owner'[k] # 0 => mintRow'[owner'[k]] # "none"
        BY <1>1, <1>4 DEF RowInv
    <2>2. ASSUME NEW j \in Instance
          PROVE  /\ j \in Live' \ behind' =>
                       mintRow'[j] = urlOf'[j] /\ \A k \in held'[j] \ unsure' : owner'[k] = j
                 /\ j \notin Live' => mintRow'[j] = "none" /\ \A k \in Keyset : owner'[k] # j
        BY <1>4 DEF RowInv, BookIsOnDisk
    <2> QED
        BY <1>1, <1>4, <2>1, <2>2 DEF RowInv, BookIsOnDisk
<1> QED
    BY <1>3, <1>4 DEF Persist

------------------------------------------------------------------------------
(* The steps.                                                              *)

\* What is not signed, written or added leaves the counters right; they may be read back.
LEMMA CountersKept ==
    ASSUME BookShape, CounterInv, Live' \subseteq Live, \A i \in Live' : held'[i] = held[i],
           UNCHANGED <<counterRow, signed, reused, unsure>>,
           \/ counter' = counter
           \/ /\ counter' \in [Instance -> [Keyset -> Nat]]
              /\ \A i \in Instance, k \in Keyset : counter'[i][k] >= counter[i][k]
    PROVE  CounterInv'
<1>1. ASSUME NEW i \in Live', NEW k \in held'[i] \ unsure'
      PROVE  /\ counter'[i][k] >= counterRow'[k]
             /\ \A j \in Live' : k \in held'[j] => j = i
    <2>1. i \in Live /\ k \in held[i] \ unsure /\ counter[i][k] >= counterRow[k]
        BY <1>1 DEF CounterInv
    <2>2. i \in Instance
        BY <2>1 DEF Live, ToSet, BookShape
    <2>3. k \in Keyset
        BY <2>1, <2>2 DEF BookShape
    <2>4. counter[i][k] \in Nat /\ counterRow[k] \in Nat
        BY <2>2, <2>3 DEF BookShape
    <2>5. counter'[i][k] \in Nat /\ counter'[i][k] >= counter[i][k]
        BY <2>2, <2>3, <2>4
    <2>6. \A j \in Live' : k \in held'[j] => j = i
        BY <2>1 DEF CounterInv
    <2> QED
        BY <2>1, <2>4, <2>5, <2>6
<1> QED
    BY <1>1 DEF CounterInv

\* The rows stay right while neither they nor the mints of the list change.
LEMMA RowsKept ==
    ASSUME RowInv, UNCHANGED <<mintList, mintRow, owner, behind>>, unsure \subseteq unsure',
           \A i \in Live : urlOf'[i] = urlOf[i] /\ held'[i] = held[i]
    PROVE  RowInv'
<1>1. Live' = Live
    BY DEF Live
<1> QED
    BY <1>1 DEF RowInv, BookIsOnDisk

LEMMA LiveIsInstance == BookShape => Live \subseteq Instance
    BY DEF BookShape, Live, ToSet

\* addMint begins: an instance that is not in the list.
LEMMA AddStartStep == ASSUME BookInv, NEW u \in Url, AddStart(u) PROVE BookInv'
<1>1. PICK i \in Instance :
         /\ urlOf[i] = "none" /\ urlOf' = [urlOf EXCEPT ![i] = u]
         /\ adding' = [adding EXCEPT ![i] = [step |-> "keysets", got |-> {}]]
    BY DEF AddStart
<1>2. UNCHANGED <<served, mintList, held, counter, observed, refreshing, mintRow, owner, behind,
                  counterRow, seedCounter, signed, reused, unsure>>
    BY DEF AddStart, diskVars, ghostVars
<1>3. "none" \notin Url /\ Live' = Live
    BY <1>2, MintBookAssumptions DEF Live
<1>4. i \notin Live
    BY <1>1, <1>3 DEF BookInv, ListInv
<1>5. BookShape'
    <2>1. urlOf' \in [Instance -> Url \cup {"none", "gone"}]
        BY <1>1 DEF BookInv, BookShape
    <2>2. adding' \in [Instance -> [step : {"none", "keysets", "keys", "shortname"},
                                    got : SUBSET Keyset]]
        BY <1>1 DEF BookInv, BookShape
    <2> QED
        BY <1>2, <2>1, <2>2 DEF BookInv, BookShape
<1>6. ListInv'
    <2>1. \A j \in Live : urlOf'[j] \in Url
        BY <1>1, <1>4, LiveIsInstance DEF BookInv, ListInv, BookShape
    <2>2. \A j \in Instance : adding'[j].step # "none" => j \notin Live /\ urlOf'[j] \in Url
        BY <1>1, <1>4 DEF BookInv, ListInv, BookShape
    <2> QED
        BY <1>2, <1>3, <2>1, <2>2 DEF BookInv, ListInv
<1>7. CounterInv'
    BY <1>2, <1>3, CountersKept DEF BookInv
<1>8. RowInv'
    <2>1. \A j \in Live : urlOf'[j] = urlOf[j] /\ held'[j] = held[j]
        BY <1>1, <1>2, <1>4, LiveIsInstance DEF BookInv, BookShape
    <2> QED
        BY <1>2, <2>1, RowsKept DEF BookInv
<1> QED
    BY <1>5, <1>6, <1>7, <1>8 DEF BookInv

\* The keysets and the keys come; the instance is not in the list yet.
LEMMA AddKeysStep ==
    ASSUME BookInv, NEW i \in Instance, AddKeysets(i) \/ AddKeys(i)
    PROVE  BookInv'
<1>1. /\ adding[i].step # "none" /\ i \notin Live
      /\ UNCHANGED <<served, mintList, urlOf, counter, observed, refreshing, mintRow, owner, behind,
                     counterRow, seedCounter, signed, reused, unsure>>
    BY DEF AddKeysets, AddKeys, BookInv, ListInv, diskVars, ghostVars
<1>2. /\ adding' \in [Instance -> [step : {"none", "keysets", "keys", "shortname"},
                                   got : SUBSET Keyset]]
      /\ \A j \in Instance : j # i => adding'[j] = adding[j]
    <2>1. CASE AddKeysets(i)
        BY <2>1 DEF AddKeysets, BookInv, BookShape
    <2>2. CASE AddKeys(i)
        <3> PICK entry : /\ adding' = [adding EXCEPT ![i] = entry]
                         /\ entry = [adding[i] EXCEPT !.step = "shortname"] \/ entry = NotAdding
            BY <2>2 DEF AddKeys
        <3>1. adding \in [Instance -> [step : {"none", "keysets", "keys", "shortname"},
                                       got : SUBSET Keyset]]
            BY DEF BookInv, BookShape
        <3>2. entry \in [step : {"none", "keysets", "keys", "shortname"}, got : SUBSET Keyset]
            BY <3>1 DEF NotAdding
        <3> QED
            BY <3>1, <3>2
    <2> QED
        BY <2>1, <2>2
<1>3. held' \in [Instance -> SUBSET Keyset] /\ \A j \in Instance : j # i => held'[j] = held[j]
    <2>1. adding[i].got \in SUBSET Keyset
        BY DEF BookInv, BookShape
    <2>2. held' = held \/ held' = [held EXCEPT ![i] = adding[i].got]
        BY DEF AddKeysets, AddKeys
    <2> QED
        BY <2>1, <2>2 DEF BookInv, BookShape
<1>4. Live' = Live
    BY <1>1 DEF Live
<1>5. BookShape'
    BY <1>1, <1>2, <1>3 DEF BookInv, BookShape
<1>6. ListInv'
    BY <1>1, <1>2, <1>4 DEF BookInv, ListInv
<1>7. \A j \in Live : held'[j] = held[j]
    BY <1>1, <1>3, LiveIsInstance DEF BookInv
<1>8. CounterInv'
    BY <1>1, <1>4, <1>7, CountersKept DEF BookInv
<1>9. RowInv'
    BY <1>1, <1>7, RowsKept DEF BookInv
<1> QED
    BY <1>5, <1>6, <1>8, <1>9 DEF BookInv

\* addMint ends: the mint is pushed and written, and its counters are read back.
LEMMA AddPushStep == ASSUME BookInv, NEW i \in Instance, AddPush(i) PROVE BookInv'
<1>1. /\ adding[i].step = "shortname" /\ adding' = [adding EXCEPT ![i] = NotAdding]
      /\ mintList' = Append(mintList, i) /\ observed' = observed \cup {i}
      /\ Persist(mintRow, i, urlOf[i], held[i], budget)
      /\ counter' = Hydrated(mintList', held, counter)
      /\ unsure' = unsure \cup (held[i] \cap AllKeysetIds)
      /\ UNCHANGED <<served, urlOf, held, refreshing, counterRow, seedCounter, signed, reused>>
    BY DEF AddPush
<1>2. i \notin Live /\ urlOf[i] \in Url /\ held[i] \in SUBSET Keyset
    BY <1>1 DEF BookInv, ListInv, BookShape
<1>3. mintList' \in Seq(Instance) /\ Live' = Live \cup {i} /\ Once(mintList')
    BY <1>1, <1>2, Pushed DEF BookInv, BookShape, ListInv, Live
<1>4. \A j \in Live : held[j] \cap held[i] \subseteq unsure'
    BY <1>1 DEF AllKeysetIds
<1>5. RowInv' /\ mintRow' \in [Instance -> Url \cup {"none"}]
      /\ owner' \in [Keyset -> Instance \cup {0}]
    <2>1. mintRow \in [Instance -> Url \cup {"none"}]
        BY DEF BookInv, BookShape
    <2> QED
        BY <1>1, <1>2, <1>3, <1>4, <2>1, Persisted DEF BookInv
<1>6. /\ counter' \in [Instance -> [Keyset -> Nat]]
      /\ \A j \in Instance, k \in Keyset : counter'[j][k] >= counter[j][k]
      /\ \A j \in Live', k \in Keyset :
            k \in held[j] /\ (\A m \in Live' : k \in held[m] => m = j)
               => counter'[j][k] >= counterRow[k]
    <2>1. counter \in [Instance -> [Keyset -> Nat]] /\ counterRow \in [Keyset -> Nat]
        BY DEF BookInv, BookShape
    <2> QED
        BY <1>1, <1>3, <2>1, HydratedUp DEF Live
<1>7. BookShape'
    <2>1. adding' \in [Instance -> [step : {"none", "keysets", "keys", "shortname"},
                                    got : SUBSET Keyset]]
        BY <1>1 DEF NotAdding, BookInv, BookShape
    <2> QED
        BY <1>1, <1>3, <1>5, <1>6, <2>1 DEF BookInv, BookShape
<1>8. ListInv'
    <2>1. \A j \in Instance : adding'[j].step # "none" => j # i /\ adding[j].step # "none"
        BY <1>1 DEF NotAdding, BookInv, BookShape
    <2> QED
        BY <1>1, <1>2, <1>3, <2>1 DEF BookInv, ListInv
<1>9. CounterInv'
    <2>1. ASSUME NEW j \in Live', NEW k \in held'[j] \ unsure'
          PROVE  /\ counter'[j][k] >= counterRow'[k]
                 /\ \A m \in Live' : k \in held'[m] => m = j
        <3>1. k \in held[j] /\ k \notin unsure /\ j \in Instance /\ k \in Keyset
            BY <1>1, <1>3, <2>1, LiveIsInstance DEF BookInv, BookShape
        <3>2. \A m \in Live' : k \in held[m] => m = j
            BY <1>1, <1>3, <1>4, <2>1, <3>1 DEF BookInv, CounterInv
        <3> QED
            BY <1>1, <1>6, <3>1, <3>2
    <2> QED
        BY <1>1, <2>1 DEF BookInv, CounterInv
<1> QED
    BY <1>5, <1>7, <1>8, <1>9 DEF BookInv

\* A refresh begins, and gets the mint's keysets.
LEMMA RefreshStartStep ==
    ASSUME BookInv, RefreshKeysets \/ \E u \in Url : RefreshStart(u)
    PROVE  BookInv'
<1>1. UNCHANGED <<served, mintList, urlOf, held, counter, observed, adding, mintRow, owner, behind,
                  counterRow, seedCounter, signed, reused, unsure>>
    BY DEF RefreshKeysets, RefreshStart, diskVars, ghostVars
<1>2. /\ refreshing' \in [step : {"none", "keysets", "update", "sync"}, inst : Instance \cup {0},
                          url : Url \cup {"none"}, got : SUBSET Keyset]
      /\ refreshing'.step \in {"update", "sync"} => refreshing'.inst \in Instance
    <2>1. ASSUME NEW u \in Url, RefreshStart(u)
          PROVE  /\ refreshing' \in [step : {"none", "keysets", "update", "sync"},
                                     inst : Instance \cup {0},
                                     url : Url \cup {"none"}, got : SUBSET Keyset]
                 /\ refreshing'.step = "keysets"
        <3>1. FindByUrl(u) \in Instance
            BY <2>1, FoundByUrl DEF RefreshStart, BookInv
        <3> QED
            BY <2>1, <3>1 DEF RefreshStart
    <2>2. CASE RefreshKeysets
        <3>1. MintExists(refreshing.url) => FindByUrl(refreshing.url) \in Instance
            BY FoundByUrl DEF BookInv
        <3>2. /\ refreshing \in [step : {"none", "keysets", "update", "sync"},
                                 inst : Instance \cup {0},
                                 url : Url \cup {"none"}, got : SUBSET Keyset]
              /\ served \in SUBSET Keyset
            BY DEF BookInv, BookShape
        <3>3. CASE /\ refreshing.inst # 0
                   /\ refreshing' = [refreshing EXCEPT !.step = "update", !.got = served]
            <4>1. /\ refreshing' = [step |-> "update", inst |-> refreshing.inst,
                                    url |-> refreshing.url, got |-> served]
                  /\ refreshing.inst \in Instance
                BY <3>2, <3>3
            <4> QED
                BY <3>2, <4>1
        <3>4. CASE /\ MintExists(refreshing.url)
                   /\ refreshing' = [refreshing EXCEPT !.step = "sync",
                                        !.inst = FindByUrl(refreshing.url), !.got = served]
            <4>1. /\ refreshing' = [step |-> "sync", inst |-> FindByUrl(refreshing.url),
                                    url |-> refreshing.url, got |-> served]
                  /\ FindByUrl(refreshing.url) \in Instance
                BY <3>1, <3>2, <3>4
            <4> QED
                BY <3>2, <4>1
        <3>5. CASE refreshing' = NotRefreshing
            BY <3>5 DEF NotRefreshing
        <3> QED
            BY <2>2, <3>3, <3>4, <3>5 DEF RefreshKeysets
    <2> QED
        BY <2>1, <2>2
<1>3. BookShape'
    BY <1>1, <1>2 DEF BookInv, BookShape
<1> QED
    BY <1>1, <1>3 DEF BookInv, ListInv, CounterInv, RowInv, BookIsOnDisk, Live

\* A refresh ends: a keyset no mint of the list has joins one that may have left the list.
LEMMA RefreshKeysStep == ASSUME BookInv, RefreshKeys PROVE BookInv'
<1> PICK i : i = refreshing.inst
    OBVIOUS
<1>1. i \in Instance /\ held[i] \in SUBSET Keyset /\ refreshing.got \in SUBSET Keyset
    BY DEF RefreshKeys, BookInv, BookShape
<1> PICK fresh : fresh = refreshing.got \ held[i]
    OBVIOUS
<1>0. \E added \in SUBSET (fresh \ (fresh \cap AllKeysetIds)) :
         /\ held' = [held EXCEPT ![i] = @ \cup added]
         /\ unsure' = unsure \cup {k \in added : counter[i][k] < counterRow[k]}
         /\ IF added # {} /\ i \in observed THEN Persist(mintRow, i, urlOf[i], held'[i], budget)
            ELSE UNCHANGED <<diskVars, budget>>
    BY Zenon DEF RefreshKeys
<1>2. PICK added \in SUBSET Keyset :
         /\ added \cap AllKeysetIds = {}
         /\ held' = [held EXCEPT ![i] = @ \cup added]
         /\ unsure' = unsure \cup {k \in added : counter[i][k] < counterRow[k]}
         /\ IF added # {} /\ i \in observed THEN Persist(mintRow, i, urlOf[i], held'[i], budget)
            ELSE UNCHANGED <<diskVars, budget>>
    <2>1. ASSUME NEW added \in SUBSET (fresh \ (fresh \cap AllKeysetIds))
          PROVE  added \in SUBSET Keyset /\ added \cap AllKeysetIds = {}
        BY <1>1
    <2> QED
        BY <1>0, <2>1, Zenon
<1>3. UNCHANGED <<served, mintList, urlOf, counter, observed, adding, counterRow, seedCounter,
                  signed, reused>> /\ refreshing' = NotRefreshing
    BY DEF RefreshKeys
<1>4. Live' = Live /\ Live \subseteq Instance
    BY <1>3, LiveIsInstance DEF Live, BookInv
<1>5. /\ held' \in [Instance -> SUBSET Keyset] /\ held'[i] = held[i] \cup added
      /\ \A j \in Instance : j # i => held'[j] = held[j]
    BY <1>1, <1>2 DEF BookInv, BookShape
<1>6. \A j \in Live : held[j] \cap added = {}
    BY <1>2 DEF AllKeysetIds
<1>7. CounterInv'
    <2>1. ASSUME NEW j \in Live, NEW k \in held'[j] \ unsure'
          PROVE  /\ counter[j][k] >= counterRow[k]
                 /\ \A m \in Live : k \in held'[m] => m = j
        <3>1. CASE k \in added
            <4>1. j = i /\ \A m \in Live : k \in held'[m] => m = i
                BY <1>4, <1>5, <1>6, <2>1, <3>1
            <4>2. counter[i][k] \in Nat /\ counterRow[k] \in Nat
                BY <1>1, <3>1 DEF BookInv, BookShape
            <4> QED
                BY <1>2, <2>1, <3>1, <4>1, <4>2
        <3>2. CASE k \notin added
            <4>1. k \in held[j] \ unsure /\ \A m \in Live : k \in held'[m] => k \in held[m]
                BY <1>2, <1>4, <1>5, <2>1, <3>2
            <4> QED
                BY <4>1 DEF BookInv, CounterInv
        <3> QED
            BY <3>1, <3>2
    <2> QED
        BY <1>2, <1>3, <1>4, <2>1 DEF BookInv, CounterInv
<1>8. RowInv' /\ mintRow' \in [Instance -> Url \cup {"none"}]
      /\ owner' \in [Keyset -> Instance \cup {0}]
    <2>0. mintRow \in [Instance -> Url \cup {"none"}] /\ owner \in [Keyset -> Instance \cup {0}]
        BY DEF BookInv, BookShape
    <2>1. CASE added # {} /\ i \in observed
        <3>1. i \in Live /\ urlOf[i] \in Url /\ held'[i] \in SUBSET Keyset
            BY <1>1, <1>5, <2>1 DEF BookInv, ListInv
        <3>2. Persist(mintRow, i, urlOf[i], held'[i], budget)
            BY <1>2, <2>1
        <3>3. \A j \in Live : j # i => held[j] \cap held'[i] \subseteq unsure'
            BY <1>2, <1>5, <1>6, <3>1 DEF BookInv, CounterInv
        <3>4. /\ Live' = Live \cup {i} /\ urlOf'[i] = urlOf[i] /\ unsure \subseteq unsure'
              /\ \A j \in Instance : j # i => urlOf'[j] = urlOf[j] /\ held'[j] = held[j]
            BY <1>2, <1>3, <1>4, <1>5, <3>1
        <3> PICK sets \in SUBSET Keyset : held'[i] = sets
            BY <3>1
        <3> QED
            BY <1>1, <2>0, <3>1, <3>2, <3>3, <3>4, Persisted DEF BookInv
    <2>2. CASE ~(added # {} /\ i \in observed)
        <3>1. UNCHANGED <<mintList, mintRow, owner, behind>>
            BY <1>2, <1>3, <2>2 DEF diskVars
        <3>2. \A j \in Live : urlOf'[j] = urlOf[j] /\ held'[j] = held[j]
            BY <1>3, <1>4, <1>5, <2>2 DEF BookInv, ListInv
        <3> QED
            BY <1>2, <2>0, <3>1, <3>2, RowsKept DEF BookInv
    <2> QED
        BY <2>1, <2>2
<1>9. BookShape'
    BY <1>3, <1>5, <1>8 DEF NotRefreshing, BookInv, BookShape
<1>10. ListInv'
    BY <1>3, <1>4 DEF BookInv, ListInv
<1> QED
    BY <1>7, <1>8, <1>9, <1>10 DEF BookInv

\* A mint of the list gets another url, and its row with it.
LEMMA SetMintUrlStep ==
    ASSUME BookInv, NEW i \in Instance, NEW u \in Url, SetMintUrl(i, u)
    PROVE  BookInv'
<1>1. /\ i \in Live /\ urlOf' = [urlOf EXCEPT ![i] = u]
      /\ UNCHANGED <<served, mintList, held, counter, observed, adding, refreshing,
                     counterRow, seedCounter, signed, reused, unsure>>
    BY DEF SetMintUrl, ghostVars
<1>2. Live' = Live /\ Live \subseteq Instance
    BY <1>1, LiveIsInstance DEF Live, BookInv
<1>3. /\ urlOf' \in [Instance -> Url \cup {"none", "gone"}] /\ urlOf'[i] = u
      /\ \A j \in Instance : j # i => urlOf'[j] = urlOf[j]
    BY <1>1 DEF BookInv, BookShape
<1>4. RowInv' /\ mintRow' \in [Instance -> Url \cup {"none"}]
      /\ owner' \in [Keyset -> Instance \cup {0}]
    <2> PICK rows : rows = [j \in Instance |->
                               IF j = i /\ mintRow[i] # "none" THEN u ELSE mintRow[j]]
        OBVIOUS
    <2> PICK left : left = [budget EXCEPT !.moves = @ - 1]
        OBVIOUS
    <2>1. Persist(rows, i, u, held[i], left)
        BY DEF SetMintUrl
    <2>2. /\ mintRow \in [Instance -> Url \cup {"none"}] /\ held[i] \in SUBSET Keyset
          /\ "none" \notin Url
        BY MintBookAssumptions DEF BookInv, BookShape
    <2>3. /\ rows \in [Instance -> Url \cup {"none"}]
          /\ rows[i] = "none" => mintRow[i] = "none"
          /\ \A j \in Instance : j # i => rows[j] = mintRow[j]
        BY <2>2
    <2>4. \A j \in Live : j # i => held[j] \cap held[i] \subseteq unsure'
        BY <1>1 DEF BookInv, CounterInv
    <2>5. /\ \A j \in Instance : j # i =>
                rows[j] = mintRow[j] /\ urlOf'[j] = urlOf[j] /\ held'[j] = held[j]
          /\ Live' = Live \cup {i} /\ unsure \subseteq unsure'
        BY <1>1, <1>2, <1>3, <2>3
    <2> PICK sets \in SUBSET Keyset : sets = held[i] /\ held'[i] = sets
        BY <1>1, <2>2
    <2>6. Persist(rows, i, u, sets, left)
        BY <2>1
    <2>7. \A j \in Live : j # i => held[j] \cap sets \subseteq unsure'
        BY <2>4
    <2>8. BookShape /\ RowInv /\ urlOf'[i] = u /\ held'[i] = sets
        BY <1>3 DEF BookInv
    <2> QED
        BY <2>3, <2>5, <2>6, <2>7, <2>8, Persisted
<1>5. BookShape'
    BY <1>1, <1>3, <1>4 DEF BookInv, BookShape
<1>6. ListInv'
    BY <1>1, <1>2, <1>3 DEF BookInv, ListInv
<1>7. CounterInv'
    BY <1>1, <1>2, CountersKept DEF BookInv
<1> QED
    BY <1>4, <1>5, <1>6, <1>7 DEF BookInv

\* A mint leaves the list, with its observer and its rows; its counters stay.
LEMMA RemoveMintStep == ASSUME BookInv, NEW i \in Instance, RemoveMint(i) PROVE BookInv'
<1>1. /\ observed' = observed \ {i} /\ mintRow' = [mintRow EXCEPT ![i] = "none"]
      /\ owner' = [k \in Keyset |-> IF owner[k] = i THEN 0 ELSE owner[k]]
      /\ behind' = behind \ {i}
      /\ UNCHANGED <<served, urlOf, held, counter, adding, refreshing, counterRow, seedCounter,
                     signed, reused, unsure>>
    BY DEF RemoveMint, ghostVars
<1>2. PICK n \in DOMAIN mintList : mintList[n] = i /\ mintList' = RemoveAt(mintList, n)
    BY DEF RemoveMint, TakeOut
<1>3. mintList' \in Seq(Instance) /\ Live' = Live \ {i} /\ Once(mintList')
    BY <1>2, TakenOut DEF Live, BookInv, BookShape, ListInv
<1>4. i # 0 /\ Live \subseteq Instance
    BY LiveIsInstance, MintBookAssumptions DEF Instance, BookInv
<1>5. /\ mintRow' \in [Instance -> Url \cup {"none"}] /\ mintRow'[i] = "none"
      /\ \A j \in Instance : j # i => mintRow'[j] = mintRow[j]
    BY <1>1 DEF BookInv, BookShape
<1>6. /\ owner' \in [Keyset -> Instance \cup {0}]
      /\ \A k \in Keyset : owner'[k] = IF owner[k] = i THEN 0 ELSE owner[k]
    BY <1>1 DEF BookInv, BookShape
<1>7. BookShape'
    BY <1>1, <1>3, <1>5, <1>6 DEF BookInv, BookShape
<1>8. ListInv'
    BY <1>1, <1>3 DEF BookInv, ListInv
<1>9. CounterInv'
    BY <1>1, <1>3, CountersKept DEF BookInv
<1>10. RowInv'
    <2>1. ASSUME NEW j \in Instance
          PROVE  /\ j \in Live' \ behind' =>
                       mintRow'[j] = urlOf'[j] /\ \A k \in held'[j] \ unsure' : owner'[k] = j
                 /\ j \notin Live' => mintRow'[j] = "none" /\ \A k \in Keyset : owner'[k] # j
        <3>1. CASE j = i
            BY <1>3, <1>4, <1>5, <1>6, <3>1
        <3>2. CASE j # i
            <4>0. held[j] \subseteq Keyset
                BY DEF BookInv, BookShape
            <4>1. j # 0
                BY MintBookAssumptions DEF Instance
            <4>2. /\ j \in Live \ behind =>
                         mintRow[j] = urlOf[j] /\ \A k \in held[j] \ unsure : owner[k] = j
                  /\ j \notin Live => mintRow[j] = "none" /\ \A k \in Keyset : owner[k] # j
                BY DEF BookInv, RowInv, BookIsOnDisk
            <4> QED
                BY <1>1, <1>3, <1>5, <1>6, <3>2, <4>0, <4>1, <4>2
        <3> QED
            BY <3>1, <3>2
    <2>2. \A k \in Keyset : owner'[k] # 0 => mintRow'[owner'[k]] # "none"
        <3>1. owner \in [Keyset -> Instance \cup {0}]
            BY DEF BookInv, BookShape
        <3> QED
            BY <1>5, <1>6, <3>1 DEF BookInv, RowInv
    <2> QED
        BY <2>1, <2>2 DEF RowInv, BookIsOnDisk
<1> QED
    BY <1>7, <1>8, <1>9, <1>10 DEF BookInv

\* Indices are derived from the higher counter, which is above all the mint signed unless the
\* keyset is one of the unsure.
LEMMA DrawStep == ASSUME BookInv, NEW u \in Url, NEW k \in Keyset, Draw(u, k) PROVE BookInv'
<1> PICK i : i = FindByUrl(u)
    OBVIOUS
<1>1. i \in Live /\ i \in Instance /\ k \in held[i]
    BY FoundByUrl DEF Draw, BookInv
<1>2. /\ counter \in [Instance -> [Keyset -> Nat]] /\ seedCounter \in [Url -> [Keyset -> Nat]]
      /\ counterRow \in [Keyset -> Nat] /\ signed \in [Keyset -> SUBSET Nat]
    BY DEF BookInv, BookShape
<1>3. counter[i][k] \in Nat /\ seedCounter[u][k] \in Nat /\ counterRow[k] \in Nat
    BY <1>1, <1>2
<1> PICK start : start = Max({seedCounter[u][k], counter[i][k]})
    OBVIOUS
<1>4. start \in Nat /\ start >= counter[i][k]
    BY <1>3, LargerOfTwo
<1> PICK high : high = Max({counterRow[k], start + 1})
    OBVIOUS
<1>5. high \in {counterRow[k], start + 1} /\ high >= counterRow[k] /\ high >= start + 1
    BY <1>3, <1>4, LargerOfTwo
<1>6. /\ seedCounter' = [seedCounter EXCEPT ![u] = [seedCounter[u] EXCEPT ![k] = start + 1]]
      /\ counter' = [counter EXCEPT ![i] = [counter[i] EXCEPT ![k] = start + 1]]
      /\ counterRow' = [counterRow EXCEPT ![k] = high]
      /\ reused' = IF start \in signed[k] THEN reused \cup {k} ELSE reused
      /\ signed' = [signed EXCEPT ![k] = signed[k] \cup {start}]
    BY DEF Draw
<1>7. UNCHANGED <<served, mintList, urlOf, held, observed, adding, refreshing, mintRow, owner,
                  behind, unsure>>
    BY DEF Draw, diskVars
<1>8. Live' = Live /\ Live \subseteq Instance
    BY <1>7, LiveIsInstance DEF Live, BookInv
<1>9. /\ counter' \in [Instance -> [Keyset -> Nat]] /\ counter'[i][k] = start + 1
      /\ \A j \in Instance, m \in Keyset : j # i \/ m # k => counter'[j][m] = counter[j][m]
    <2> PICK row : row = [counter[i] EXCEPT ![k] = start + 1]
        OBVIOUS
    <2>1. /\ row \in [Keyset -> Nat] /\ row[k] = start + 1
          /\ \A m \in Keyset : m # k => row[m] = counter[i][m]
        <3>1. counter[i] \in [Keyset -> Nat] /\ start + 1 \in Nat
            BY <1>1, <1>2, <1>4
        <3> QED
            BY <3>1
    <2>2. /\ counter' \in [Instance -> [Keyset -> Nat]] /\ counter'[i] = row
          /\ \A j \in Instance : j # i => counter'[j] = counter[j]
        BY <1>1, <1>2, <1>6, <2>1
    <2> QED
        BY <2>1, <2>2
<1>10. /\ counterRow' \in [Keyset -> Nat] /\ counterRow'[k] = high
       /\ \A m \in Keyset : m # k => counterRow'[m] = counterRow[m]
    BY <1>2, <1>3, <1>4, <1>5, <1>6
<1>11. /\ signed' \in [Keyset -> SUBSET Nat] /\ signed'[k] = signed[k] \cup {start}
       /\ \A m \in Keyset : m # k => signed'[m] = signed[m]
    BY <1>2, <1>4, <1>6
<1>12. BookShape'
    <2>1. seedCounter' \in [Url -> [Keyset -> Nat]]
        BY <1>2, <1>4, <1>6
    <2> QED
        BY <1>7, <1>9, <1>10, <1>11, <2>1 DEF BookInv, BookShape
<1>13. ListInv'
    BY <1>7, <1>8 DEF BookInv, ListInv
<1>14. CounterInv'
    <2>1. ASSUME NEW m \in Keyset, NEW n \in signed'[m] PROVE n < counterRow'[m]
        <3>1. \A q \in signed[m] : q \in Nat /\ q < counterRow[m]
            BY <1>2 DEF BookInv, CounterInv
        <3>2. CASE m = k
            <4>1. (n \in signed[k] \/ n = start) /\ counterRow'[m] = high
                BY <1>10, <1>11, <2>1, <3>2
            <4>2. CASE n = start
                BY <1>3, <1>4, <1>5, <4>1, <4>2
            <4>3. CASE n \in signed[k]
                <5>1. n \in Nat /\ n < counterRow[k] /\ high \in Nat
                    BY <1>3, <1>4, <1>5, <3>1, <3>2, <4>3
                <5> QED
                    BY <1>3, <1>5, <4>1, <5>1
            <4> QED
                BY <4>1, <4>2, <4>3
        <3>3. CASE m # k
            BY <1>10, <1>11, <2>1, <3>1, <3>3
        <3> QED
            BY <3>2, <3>3
    <2>2. ASSUME NEW j \in Live, NEW m \in held[j] \ unsure
          PROVE  /\ counter'[j][m] >= counterRow'[m]
                 /\ \A o \in Live : m \in held[o] => o = j
        <3>1. /\ counter[j][m] >= counterRow[m] /\ j \in Instance /\ m \in Keyset
              /\ \A o \in Live : m \in held[o] => o = j
            BY <1>8, <2>2 DEF BookInv, CounterInv, BookShape
        <3>2. CASE m = k
            <4>1. j = i
                BY <1>1, <3>1, <3>2
            <4> QED
                BY <1>3, <1>4, <1>5, <1>9, <1>10, <3>1, <3>2, <4>1
        <3>3. CASE m # k
            BY <1>9, <1>10, <3>1, <3>3
        <3> QED
            BY <3>2, <3>3
    <2>3. reused' \subseteq unsure
        <3>1. CASE k \in unsure
            BY <1>6, <3>1 DEF BookInv, CounterInv
        <3>2. CASE k \notin unsure
            <4>1. counter[i][k] >= counterRow[k]
                BY <1>1, <3>2 DEF BookInv, CounterInv
            <4>2. start \notin signed[k]
                <5> SUFFICES ASSUME start \in signed[k] PROVE FALSE
                    OBVIOUS
                <5>1. start < counterRow[k]
                    BY DEF BookInv, CounterInv
                <5> QED
                    BY <1>3, <1>4, <4>1, <5>1
            <4> QED
                BY <1>6, <4>2 DEF BookInv, CounterInv
        <3> QED
            BY <3>1, <3>2
    <2> QED
        BY <1>7, <1>8, <2>1, <2>2, <2>3 DEF CounterInv
<1>15. RowInv'
    BY <1>7, RowsKept DEF BookInv
<1> QED
    BY <1>12, <1>13, <1>14, <1>15 DEF BookInv

\* The counters are read back in the foreground; the mint makes its other keysets.
LEMMA QuietStep == ASSUME BookInv, HydrateCounters \/ Rotate PROVE BookInv'
<1>1. /\ UNCHANGED <<mintList, urlOf, held, observed, adding, refreshing, mintRow, owner, behind,
                     counterRow, seedCounter, signed, reused, unsure>>
      /\ served' \in SUBSET Keyset
    BY DEF HydrateCounters, Rotate, diskVars, ghostVars, BookInv, BookShape
<1>2. /\ counter' \in [Instance -> [Keyset -> Nat]]
      /\ \A i \in Instance, k \in Keyset : counter'[i][k] >= counter[i][k]
    <2>1. /\ counter \in [Instance -> [Keyset -> Nat]] /\ counterRow \in [Keyset -> Nat]
          /\ mintList \in Seq(Instance)
        BY DEF BookInv, BookShape
    <2>2. CASE counter' = counter
        <3>1. \A i \in Instance, k \in Keyset : counter[i][k] \in Nat
            BY <2>1
        <3> QED
            BY <2>1, <2>2, <3>1
    <2>3. CASE counter' = Hydrated(mintList, held, counter)
        BY <2>1, <2>3, HydratedUp
    <2> QED
        BY <2>2, <2>3 DEF HydrateCounters, Rotate
<1>3. Live' = Live
    BY <1>1 DEF Live
<1>4. BookShape'
    BY <1>1, <1>2 DEF BookInv, BookShape
<1>5. ListInv'
    BY <1>1, <1>3 DEF BookInv, ListInv
<1>6. CounterInv'
    BY <1>1, <1>2, <1>3, CountersKept DEF BookInv
<1>7. RowInv'
    BY <1>1, RowsKept DEF BookInv
<1> QED
    BY <1>4, <1>5, <1>6, <1>7 DEF BookInv

\* The next start: the list is what has a row, and the counters are those of SQLite.
LEMMA RelaunchStep == ASSUME BookInv, Relaunch PROVE BookInv'
<1> PICK rows : rows = {i \in Instance : mintRow[i] # "none"}
    OBVIOUS
<1> PICK sets : sets = [i \in Instance |-> {k \in Keyset : owner[k] = i}]
    OBVIOUS
<1> PICK zero : zero = [i \in Instance |-> [k \in Keyset |-> 0]]
    OBVIOUS
<1>1. /\ mintList' \in Oldest(rows) /\ held' = sets /\ observed' = rows /\ behind' = {}
      /\ urlOf' = [i \in Instance |-> IF i \in rows THEN mintRow[i]
                                      ELSE IF urlOf[i] = "none" THEN "none" ELSE "gone"]
      /\ counter' = Hydrated(mintList', sets, zero)
      /\ seedCounter' = [u \in Url |-> [k \in Keyset |-> 0]]
      /\ adding' = [i \in Instance |-> NotAdding] /\ refreshing' = NotRefreshing
      /\ UNCHANGED <<served, mintRow, owner, counterRow, signed, reused, unsure>>
    BY DEF Relaunch, ghostVars
<1>2. /\ mintRow \in [Instance -> Url \cup {"none"}] /\ owner \in [Keyset -> Instance \cup {0}]
      /\ counterRow \in [Keyset -> Nat]
    BY DEF BookInv, BookShape
<1>3. rows \subseteq Instance /\ Cardinality(rows) \in Nat
    <2>1. IsFiniteSet(Instance)
        BY MintBookAssumptions, FS_Interval DEF Instance
    <2> QED
        BY <2>1, FS_Subset, FS_CardinalityType
<1> PICK list : list = mintList'
    OBVIOUS
<1>4. /\ list \in [1 .. Cardinality(rows) -> rows] /\ ToSet(list) = rows
      /\ \A m, n \in DOMAIN list : m < n => list[m] < list[n]
    BY <1>1 DEF Oldest
<1>5. list \in Seq(Instance) /\ Live' = rows
    <2>1. list \in [1 .. Cardinality(rows) -> Instance]
        BY <1>3, <1>4
    <2>2. list \in Seq(Instance)
        BY <1>3, <2>1, SeqDef
    <2> QED
        BY <1>4, <2>2 DEF Live
<1>6. Once(list)
    <2>1. ASSUME NEW m \in DOMAIN list, NEW n \in DOMAIN list, list[m] = list[n] PROVE m = n
        <3>1. m \in Nat /\ n \in Nat /\ list[m] \in Int /\ list[n] \in Int
            BY <1>3, <1>4 DEF Instance
        <3>2. ~(m < n) /\ ~(n < m)
            BY <1>4, <2>1, <3>1
        <3> QED
            BY <3>1, <3>2
    <2> QED
        BY <2>1 DEF Once
<1>7. /\ counter' \in [Instance -> [Keyset -> Nat]]
      /\ \A i \in rows, k \in Keyset :
            k \in sets[i] /\ (\A j \in rows : k \in sets[j] => j = i)
               => counter'[i][k] >= counterRow[k]
    <2>1. zero \in [Instance -> [Keyset -> Nat]]
        OBVIOUS
    <2>2. counter' = Hydrated(list, sets, zero)
        BY <1>1
    <2> HIDE <1>1
    <2> QED
        BY <1>2, <1>4, <1>5, <2>1, <2>2, HydratedUp
<1>8. \A i \in Instance : sets[i] = {k \in Keyset : owner[k] = i}
    OBVIOUS
<1>9. \A i \in rows : urlOf'[i] = mintRow[i] /\ mintRow[i] \in Url
    BY <1>1, <1>2, <1>3
<1>10. BookShape'
    <2>1. urlOf' \in [Instance -> Url \cup {"none", "gone"}]
        BY <1>1, <1>2, <1>3
    <2>2. held' \in [Instance -> SUBSET Keyset]
        BY <1>1
    <2>3. seedCounter' \in [Url -> [Keyset -> Nat]]
        BY <1>1
    <2>4. adding' \in [Instance -> [step : {"none", "keysets", "keys", "shortname"},
                                    got : SUBSET Keyset]]
        BY <1>1 DEF NotAdding
    <2>5. /\ refreshing' \in [step : {"none", "keysets", "update", "sync"},
                              inst : Instance \cup {0}, url : Url \cup {"none"},
                              got : SUBSET Keyset]
          /\ refreshing'.step = "none"
        BY <1>1 DEF NotRefreshing
    <2> QED
        BY <1>1, <1>5, <1>7, <2>1, <2>2, <2>3, <2>4, <2>5 DEF BookInv, BookShape
<1>11. ListInv'
    <2>1. \A i \in Instance : adding'[i].step = "none"
        BY <1>1 DEF NotAdding
    <2> QED
        BY <1>1, <1>5, <1>6, <1>9, <2>1 DEF ListInv
<1>12. CounterInv'
    <2>1. ASSUME NEW i \in rows, NEW k \in sets[i]
          PROVE  /\ counter'[i][k] >= counterRow[k]
                 /\ \A j \in rows : k \in sets[j] => j = i
        <3>1. k \in Keyset /\ owner[k] = i
            BY <1>3, <1>8, <2>1
        <3>2. \A j \in rows : k \in sets[j] => j = i
            BY <1>3, <1>8, <3>1
        <3> QED
            BY <1>7, <2>1, <3>1, <3>2
    <2> QED
        <3>1. held' = sets /\ UNCHANGED <<counterRow, signed, reused, unsure>>
            BY <1>1
        <3>2. \A i \in Live' : \A k \in held'[i] \ unsure' :
                 /\ counter'[i][k] >= counterRow'[k]
                 /\ \A j \in Live' : k \in held'[j] => j = i
            <4> HIDE <1>1
            <4> QED
                BY <1>5, <2>1, <3>1
        <3>3. /\ \A k \in Keyset : \A n \in signed'[k] : n < counterRow'[k]
              /\ reused' \subseteq unsure'
            <4> HIDE <1>1
            <4> QED
                BY <3>1 DEF BookInv, CounterInv
        <3> QED
            BY <3>2, <3>3 DEF CounterInv
<1>13. RowInv'
    <2>1. ASSUME NEW i \in Instance
          PROVE  /\ i \in rows => urlOf'[i] = mintRow[i] /\ \A k \in sets[i] : owner[k] = i
                 /\ i \notin rows => mintRow[i] = "none" /\ \A k \in Keyset : owner[k] # i
        <3>1. i # 0
            BY MintBookAssumptions DEF Instance
        <3> QED
            BY <1>8, <1>9, <3>1 DEF BookInv, RowInv
    <2> QED
        BY <1>1, <1>5, <2>1 DEF BookInv, RowInv, BookIsOnDisk
<1> QED
    BY <1>10, <1>11, <1>12, <1>13 DEF BookInv

\* Every step keeps the invariant.
LEMMA BookStep == BookInv /\ [MintNext]_mintVars => BookInv'
<1> SUFFICES ASSUME BookInv, [MintNext]_mintVars PROVE BookInv'
    OBVIOUS
<1>1. ASSUME NEW u \in Url, AddStart(u) PROVE BookInv'
    BY <1>1, AddStartStep
<1>2. ASSUME NEW u \in Url, RefreshStart(u) PROVE BookInv'
    BY <1>2, RefreshStartStep
<1>3. ASSUME NEW i \in Instance, AddKeysets(i) \/ AddKeys(i) PROVE BookInv'
    BY <1>3, AddKeysStep
<1>4. ASSUME NEW i \in Instance, AddPush(i) PROVE BookInv'
    BY <1>4, AddPushStep
<1>5. ASSUME NEW i \in Instance, RemoveMint(i) PROVE BookInv'
    BY <1>5, RemoveMintStep
<1>6. ASSUME NEW i \in Instance, NEW u \in Url, SetMintUrl(i, u) PROVE BookInv'
    BY <1>6, SetMintUrlStep
<1>7. ASSUME NEW u \in Url, NEW k \in Keyset, Draw(u, k) PROVE BookInv'
    BY <1>7, DrawStep
<1>8. CASE RefreshKeysets
    BY <1>8, RefreshStartStep
<1>9. CASE RefreshKeys
    BY <1>9, RefreshKeysStep
<1>10. CASE HydrateCounters \/ Rotate
    BY <1>10, QuietStep
<1>11. CASE Relaunch
    BY <1>11, RelaunchStep
<1>12. CASE UNCHANGED mintVars
    BY <1>12 DEF mintVars, BookInv, BookShape, ListInv, CounterInv, RowInv, BookIsOnDisk, Live
<1> QED
    BY <1>1, <1>2, <1>3, <1>4, <1>5, <1>6, <1>7, <1>8, <1>9, <1>10, <1>11, <1>12 DEF MintNext

\* The book begins empty.
LEMMA BookBegins == MintInit => BookInv
<1> SUFFICES ASSUME MintInit PROVE BookInv
    OBVIOUS
<1>1. Live = {} /\ mintList = <<>> /\ 0 \notin Instance
    BY MintBookAssumptions DEF MintInit, Live, ToSet, Instance
<1>2. BookShape
    BY MintBookAssumptions DEF MintInit, BookShape, NotAdding, NotRefreshing
<1>3. ListInv
    BY <1>1 DEF MintInit, ListInv, Once, NotAdding
<1>4. CounterInv
    BY <1>1 DEF MintInit, CounterInv
<1>5. RowInv
    BY <1>1 DEF MintInit, RowInv, BookIsOnDisk
<1> QED
    BY <1>2, <1>3, <1>4, <1>5 DEF BookInv

\* NUT-13: no index of a keyset is derived twice, whatever mints are added, moved, removed and
\* added again, whatever refreshes run past them and wherever a restart comes between, unless
\* two mints of the list shared the keyset or a refresh met it anew behind its row.
THEOREM CountersNeverBehind == MintSpec => []OutputsFresh
<1>1. BookInv => OutputsFresh
    BY DEF BookInv, CounterInv, OutputsFresh
<1> QED
    BY <1>1, BookBegins, BookStep, PTL DEF MintSpec

\* The tables follow the list: a mint whose last write was not dropped is in its rows as it is
\* in memory, and one that is not in the list has none, so that no flow that still holds a
\* removed mint writes it back.
THEOREM RowsFollowTheList == MintSpec => []BookIsOnDisk
<1>1. BookInv => BookIsOnDisk
    BY DEF BookInv, RowInv
<1> QED
    BY <1>1, BookBegins, BookStep, PTL DEF MintSpec

-----------------------------------------------------------------------------
(* The seed and its counter.                                               *)

Place ==
    {"off", "schema", "stamp", "mints", "orphan", "hydrate", "counters", "backups", "terms",
     "version", "welcome", "orphaned", "enroll", "wallet", "recover", "enrollRecovered", "awake",
     "resetStores", "removeKeys"}

Holder == {"none", "mint", "backup"}

SnapshotRecord == [version : Nat, onboarded : BOOLEAN, index : Nat, holder : Holder]

AppRecord ==
    [at : Place, onboarded : BOOLEAN, version : Nat, mint : BOOLEAN, index : Nat,
     raw : [index : Nat, holder : Holder], fresh : BOOLEAN, orphan : BOOLEAN, lean : BOOLEAN,
     woken : BOOLEAN, copied : BOOLEAN, typed : Seed \cup {NoSeed}, from : Nat, walked : Nat,
     cache : [seed : Seed \cup {NoSeed}, next : Nat], call : [next : Nat, live : BOOLEAN]]

Shapes ==
    /\ keychain \in Seed \cup {NoSeed} /\ known \in SUBSET Seed
    /\ disk \in [schema : {"none", "unstamped", "old", "built"}, row : Nat, mint : BOOLEAN]
    /\ saved \in SnapshotRecord
    /\ app \in AppRecord
    /\ signedBy \in [Seed -> SUBSET Nat]
    /\ stray \in BOOLEAN

\* Who is onboarded has keys, at every step; what is typed, kept or signed with is known.
Keys ==
    /\ saved.onboarded => keychain # NoSeed
    /\ app.onboarded <=> app.at # "off" /\ saved.onboarded
    /\ app.at \in {"welcome", "orphaned", "enroll", "removeKeys"} => ~app.onboarded
    /\ app.at \in {"enroll", "enrollRecovered"} => keychain # NoSeed
    /\ app.at \in {"recover", "enrollRecovered"} => app.typed \in known
    /\ {keychain, app.cache.seed} \subseteq known \cup {NoSeed}
    /\ \A s \in Seed : signedBy[s] # {} => s \in known

KInv == Shapes /\ Keys

-----------------------------------------------------------------------------
Home == {"welcome", "orphaned", "enroll", "wallet", "recover", "enrollRecovered", "awake"}

\* The steps of the launch until the snapshot is stripped, those that know the schema is
\* there, and those with the counter in memory.
Raw == {"schema", "stamp", "mints", "orphan", "hydrate", "counters", "backups", "terms"}
Migrating == {"counters", "backups", "terms", "version"}
WithSchema == {"mints", "orphan", "hydrate"} \cup Migrating \cup Home

InFlight == app.call # NoDraw

\* What the mint signed for the stored seed lies below a counter that will be found.
Covered ==
    keychain # NoSeed /\ ~stray =>
        \A i \in signedBy[keychain] :
            i < Higher(disk.row, Carried(saved)) \/ (InFlight /\ i < app.call.next)

CacheCovers ==
    app.cache.seed # NoSeed => \A i \in signedBy[app.cache.seed] : i < app.cache.next

Calls == InFlight => app.call.live /\ app.cache.seed # NoSeed /\ app.at \in Home

\* No counter is left in the snapshot.
Settled == saved.holder = "none" \/ saved.version >= RootVersion

Launch ==
    /\ app.at \in WithSchema => disk.schema = "built"
    /\ app.at \in Raw =>
        /\ app.version = saved.version
        /\ app.raw = [index |-> saved.index, holder |-> saved.holder]
    /\ app.at = "backups" /\ saved.holder = "mint" => disk.row >= Carried(saved)
    /\ app.at \in {"terms", "version"} => disk.row >= Carried(saved)
    /\ app.at \in Home \cup {"resetStores", "removeKeys"} => Settled
    /\ app.at \in Migrating \cup Home /\ app.mint /\ app.cache.seed = NoSeed =>
        app.index >= disk.row

\* A counter among the backups is that of a mint the wallet does not have.
Backups ==
    saved.holder = "backup" /\ saved.version < BackupsMoved =>
        ~disk.mint /\ (app.at \in Raw => ~app.mint)

\* A seed without its counter is met by the choice of the user, or not at all.
Strays ==
    /\ stray => keychain # NoSeed
    /\ stray /\ saved.onboarded => app.at = "resetStores"
    /\ app.at \in {"enroll", "enrollRecovered"} => ~stray

Walked == app.at \in {"recover", "enrollRecovered"} => disk.row >= app.walked

Counting ==
    /\ repeated = {} /\ Covered /\ CacheCovers /\ Calls /\ Launch /\ Backups /\ Strays /\ Walked

IInv == KInv /\ (doubts = {} => Counting)

-----------------------------------------------------------------------------
(* The steps of SeedNext, by what they belong to.                          *)

Launches ==
    \/ \E lean \in BOOLEAN : Start(lean)
    \/ Open
    \/ OpenSchema
    \/ StampSchema
    \/ HydrateMints
    \/ CaptureOrphanedSeed
    \/ HydrateIndex
    \/ MigrateCounters
    \/ MigrateBackups
    \/ MigrateTerms
    \/ SetVersion

Onboards ==
    \/ GotoWallet
    \/ AddDefaultMint
    \/ Enrolled
    \/ EnrollFails
    \/ CopySeed
    \/ BackToWelcome
    \/ StartFresh

Recovers ==
    \/ \E s \in Seed : EnterRecovery(s)
    \/ LeaveRecovery
    \/ Round
    \/ RoundFails
    \/ ResetStartIndex
    \/ SaveRecovered

Draws ==
    \/ StartDraw
    \/ EndDraw
    \/ DrawFails

Ends ==
    \/ CleanAll
    \/ ResetStores
    \/ RemoveKeys
    \/ SaveSnapshot
    \/ Kill
    \/ \E keeps \in BOOLEAN : Reinstall(keeps)

\* The constants, and the places of the process one by one.
LEMMA Names ==
    /\ NoSeed \notin Seed /\ RestoreInterval \in Nat /\ RootVersion \in Nat
    /\ "none" \in Holder
    /\ "off" \in Place /\ "schema" \in Place /\ "stamp" \in Place /\ "mints" \in Place
    /\ "orphan" \in Place /\ "hydrate" \in Place /\ "counters" \in Place
    /\ "backups" \in Place /\ "terms" \in Place /\ "version" \in Place /\ "welcome" \in Place
    /\ "orphaned" \in Place /\ "enroll" \in Place /\ "wallet" \in Place
    /\ "recover" \in Place /\ "enrollRecovered" \in Place /\ "awake" \in Place
    /\ "resetStores" \in Place /\ "removeKeys" \in Place
    BY WalletSeedAssumptions DEF WalletSeedAssumptions, RootVersion, Place, Holder

\* What a seeding of counters leaves alone.
LEMMA Seeding ==
    ASSUME KInv, NEW holder, NEW moved, NEW next \in Place, SeedCounters(holder, moved, next),
           UNCHANGED <<keychain, saved, ghostsOfSeed>>
    PROVE  /\ Shapes'
           /\ app'.onboarded = app.onboarded /\ app'.at \in {next, AtHome(app)}
           /\ app'.typed = app.typed /\ app'.cache = app.cache
<1> USE Names DEF KInv, Shapes, SnapshotRecord, AppRecord, ghostsOfSeed
<1> DEFINE row == Higher(disk.row, app.raw.index)
           index == IF app.mint /\ holder = "mint" THEN Higher(app.index, row) ELSE app.index
<1>1. index \in Nat /\ row \in Nat
    BY DEF Higher
<1>2. AtHome(app) \in Place
    BY DEF AtHome
<1>3. CASE /\ disk' = [disk EXCEPT !.row = Higher(@, app.raw.index)]
           /\ app' = [app EXCEPT !.at = next,
                                !.index = IF app.mint /\ holder = "mint"
                                          THEN Higher(@, disk'.row) ELSE @]
  <2>1. disk' = [disk EXCEPT !.row = row]
      BY <1>3
  <2>2. disk'.row = row
      BY <2>1
  <2>3. app' = [app EXCEPT !.at = next, !.index = index]
      BY <1>3, <2>2
  <2> HIDE DEF index, row
  <2> QED
      BY <1>1, <2>1, <2>3
<1>4. CASE app' = [app EXCEPT !.at = AtHome(app)] /\ UNCHANGED disk
    BY <1>2, <1>4
<1>5. CASE app' = [app EXCEPT !.at = next] /\ UNCHANGED disk
    BY <1>5
<1> QED
    BY <1>3, <1>4, <1>5 DEF SeedCounters

LEMMA ShapesOfLaunch == KInv /\ Launches => Shapes'
<1> SUFFICES ASSUME KInv, Launches PROVE Shapes'
    OBVIOUS
<1> USE Names DEF KInv, Shapes, SnapshotRecord, AppRecord, ghostsOfSeed
<1>1. CASE \E lean \in BOOLEAN : Start(lean)
  <2> DEFINE holding == saved.holder = "mint"
  <2>1. holding \in BOOLEAN
      OBVIOUS
  <2>2. PICK lean \in BOOLEAN : Start(lean)
      BY <1>1
  <2>3. /\ app' = [app EXCEPT !.at = "schema", !.version = saved.version, !.lean = lean,
                             !.onboarded = saved.onboarded, !.mint = holding,
                             !.raw = [index |-> saved.index, holder |-> saved.holder]]
        /\ UNCHANGED <<keychain, disk, saved, ghostsOfSeed>>
      BY <2>2 DEF Start
  <2> HIDE DEF holding
  <2> QED
      BY <2>1, <2>3
<1>2. CASE Open
  <2> DEFINE holding == saved.holder = "mint"
             call == [app.call EXCEPT !.live = FALSE]
             raw == [index |-> saved.index, holder |-> saved.holder]
             half == [app EXCEPT !.at = "mints", !.version = saved.version, !.lean = FALSE,
                                 !.woken = TRUE, !.onboarded = saved.onboarded]
  <2>1. holding \in BOOLEAN /\ call \in [next : Nat, live : BOOLEAN]
        /\ raw \in [index : Nat, holder : Holder]
        /\ NoCache \in [seed : Seed \cup {NoSeed}, next : Nat]
      BY DEF NoCache
  <2>2. half \in AppRecord
      OBVIOUS
  <2>3. /\ app' = [half EXCEPT !.mint = holding, !.index = 0, !.cache = NoCache, !.call = call,
                               !.raw = raw]
        /\ UNCHANGED <<keychain, disk, saved, ghostsOfSeed>>
      BY <1>2 DEF Open
  <2> HIDE DEF holding, call, raw, half
  <2>4. app' \in AppRecord
      BY <2>1, <2>2, <2>3
  <2> QED
      BY <2>3, <2>4
<1>3. CASE OpenSchema
    BY <1>3 DEF OpenSchema, AfterHydration, AtHome, Fault
<1>4. CASE StampSchema
    BY <1>4 DEF StampSchema
<1>5. CASE HydrateMints
  <2> DEFINE holding == disk.mint \/ app.mint
  <2>1. holding \in BOOLEAN
      OBVIOUS
  <2>2. UNCHANGED <<keychain, saved, ghostsOfSeed>>
      BY <1>5 DEF HydrateMints
  <2>3. CASE disk.schema = "built"
    <3>1. disk' = [disk EXCEPT !.mint = holding]
        BY <1>5, <2>3 DEF HydrateMints
    <3>2. disk'.mint = holding
        BY <3>1
    <3>3. app' = [app EXCEPT !.at = "orphan", !.mint = holding, !.index = 0]
        BY <1>5, <2>3, <3>2 DEF HydrateMints
    <3> HIDE DEF holding
    <3> QED
        BY <2>1, <2>2, <3>1, <3>3
  <2>4. CASE disk.schema # "built"
      BY <1>5, <2>2, <2>4 DEF HydrateMints, AfterHydration, AtHome
  <2> QED
      BY <2>3, <2>4
<1>6. CASE CaptureOrphanedSeed
  <2> DEFINE found == app.fresh /\ keychain # NoSeed
  <2>1. found \in BOOLEAN
      OBVIOUS
  <2>2. app' = [app EXCEPT !.at = "hydrate", !.orphan = IF app.woken THEN @ ELSE found,
                         !.fresh = FALSE]
      BY <1>6 DEF CaptureOrphanedSeed
  <2>3. UNCHANGED <<keychain, disk, saved, ghostsOfSeed>>
      BY <1>6 DEF CaptureOrphanedSeed
  <2> HIDE DEF found
  <2> QED
      BY <2>1, <2>2, <2>3
<1>7. CASE HydrateIndex
    BY <1>7 DEF HydrateIndex, AfterHydration, AtHome, Higher
<1>8. CASE MigrateCounters
    BY <1>8, Seeding DEF MigrateCounters
<1>9. CASE MigrateBackups
    BY <1>9, Seeding DEF MigrateBackups
<1>10. CASE MigrateTerms
  <2>1. CASE app.version < TermsChanged
    <3>1. app' = [app EXCEPT !.at = "version", !.onboarded = FALSE] /\ saved' = Stripped(app')
        BY <1>10, <2>1 DEF MigrateTerms
    <3>2. UNCHANGED <<keychain, disk, ghostsOfSeed>>
        BY <1>10 DEF MigrateTerms
    <3>3. /\ app' \in AppRecord /\ app'.at = "version" /\ ~app'.onboarded
          /\ app'.typed = app.typed /\ app'.cache = app.cache
        BY <3>1
    <3>4. saved' \in SnapshotRecord /\ ~saved'.onboarded
        BY <3>1, <3>3 DEF Stripped
    <3> QED
        BY <3>2, <3>3, <3>4
  <2>2. CASE ~(app.version < TermsChanged)
      BY <1>10, <2>2 DEF MigrateTerms
  <2> QED
      BY <2>1, <2>2
<1>11. CASE SetVersion
    BY <1>11 DEF SetVersion, AtHome, Stripped, Nothing, RootVersion
<1> QED
    BY <1>1, <1>2, <1>3, <1>4, <1>5, <1>6, <1>7, <1>8, <1>9, <1>10, <1>11 DEF Launches

LEMMA ShapesOfOnboarding == KInv /\ Onboards => Shapes'
<1> SUFFICES ASSUME KInv, Onboards PROVE Shapes'
    OBVIOUS
<1> USE Names DEF KInv, Shapes, SnapshotRecord, AppRecord, ghostsOfSeed
<1>1. CASE GotoWallet
  <2>1. CASE /\ app.at = "welcome" /\ keychain # NoSeed
             /\ app' = [app EXCEPT !.at = "orphaned", !.copied = FALSE]
             /\ UNCHANGED <<keychain, known, disk, saved, signedBy, stray>>
      BY <2>1
  <2>2. CASE /\ app.at = "welcome" /\ keychain # NoSeed /\ app' = [app EXCEPT !.at = "enroll"]
             /\ UNCHANGED <<keychain, known, disk, saved, signedBy, stray>>
      BY <2>2
  <2>3. ASSUME NEW s \in Seed \ known, app.at = "welcome", keychain' = s,
               known' = known \cup {s}, app' = [app EXCEPT !.at = "enroll"],
               UNCHANGED <<disk, saved, signedBy, stray>>
        PROVE  Shapes'
      BY <2>3
  <2> QED
      BY <1>1, <2>1, <2>2, <2>3 DEF GotoWallet
<1>2. CASE AddDefaultMint
    BY <1>2 DEF AddDefaultMint, Higher
<1>3. CASE Enrolled
    BY <1>3 DEF Enrolled, Stripped
<1>4. CASE EnrollFails
    BY <1>4 DEF EnrollFails, Fault
<1>5. CASE CopySeed
    BY <1>5 DEF CopySeed
<1>6. CASE BackToWelcome
    BY <1>6 DEF BackToWelcome
<1>7. CASE StartFresh
    BY <1>7 DEF StartFresh
<1> QED
    BY <1>1, <1>2, <1>3, <1>4, <1>5, <1>6, <1>7 DEF Onboards

LEMMA ShapesOfRecovery == KInv /\ Recovers => Shapes'
<1> SUFFICES ASSUME KInv, Recovers PROVE Shapes'
    OBVIOUS
<1> USE Names DEF KInv, Shapes, SnapshotRecord, AppRecord, ghostsOfSeed
<1>1. CASE \E s \in Seed : EnterRecovery(s)
  <2>1. PICK s \in Seed : EnterRecovery(s)
      BY <1>1
  <2> QED
      BY <2>1 DEF EnterRecovery
<1>2. CASE LeaveRecovery
    BY <1>2 DEF LeaveRecovery, AtHome
<1>3. CASE Round
  <2> DEFINE from == app.from + RestoreInterval
             index == app.index + RestoreInterval
             row == disk.row + RestoreInterval
             walked == IF app.from = app.walked THEN app.walked + RestoreInterval ELSE app.walked
  <2>1. {from, index, row, walked} \subseteq Nat
      OBVIOUS
  <2>2. \/ /\ disk' = [disk EXCEPT !.row = row]
           /\ app' = [app EXCEPT !.from = from, !.index = index, !.walked = walked]
        \/ app' = [app EXCEPT !.from = from] /\ UNCHANGED disk
      BY <1>3 DEF Round, RoundMoves
  <2>3. UNCHANGED <<keychain, saved, ghostsOfSeed>> /\ app.at = "recover"
      BY <1>3 DEF Round
  <2> HIDE DEF from, index, row, walked
  <2>4. CASE app' = [app EXCEPT !.from = from] /\ UNCHANGED disk
      BY <2>1, <2>3, <2>4
  <2>5. CASE /\ disk' = [disk EXCEPT !.row = row]
             /\ app' = [app EXCEPT !.from = from, !.index = index, !.walked = walked]
    <3>1. disk' \in [schema : {"none", "unstamped", "old", "built"}, row : Nat, mint : BOOLEAN]
        BY <2>1, <2>5
    <3>2. /\ app' \in AppRecord /\ app'.at = app.at /\ app'.onboarded = app.onboarded
          /\ app'.typed = app.typed /\ app'.cache = app.cache
        BY <2>1, <2>5
    <3> QED
        BY <2>3, <3>1, <3>2
  <2> QED
      BY <2>2, <2>4, <2>5
<1>4. CASE RoundFails
    BY <1>4 DEF RoundFails, RoundMoves, Fault
<1>5. CASE ResetStartIndex
    BY <1>5 DEF ResetStartIndex, Rounds
<1>6. CASE SaveRecovered
    BY <1>6 DEF SaveRecovered
<1> QED
    BY <1>1, <1>2, <1>3, <1>4, <1>5, <1>6 DEF Recovers

LEMMA ShapesOfDraws == KInv /\ Draws => Shapes'
<1> SUFFICES ASSUME KInv, Draws PROVE Shapes'
    OBVIOUS
<1> USE Names DEF KInv, Shapes, SnapshotRecord, AppRecord, ghostsOfSeed
<1>1. CASE StartDraw
  <2> DEFINE s == IF app.cache.seed = NoSeed THEN keychain ELSE app.cache.seed
             i == Higher(app.cache.next, app.index)
             j == i + 1
  <2>1. s \in Seed /\ i \in Nat /\ j \in Nat
      BY <1>1 DEF StartDraw, Higher
  <2>2. /\ app' = [app EXCEPT !.cache = [seed |-> s, next |-> j],
                             !.call = [next |-> j, live |-> TRUE]]
        /\ signedBy' = [signedBy EXCEPT ![s] = @ \cup {i}] \/ UNCHANGED signedBy
        /\ UNCHANGED <<keychain, disk, saved, known, stray>>
      BY <1>1 DEF StartDraw
  <2> HIDE DEF s, i, j
  <2>3. app' \in AppRecord
      BY <2>1, <2>2
  <2>4. signedBy' \in [Seed -> SUBSET Nat]
      BY <2>1, <2>2
  <2> QED
      BY <2>2, <2>3, <2>4
<1>2. CASE EndDraw
    BY <1>2 DEF EndDraw, Higher, NoDraw
<1>3. CASE DrawFails
    BY <1>3 DEF DrawFails, Fault, NoDraw
<1> QED
    BY <1>1, <1>2, <1>3 DEF Draws

LEMMA ShapesOfEnds == KInv /\ Ends => Shapes'
<1> SUFFICES ASSUME KInv, Ends PROVE Shapes'
    OBVIOUS
<1> USE Names DEF KInv, Shapes, SnapshotRecord, AppRecord, ghostsOfSeed
<1>1. CASE CleanAll
    BY <1>1 DEF CleanAll, EmptyDisk, Wipes
<1>2. CASE ResetStores
    BY <1>2 DEF ResetStores, Off, Stripped, Nothing, NoCache, NoDraw
<1>3. CASE RemoveKeys
    BY <1>3 DEF RemoveKeys, Off, Nothing, NoCache, NoDraw, RootVersion
<1>4. CASE SaveSnapshot
    BY <1>4 DEF SaveSnapshot, Stripped
<1>5. CASE Kill
    BY <1>5 DEF Kill, Off, Nothing, NoCache, NoDraw, RootVersion
<1>6. CASE \E keeps \in BOOLEAN : Reinstall(keeps)
    BY <1>6 DEF Reinstall, EmptyDisk, EmptySnapshot, Wipes, RootVersion
<1> QED
    BY <1>1, <1>2, <1>3, <1>4, <1>5, <1>6 DEF Ends

LEMMA KeysOfLaunch == KInv /\ Launches => Keys'
<1> SUFFICES ASSUME KInv, Launches PROVE Keys'
    OBVIOUS
<1> USE Names DEF KInv, Shapes, Keys, SnapshotRecord, AppRecord, ghostsOfSeed
<1>1. CASE \E lean \in BOOLEAN : Start(lean)
    BY <1>1 DEF Start
<1>2. CASE Open
    BY <1>2 DEF Open, NoCache
<1>3. CASE OpenSchema
    BY <1>3 DEF OpenSchema, AfterHydration, AtHome, Fault
<1>4. CASE StampSchema
    BY <1>4 DEF StampSchema
<1>5. CASE HydrateMints
  <2> DEFINE holding == disk.mint \/ app.mint
  <2>1. holding \in BOOLEAN
      OBVIOUS
  <2>2. UNCHANGED <<keychain, saved, ghostsOfSeed>>
      BY <1>5 DEF HydrateMints
  <2>3. CASE disk.schema = "built"
    <3>1. disk' = [disk EXCEPT !.mint = holding]
        BY <1>5, <2>3 DEF HydrateMints
    <3>2. disk'.mint = holding
        BY <3>1
    <3>3. app' = [app EXCEPT !.at = "orphan", !.mint = holding, !.index = 0]
        BY <1>5, <2>3, <3>2 DEF HydrateMints
    <3> HIDE DEF holding
    <3> QED
        BY <2>1, <2>2, <3>1, <3>3, <1>5 DEF HydrateMints
  <2>4. CASE disk.schema # "built"
      BY <1>5, <2>2, <2>4 DEF HydrateMints, AfterHydration, AtHome
  <2> QED
      BY <2>3, <2>4
<1>6. CASE CaptureOrphanedSeed
    BY <1>6 DEF CaptureOrphanedSeed
<1>7. CASE HydrateIndex
    BY <1>7 DEF HydrateIndex, AfterHydration, AtHome, Higher
<1>8. CASE MigrateCounters
  <2>1. /\ UNCHANGED <<keychain, saved, ghostsOfSeed>>
        /\ app'.onboarded = app.onboarded /\ app'.at \in {"backups", "terms", AtHome(app)}
        /\ app'.typed = app.typed /\ app'.cache = app.cache
      BY <1>8, Seeding DEF MigrateCounters
  <2> QED
      BY <1>8, <2>1 DEF AtHome, MigrateCounters
<1>9. CASE MigrateBackups
  <2>1. /\ UNCHANGED <<keychain, saved, ghostsOfSeed>>
        /\ app'.onboarded = app.onboarded /\ app'.at \in {"backups", "terms", AtHome(app)}
        /\ app'.typed = app.typed /\ app'.cache = app.cache
      BY <1>9, Seeding DEF MigrateBackups
  <2> QED
      BY <1>9, <2>1 DEF AtHome, MigrateBackups
<1>10. CASE MigrateTerms
  <2>1. CASE app.version < TermsChanged
    <3>1. app' = [app EXCEPT !.at = "version", !.onboarded = FALSE] /\ saved' = Stripped(app')
        BY <1>10, <2>1 DEF MigrateTerms
    <3>2. UNCHANGED <<keychain, disk, ghostsOfSeed>>
        BY <1>10 DEF MigrateTerms
    <3>3. /\ app' \in AppRecord /\ app'.at = "version" /\ ~app'.onboarded
          /\ app'.typed = app.typed /\ app'.cache = app.cache
        BY <3>1
    <3>4. saved' \in SnapshotRecord /\ ~saved'.onboarded
        BY <3>1, <3>3 DEF Stripped
    <3> QED
        BY <3>2, <3>3, <3>4
  <2>2. CASE ~(app.version < TermsChanged)
      BY <1>10, <2>2 DEF MigrateTerms
  <2> QED
      BY <2>1, <2>2
<1>11. CASE SetVersion
    BY <1>11 DEF SetVersion, AtHome, Stripped, Nothing, RootVersion
<1> QED
    BY <1>1, <1>2, <1>3, <1>4, <1>5, <1>6, <1>7, <1>8, <1>9, <1>10, <1>11 DEF Launches

LEMMA KeysOfOnboarding == KInv /\ Onboards => Keys'
<1> SUFFICES ASSUME KInv, Onboards PROVE Keys'
    OBVIOUS
<1> USE Names DEF KInv, Shapes, Keys, SnapshotRecord, AppRecord, ghostsOfSeed
<1>1. CASE GotoWallet
  <2>1. CASE /\ app.at = "welcome" /\ keychain # NoSeed
             /\ app' = [app EXCEPT !.at = "orphaned", !.copied = FALSE]
             /\ UNCHANGED <<keychain, known, disk, saved, signedBy, stray>>
      BY <2>1
  <2>2. CASE /\ app.at = "welcome" /\ keychain # NoSeed /\ app' = [app EXCEPT !.at = "enroll"]
             /\ UNCHANGED <<keychain, known, disk, saved, signedBy, stray>>
      BY <2>2
  <2>3. ASSUME NEW s \in Seed \ known, app.at = "welcome", keychain' = s,
               known' = known \cup {s}, app' = [app EXCEPT !.at = "enroll"],
               UNCHANGED <<disk, saved, signedBy, stray>>
        PROVE  Keys'
      BY <2>3
  <2> QED
      BY <1>1, <2>1, <2>2, <2>3 DEF GotoWallet
<1>2. CASE AddDefaultMint
    BY <1>2 DEF AddDefaultMint, Higher
<1>3. CASE Enrolled
    BY <1>3 DEF Enrolled, Stripped
<1>4. CASE EnrollFails
    BY <1>4 DEF EnrollFails, Fault
<1>5. CASE CopySeed
    BY <1>5 DEF CopySeed
<1>6. CASE BackToWelcome
    BY <1>6 DEF BackToWelcome
<1>7. CASE StartFresh
    BY <1>7 DEF StartFresh
<1> QED
    BY <1>1, <1>2, <1>3, <1>4, <1>5, <1>6, <1>7 DEF Onboards

LEMMA KeysOfRecovery == KInv /\ Recovers => Keys'
<1> SUFFICES ASSUME KInv, Recovers PROVE Keys'
    OBVIOUS
<1> USE Names DEF KInv, Shapes, Keys, SnapshotRecord, AppRecord, ghostsOfSeed
<1>1. CASE \E s \in Seed : EnterRecovery(s)
    BY <1>1 DEF EnterRecovery
<1>2. CASE LeaveRecovery
    BY <1>2 DEF LeaveRecovery, AtHome
<1>3. CASE Round
  <2> DEFINE from == app.from + RestoreInterval
             index == app.index + RestoreInterval
             row == disk.row + RestoreInterval
             walked == IF app.from = app.walked THEN app.walked + RestoreInterval ELSE app.walked
  <2>1. {from, index, row, walked} \subseteq Nat
      OBVIOUS
  <2>2. \/ /\ disk' = [disk EXCEPT !.row = row]
           /\ app' = [app EXCEPT !.from = from, !.index = index, !.walked = walked]
        \/ app' = [app EXCEPT !.from = from] /\ UNCHANGED disk
      BY <1>3 DEF Round, RoundMoves
  <2>3. UNCHANGED <<keychain, saved, ghostsOfSeed>> /\ app.at = "recover"
      BY <1>3 DEF Round
  <2> HIDE DEF from, index, row, walked
  <2>4. CASE app' = [app EXCEPT !.from = from] /\ UNCHANGED disk
      BY <2>1, <2>3, <2>4
  <2>5. CASE /\ disk' = [disk EXCEPT !.row = row]
             /\ app' = [app EXCEPT !.from = from, !.index = index, !.walked = walked]
    <3>1. disk' \in [schema : {"none", "unstamped", "old", "built"}, row : Nat, mint : BOOLEAN]
        BY <2>1, <2>5
    <3>2. /\ app' \in AppRecord /\ app'.at = app.at /\ app'.onboarded = app.onboarded
          /\ app'.typed = app.typed /\ app'.cache = app.cache
        BY <2>1, <2>5
    <3> QED
        BY <2>3, <3>1, <3>2
  <2> QED
      BY <2>2, <2>4, <2>5
<1>4. CASE RoundFails
    BY <1>4 DEF RoundFails, RoundMoves, Fault
<1>5. CASE ResetStartIndex
    BY <1>5 DEF ResetStartIndex, Rounds
<1>6. CASE SaveRecovered
    BY <1>6 DEF SaveRecovered
<1> QED
    BY <1>1, <1>2, <1>3, <1>4, <1>5, <1>6 DEF Recovers

LEMMA KeysOfDraws == KInv /\ Draws => Keys'
<1> SUFFICES ASSUME KInv, Draws PROVE Keys'
    OBVIOUS
<1> USE Names DEF KInv, Shapes, Keys, SnapshotRecord, AppRecord, ghostsOfSeed
<1>1. CASE StartDraw
    BY <1>1 DEF StartDraw, MayDraw, Higher
<1>2. CASE EndDraw
    BY <1>2 DEF EndDraw, Higher, NoDraw
<1>3. CASE DrawFails
    BY <1>3 DEF DrawFails, Fault, NoDraw
<1> QED
    BY <1>1, <1>2, <1>3 DEF Draws

LEMMA KeysOfEnds == KInv /\ Ends => Keys'
<1> SUFFICES ASSUME KInv, Ends PROVE Keys'
    OBVIOUS
<1> USE Names DEF KInv, Shapes, Keys, SnapshotRecord, AppRecord, ghostsOfSeed
<1>1. CASE CleanAll
    BY <1>1 DEF CleanAll, EmptyDisk, Wipes
<1>2. CASE ResetStores
    BY <1>2 DEF ResetStores, Off, Stripped, Nothing, NoCache, NoDraw
<1>3. CASE RemoveKeys
    BY <1>3 DEF RemoveKeys, Off, Nothing, NoCache, NoDraw, RootVersion
<1>4. CASE SaveSnapshot
    BY <1>4 DEF SaveSnapshot, Stripped
<1>5. CASE Kill
    BY <1>5 DEF Kill, Off, Nothing, NoCache, NoDraw, RootVersion
<1>6. CASE \E keeps \in BOOLEAN : Reinstall(keeps)
    BY <1>6 DEF Reinstall, EmptyDisk, EmptySnapshot, Wipes, RootVersion
<1> QED
    BY <1>1, <1>2, <1>3, <1>4, <1>5, <1>6 DEF Ends

-----------------------------------------------------------------------------
LEMMA NextInGroups == SeedNext => Launches \/ Onboards \/ Recovers \/ Draws \/ Ends
    BY DEF SeedNext, Launches, Onboards, Recovers, Draws, Ends

LEMMA KInvInit == SeedInit => KInv
<1> SUFFICES ASSUME SeedInit PROVE KInv
    OBVIOUS
<1>1. PICK p \in Phones :
        /\ keychain = p.keychain /\ known = p.known /\ app = Off
        /\ disk = [schema |-> p.schema, row |-> p.row, mint |-> p.mint]
        /\ saved = [version |-> p.version, onboarded |-> p.onboarded, index |-> p.held,
                    holder |-> p.holder]
        /\ signedBy = [s \in Seed |-> IF s \in p.known THEN p.signed ELSE {}]
        /\ stray = FALSE
    BY DEF SeedInit
<1>2. /\ p.known \in SUBSET Seed /\ p.keychain \in p.known \cup {NoSeed}
      /\ p.signed \in SUBSET Nat
      /\ p.schema \in {"none", "old", "built"} /\ p.holder \in {"none", "mint", "backup"}
      /\ p.row \in Nat /\ p.held \in Nat /\ p.version \in Nat
      /\ p.mint \in BOOLEAN /\ p.onboarded \in BOOLEAN
      /\ p.onboarded => p.keychain # NoSeed
    BY WalletSeedAssumptions DEF WalletSeedAssumptions
<1>3. app \in AppRecord
    BY <1>1, Names DEF Off, AppRecord, Nothing, NoCache, NoDraw
<1>4. saved \in SnapshotRecord
    BY <1>1, <1>2 DEF SnapshotRecord, Holder
<1>5. Shapes
    BY <1>1, <1>2, <1>3, <1>4 DEF Shapes
<1>6. Keys
    BY <1>1, <1>2, Names DEF Keys, Off, NoCache
<1> QED
    BY <1>5, <1>6 DEF KInv

LEMMA KInvStep == KInv /\ [SeedNext]_seedVars => KInv'
<1> SUFFICES ASSUME KInv, [SeedNext]_seedVars PROVE KInv'
    OBVIOUS
<1>1. CASE SeedNext
    BY <1>1, NextInGroups, ShapesOfLaunch, ShapesOfOnboarding, ShapesOfRecovery, ShapesOfDraws,
       ShapesOfEnds, KeysOfLaunch, KeysOfOnboarding, KeysOfRecovery, KeysOfDraws, KeysOfEnds
       DEF KInv
<1>2. CASE UNCHANGED seedVars
    BY <1>2 DEF seedVars, KInv, Shapes, Keys
<1> QED
    BY <1>1, <1>2

\* Who is onboarded has keys, for any seeds, phones and bounds and through any launches, kills,
\* reinstalls and resets: the enrolment is the last step of the onboarding, the keys are the last
\* thing the factory reset removes (DeveloperScreen, WelcomeScreen, SeedRecoveryScreen).
THEOREM OnboardedKeepsKeys == SeedSpec => []OnboardedHasKeys
<1>1. KInv => OnboardedHasKeys
    BY DEF KInv, Keys, OnboardedHasKeys
<1> QED
    BY <1>1, KInvInit, KInvStep, PTL DEF SeedSpec

-----------------------------------------------------------------------------
\* The process that is reopened has no call to cut.
LEMMA CutIdle ==
    ASSUME NEW call \in [next : Nat, live : BOOLEAN], ~call.live
    PROVE  [call EXCEPT !.live = FALSE] = call
    OBVIOUS

LEMMA CountingOfLaunch == KInv /\ Counting /\ Launches /\ doubts' = {} => Counting'
<1> SUFFICES ASSUME KInv, Counting, Launches, doubts' = {} PROVE Counting'
    OBVIOUS
<1> USE Names DEF KInv, Shapes, Keys, SnapshotRecord, AppRecord, ghostsOfSeed, Counting, Covered,
        CacheCovers, Calls, Launch, Backups, Strays, Walked, Home, Raw, Migrating, WithSchema,
        InFlight, Settled, Higher, Carried, NoDraw, NoCache, CountersMoved, BackupsMoved,
        TermsChanged, RootVersion
<1>1. CASE \E lean \in BOOLEAN : Start(lean)
    BY <1>1 DEF Start
<1>2. CASE Open
  <2> DEFINE holding == saved.holder = "mint"
             raw == [index |-> saved.index, holder |-> saved.holder]
  <2>1. app.call = NoDraw /\ app.at = "awake" /\ UNCHANGED <<keychain, disk, saved, ghostsOfSeed>>
      BY <1>2 DEF Open
  <2>2. /\ app'.at = "mints" /\ app'.version = saved.version /\ app'.mint = holding
        /\ app'.index = 0 /\ app'.cache = NoCache /\ app'.raw = raw
        /\ app'.call = [app.call EXCEPT !.live = FALSE]
      BY <1>2 DEF Open
  <2>3. app'.call = NoDraw
    <3>1. app.call \in [next : Nat, live : BOOLEAN] /\ ~app.call.live
        BY <2>1
    <3>2. app'.call = app.call
        BY <2>2, <3>1, CutIdle
    <3> QED
        BY <2>1, <3>2
  <2> QED
      BY <2>1, <2>2, <2>3
<1>3. CASE OpenSchema
  <2>1. /\ UNCHANGED <<keychain, saved, ghostsOfSeed>> /\ app.at = "schema"
        /\ disk'.row = disk.row /\ disk'.mint = disk.mint
      BY <1>3 DEF OpenSchema
  <2>2. \/ app' = [app EXCEPT !.at = "stamp"]
        \/ app' = [app EXCEPT !.at = "mints"] /\ disk'.schema = "built"
      BY <1>3 DEF OpenSchema
  <2>3. CASE app' = [app EXCEPT !.at = "stamp"]
      BY <2>1, <2>3
  <2>4. CASE app' = [app EXCEPT !.at = "mints"] /\ disk'.schema = "built"
      BY <2>1, <2>4
  <2> QED
      BY <2>2, <2>3, <2>4
<1>4. CASE StampSchema
    BY <1>4 DEF StampSchema
<1>5. CASE HydrateMints
  <2> DEFINE holding == disk.mint \/ app.mint
  <2>1. disk.schema = "built" /\ UNCHANGED <<keychain, saved, ghostsOfSeed>> /\ app.at = "mints"
      BY <1>5 DEF HydrateMints
  <2>2. disk' = [disk EXCEPT !.mint = holding]
      BY <1>5, <2>1 DEF HydrateMints
  <2>3. disk'.mint = holding /\ disk'.row = disk.row /\ disk'.schema = "built"
      BY <2>1, <2>2
  <2>4. app' = [app EXCEPT !.at = "orphan", !.mint = holding, !.index = 0]
      BY <1>5, <2>1, <2>3 DEF HydrateMints
  <2>5. holding <=> disk.mint \/ app.mint
      OBVIOUS
  <2> HIDE DEF holding
  <2> QED
      BY <2>1, <2>3, <2>4, <2>5
<1>6. CASE CaptureOrphanedSeed
    BY <1>6 DEF CaptureOrphanedSeed
<1>7. CASE HydrateIndex
    BY <1>7 DEF HydrateIndex, AfterHydration, AtHome
<1>8. CASE MigrateCounters
  <2> DEFINE row == Higher(disk.row, app.raw.index)
             index == IF app.mint THEN Higher(app.index, row) ELSE app.index
  <2>1. /\ app.at = "counters" /\ UNCHANGED <<keychain, saved, ghostsOfSeed>>
        /\ disk.schema = "built"
      BY <1>8 DEF MigrateCounters
  <2>2. \/ /\ disk' = [disk EXCEPT !.row = row]
           /\ app' = [app EXCEPT !.at = "backups", !.index = index]
        \/ /\ app' = [app EXCEPT !.at = "backups"] /\ UNCHANGED disk
           /\ ~(app.version < CountersMoved /\ app.raw.holder = "mint" /\ app.raw.index > 0)
      BY <1>8, <2>1 DEF MigrateCounters, SeedCounters, Fault
  <2>3. CASE /\ disk' = [disk EXCEPT !.row = row]
             /\ app' = [app EXCEPT !.at = "backups", !.index = index]
      BY <2>1, <2>3
  <2>4. CASE /\ app' = [app EXCEPT !.at = "backups"] /\ UNCHANGED disk
             /\ ~(app.version < CountersMoved /\ app.raw.holder = "mint" /\ app.raw.index > 0)
      BY <2>1, <2>4
  <2> QED
      BY <2>2, <2>3, <2>4
<1>9. CASE MigrateBackups
  <2> DEFINE row == Higher(disk.row, app.raw.index)
             index == app.index
  <2>1. /\ app.at = "backups" /\ UNCHANGED <<keychain, saved, ghostsOfSeed>>
        /\ disk.schema = "built"
      BY <1>9 DEF MigrateBackups
  <2>2. \/ /\ app.version < BackupsMoved /\ app.raw.holder = "backup"
           /\ disk' = [disk EXCEPT !.row = row]
           /\ app' = [app EXCEPT !.at = "terms", !.index = index]
        \/ /\ app' = [app EXCEPT !.at = "terms"] /\ UNCHANGED disk
           /\ ~(app.version < BackupsMoved /\ app.raw.holder = "backup" /\ app.raw.index > 0)
      BY <1>9, <2>1 DEF MigrateBackups, SeedCounters, Fault
  <2>3. CASE /\ app.version < BackupsMoved /\ app.raw.holder = "backup"
             /\ disk' = [disk EXCEPT !.row = row]
             /\ app' = [app EXCEPT !.at = "terms", !.index = index]
      BY <2>1, <2>3
  <2>4. CASE /\ app' = [app EXCEPT !.at = "terms"] /\ UNCHANGED disk
             /\ ~(app.version < BackupsMoved /\ app.raw.holder = "backup" /\ app.raw.index > 0)
      BY <2>1, <2>4
  <2> QED
      BY <2>2, <2>3, <2>4
<1>10. CASE MigrateTerms
  <2>1. app.at = "terms" /\ UNCHANGED <<keychain, disk, ghostsOfSeed>>
      BY <1>10 DEF MigrateTerms
  <2>2. CASE app.version < TermsChanged
    <3>1. app' = [app EXCEPT !.at = "version", !.onboarded = FALSE] /\ saved' = Stripped(app')
        BY <1>10, <2>2 DEF MigrateTerms
    <3>2. /\ app'.at = "version" /\ app'.version = app.version /\ app'.mint = app.mint
          /\ app'.index = app.index /\ app'.cache = app.cache /\ app'.call = app.call
          /\ app'.walked = app.walked /\ app'.raw = app.raw
        BY <3>1
    <3>3. saved'.holder = "none" /\ saved'.index = 0 /\ ~saved'.onboarded
        BY <3>1 DEF Stripped
    <3> QED
        BY <2>1, <3>2, <3>3
  <2>3. CASE ~(app.version < TermsChanged)
      BY <1>10, <2>1, <2>3 DEF MigrateTerms
  <2> QED
      BY <2>2, <2>3
<1>11. CASE SetVersion
    BY <1>11 DEF SetVersion, AtHome, Stripped, Nothing
<1> QED
    BY <1>1, <1>2, <1>3, <1>4, <1>5, <1>6, <1>7, <1>8, <1>9, <1>10, <1>11 DEF Launches

LEMMA CountingOfOnboarding == KInv /\ Counting /\ Onboards /\ doubts' = {} => Counting'
<1> SUFFICES ASSUME KInv, Counting, Onboards, doubts' = {} PROVE Counting'
    OBVIOUS
<1> USE Names DEF KInv, Shapes, Keys, SnapshotRecord, AppRecord, ghostsOfSeed, Counting, Covered,
        CacheCovers, Calls, Launch, Backups, Strays, Walked, Home, Raw, Migrating, WithSchema,
        InFlight, Settled, Higher, Carried, NoDraw, NoCache, CountersMoved, BackupsMoved,
        TermsChanged, RootVersion
<1>1. CASE GotoWallet
  <2>1. app.at = "welcome" /\ UNCHANGED <<disk, saved, signedBy, stray, repeated>>
      BY <1>1 DEF GotoWallet
  <2>2. \/ app' = [app EXCEPT !.at = "orphaned", !.copied = FALSE] /\ UNCHANGED <<keychain, known>>
        \/ app' = [app EXCEPT !.at = "enroll"] /\ UNCHANGED <<keychain, known>> /\ ~stray
        \/ /\ app' = [app EXCEPT !.at = "enroll"] /\ keychain = NoSeed
           /\ keychain' \in Seed \ known
      BY <1>1 DEF GotoWallet
  <2>3. CASE /\ app' = [app EXCEPT !.at = "orphaned", !.copied = FALSE]
             /\ UNCHANGED <<keychain, known>>
      BY <2>1, <2>3
  <2>4. CASE app' = [app EXCEPT !.at = "enroll"] /\ UNCHANGED <<keychain, known>> /\ ~stray
      BY <2>1, <2>4
  <2>5. CASE /\ app' = [app EXCEPT !.at = "enroll"] /\ keychain = NoSeed
             /\ keychain' \in Seed \ known
    <3>1. signedBy[keychain'] = {} /\ ~stray
        BY <2>5
    <3> QED
        BY <2>1, <2>5, <3>1
  <2> QED
      BY <2>2, <2>3, <2>4, <2>5
<1>2. CASE AddDefaultMint
    BY <1>2 DEF AddDefaultMint
<1>3. CASE Enrolled
    BY <1>3 DEF Enrolled, Stripped
<1>4. CASE EnrollFails
    BY <1>4 DEF EnrollFails, Fault
<1>5. CASE CopySeed
    BY <1>5 DEF CopySeed
<1>6. CASE BackToWelcome
    BY <1>6 DEF BackToWelcome
<1>7. CASE StartFresh
    BY <1>7 DEF StartFresh
<1> QED
    BY <1>1, <1>2, <1>3, <1>4, <1>5, <1>6, <1>7 DEF Onboards

LEMMA CountingOfRecovery == KInv /\ Counting /\ Recovers /\ doubts' = {} => Counting'
<1> SUFFICES ASSUME KInv, Counting, Recovers, doubts' = {} PROVE Counting'
    OBVIOUS
<1> USE Names DEF KInv, Shapes, Keys, SnapshotRecord, AppRecord, ghostsOfSeed, Counting, Covered,
        CacheCovers, Calls, Launch, Backups, Strays, Walked, Home, Raw, Migrating, WithSchema,
        InFlight, Settled, Higher, Carried, NoDraw, NoCache, CountersMoved, BackupsMoved,
        TermsChanged, RootVersion
<1>1. CASE \E s \in Seed : EnterRecovery(s)
    BY <1>1 DEF EnterRecovery
<1>2. CASE LeaveRecovery
    BY <1>2 DEF LeaveRecovery, AtHome
<1>3. CASE Round
  <2> DEFINE from == app.from + RestoreInterval
             index == app.index + RestoreInterval
             row == disk.row + RestoreInterval
             walked == IF app.from = app.walked THEN app.walked + RestoreInterval ELSE app.walked
  <2>1. UNCHANGED <<keychain, saved, ghostsOfSeed>> /\ app.at = "recover"
      BY <1>3 DEF Round
  <2>2. \/ /\ disk' = [disk EXCEPT !.row = row]
           /\ app' = [app EXCEPT !.from = from, !.index = index, !.walked = walked]
        \/ app' = [app EXCEPT !.from = from] /\ UNCHANGED disk
      BY <1>3 DEF Round, RoundMoves
  <2>3. /\ {index, row, walked} \subseteq Nat /\ row >= disk.row
        /\ app.index >= disk.row => index >= row
        /\ disk.row >= app.walked => row >= walked
      OBVIOUS
  <2> HIDE DEF from, index, row, walked
  <2>4. CASE app' = [app EXCEPT !.from = from] /\ UNCHANGED disk
      BY <2>1, <2>4
  <2>5. CASE /\ disk' = [disk EXCEPT !.row = row]
             /\ app' = [app EXCEPT !.from = from, !.index = index, !.walked = walked]
    <3>1. disk'.row = row /\ disk'.schema = disk.schema /\ disk'.mint = disk.mint
        BY <2>5
    <3>2. /\ app'.at = app.at /\ app'.version = app.version /\ app'.mint = app.mint
          /\ app'.index = index /\ app'.cache = app.cache /\ app'.call = app.call
          /\ app'.walked = walked /\ app'.raw = app.raw
        BY <2>5
    <3> QED
        BY <2>1, <2>3, <3>1, <3>2
  <2> QED
      BY <2>2, <2>4, <2>5
<1>4. CASE RoundFails
    BY <1>4 DEF RoundFails, RoundMoves, Fault
<1>5. CASE ResetStartIndex
    BY <1>5 DEF ResetStartIndex, Rounds
<1>6. CASE SaveRecovered
    BY <1>6 DEF SaveRecovered
<1> QED
    BY <1>1, <1>2, <1>3, <1>4, <1>5, <1>6 DEF Recovers

LEMMA CountingOfDraws == KInv /\ Counting /\ Draws /\ doubts' = {} => Counting'
<1> SUFFICES ASSUME KInv, Counting, Draws, doubts' = {} PROVE Counting'
    OBVIOUS
<1> USE Names DEF KInv, Shapes, Keys, SnapshotRecord, AppRecord, ghostsOfSeed, Counting, Covered,
        CacheCovers, Calls, Launch, Backups, Strays, Walked, Home, Raw, Migrating, WithSchema,
        InFlight, Settled, Higher, Carried, NoDraw, NoCache, CountersMoved, BackupsMoved,
        TermsChanged, RootVersion
<1>1. CASE StartDraw
    BY <1>1 DEF StartDraw, MayDraw
<1>2. CASE EndDraw
    BY <1>2 DEF EndDraw
<1>3. CASE DrawFails
    BY <1>3 DEF DrawFails, Fault
<1> QED
    BY <1>1, <1>2, <1>3 DEF Draws

LEMMA CountingOfEnds == KInv /\ Counting /\ Ends /\ doubts' = {} => Counting'
<1> SUFFICES ASSUME KInv, Counting, Ends, doubts' = {} PROVE Counting'
    OBVIOUS
<1> USE Names DEF KInv, Shapes, Keys, SnapshotRecord, AppRecord, ghostsOfSeed, Counting, Covered,
        CacheCovers, Calls, Launch, Backups, Strays, Walked, Home, Raw, Migrating, WithSchema,
        InFlight, Settled, Higher, Carried, NoDraw, NoCache, CountersMoved, BackupsMoved,
        TermsChanged, RootVersion
<1>1. CASE CleanAll
    BY <1>1 DEF CleanAll, EmptyDisk, Wipes
<1>2. CASE ResetStores
    BY <1>2 DEF ResetStores, Off, Stripped, Nothing
<1>3. CASE RemoveKeys
    BY <1>3 DEF RemoveKeys, Off, Nothing
<1>4. CASE SaveSnapshot
    BY <1>4 DEF SaveSnapshot, Stripped
<1>5. CASE Kill
    BY <1>5 DEF Kill, Off, Nothing
<1>6. CASE \E keeps \in BOOLEAN : Reinstall(keeps)
    BY <1>6 DEF Reinstall, EmptyDisk, EmptySnapshot, Wipes
<1> QED
    BY <1>1, <1>2, <1>3, <1>4, <1>5, <1>6 DEF Ends

LEMMA CountingInit == SeedInit => Counting
<1> SUFFICES ASSUME SeedInit PROVE Counting
    OBVIOUS
<1>1. PICK p \in Phones :
        /\ keychain = p.keychain /\ app = Off
        /\ disk = [schema |-> p.schema, row |-> p.row, mint |-> p.mint]
        /\ saved = [version |-> p.version, onboarded |-> p.onboarded, index |-> p.held,
                    holder |-> p.holder]
        /\ signedBy = [s \in Seed |-> IF s \in p.known THEN p.signed ELSE {}]
        /\ stray = FALSE /\ repeated = {}
    BY DEF SeedInit
<1>2. /\ p.known \in SUBSET Seed /\ p.keychain \in p.known \cup {NoSeed}
      /\ p.holder = "backup" => ~p.mint
      /\ p.keychain # NoSeed =>
            \A i \in p.signed :
                i < Higher(p.row, Carried([index |-> p.held, holder |-> p.holder,
                                           version |-> p.version]))
    BY WalletSeedAssumptions DEF WalletSeedAssumptions
<1>3. Covered
  <2>1. SUFFICES ASSUME keychain # NoSeed, NEW i \in signedBy[keychain]
                 PROVE  i < Higher(disk.row, Carried(saved))
      BY DEF Covered
  <2>2. i \in p.signed
      BY <1>1, <1>2, <2>1
  <2>3. Carried(saved) = Carried([index |-> p.held, holder |-> p.holder, version |-> p.version])
      BY <1>1 DEF Carried
  <2> QED
      BY <1>1, <1>2, <2>1, <2>2, <2>3
<1>4. /\ app.at = "off" /\ app.call = NoDraw /\ app.cache.seed = NoSeed
    BY <1>1 DEF Off, NoCache
<1>5. CacheCovers /\ Calls /\ Launch /\ Strays /\ Walked
    BY <1>1, <1>4 DEF CacheCovers, Calls, InFlight, Launch, Strays, Walked, Home, Raw, Migrating,
                      WithSchema
<1>6. Backups
    BY <1>1, <1>2, <1>4 DEF Backups, Raw
<1> QED
    BY <1>1, <1>3, <1>5, <1>6 DEF Counting

\* What happened stays.
LEMMA DoubtsStay == SeedNext /\ doubts' = {} => doubts = {}
<1> SUFFICES ASSUME SeedNext, doubts' = {} PROVE doubts = {}
    OBVIOUS
<1>1. CASE Launches
    BY <1>1 DEF Launches, Start, Open, OpenSchema, StampSchema, HydrateMints, CaptureOrphanedSeed,
                HydrateIndex, MigrateCounters, MigrateBackups, SeedCounters, MigrateTerms,
                SetVersion
<1>2. CASE Onboards
    BY <1>2 DEF Onboards, GotoWallet, AddDefaultMint, Enrolled, EnrollFails, CopySeed,
                BackToWelcome, StartFresh
<1>3. CASE Recovers
    BY <1>3 DEF Recovers, EnterRecovery, LeaveRecovery, Round, RoundFails, ResetStartIndex,
                SaveRecovered
<1>4. CASE Draws
    BY <1>4 DEF Draws, StartDraw, EndDraw, DrawFails
<1>5. CASE Ends
    BY <1>5 DEF Ends, CleanAll, ResetStores, RemoveKeys, SaveSnapshot, Kill, Reinstall
<1> QED
    BY <1>1, <1>2, <1>3, <1>4, <1>5, NextInGroups

LEMMA IInvStep == IInv /\ [SeedNext]_seedVars => IInv'
<1> SUFFICES ASSUME IInv, [SeedNext]_seedVars PROVE IInv'
    OBVIOUS
<1>1. KInv /\ KInv'
    BY KInvStep DEF IInv
<1>2. ASSUME doubts' = {} PROVE Counting'
  <2>1. CASE SeedNext
    <3>1. Counting
        BY <1>2, <2>1, DoubtsStay DEF IInv
    <3> QED
        BY <1>1, <1>2, <2>1, <3>1, NextInGroups, CountingOfLaunch, CountingOfOnboarding,
           CountingOfRecovery, CountingOfDraws, CountingOfEnds
  <2>2. CASE UNCHANGED seedVars
    <3>1. Counting
        BY <1>2, <2>2 DEF IInv, seedVars
    <3> QED
        BY <2>2, <3>1 DEF seedVars, Counting, Covered, CacheCovers, Calls, Launch, Backups, Strays,
                          Walked, InFlight, Settled
  <2> QED
      BY <2>1, <2>2
<1> QED
    BY <1>1, <1>2 DEF IInv

\* No index of a seed is derived twice without a cause in `doubts`, for any seeds, interval and
\* phones and through any launches, wakes, kills, upgrades, reinstalls, rounds of recovery,
\* resets and calls: what the mint signed for the stored seed lies below the counter of SQLite,
\* or of the snapshot until it is moved there, or below the one a call is about to write.
THEOREM NeverRepeated == SeedSpec => []IndexNotRepeated
<1>1. SeedInit => IInv
    BY KInvInit, CountingInit DEF IInv
<1>2. IInv => IndexNotRepeated
    BY DEF IInv, Counting, IndexNotRepeated
<1> QED
    BY <1>1, <1>2, IInvStep, PTL DEF SeedSpec

------------------------------------------------------------------------------
(* The ring of received ids.                                               *)

RingShape ==
    /\ ring \in Seq(Event) /\ Len(ring) <= RingSize
    /\ runs \in [Event -> Nat]

\* What ran is in the ring, or was and fell out.
RanIsKnown == \A e \in Event : runs[e] > 0 => Known(e) \/ e \in forgotten

RingInv == RingShape /\ RanIsKnown /\ HandledOnce

\* The ring depends on three variables only.
LEMMA RingIdle == ASSUME RingInv, UNCHANGED <<ring, forgotten, runs>> PROVE RingInv'
    BY DEF RingInv, RingShape, RanIsKnown, HandledOnce, Known

\* Remembering an id loses none: it is in the ring, or it is the one that fell out.
LEMMA RememberKeeps ==
    ASSUME RingShape, NEW e \in Event, Remember(e)
    PROVE  /\ ring' \in Seq(Event) /\ Len(ring') <= RingSize
           /\ Known(e)'
           /\ forgotten \subseteq forgotten'
           /\ \A d \in Event : Known(d) => Known(d)' \/ d \in forgotten'
<1>1. CASE Len(ring) < RingSize
    <2>1. ring' = <<e>> \o ring /\ forgotten' = forgotten
        BY <1>1 DEF Remember
    <2>2. Len(ring') = Len(ring) + 1 /\ ring'[1] = e
          /\ \A i \in 1 .. Len(ring) : i + 1 \in 1 .. Len(ring') /\ ring'[i + 1] = ring[i]
        BY <2>1 DEF RingShape
    <2>3. ring' \in Seq(Event) /\ Len(ring') <= RingSize
        BY <1>1, <2>1, <2>2, NostrAssumptions DEF RingShape
    <2>4. Known(e)'
        BY <2>2, <2>3 DEF Known, RingShape
    <2> QED
        BY <2>1, <2>2, <2>3, <2>4 DEF Known
<1>2. CASE Len(ring) >= RingSize
    <2> DEFINE kept == SubSeq(ring, 1, RingSize - 1)
    <2>1. RingSize \in Nat \ {0} /\ Len(ring) = RingSize
        BY <1>2, NostrAssumptions DEF RingShape
    <2>2. ring' = <<e>> \o kept /\ forgotten' = forgotten \cup {ring[RingSize]}
        BY <1>2, <2>1 DEF Remember
    <2>3. kept \in Seq(Event) /\ Len(kept) = RingSize - 1
          /\ \A i \in 1 .. RingSize - 1 : kept[i] = ring[i]
        BY <2>1 DEF RingShape
    <2> HIDE DEF kept
    <2>4. ring' \in Seq(Event) /\ Len(ring') = RingSize /\ ring'[1] = e
          /\ \A i \in 1 .. RingSize - 1 : ring'[i + 1] = kept[i]
        BY <2>1, <2>2, <2>3
    <2>5. Known(e)'
        BY <2>1, <2>4 DEF Known
    <2>6. ASSUME NEW d \in Event, Known(d) PROVE Known(d)' \/ d \in forgotten'
        <3>1. PICK i \in 1 .. RingSize : ring[i] = d
            BY <2>1, <2>6 DEF Known
        <3>2. CASE i = RingSize
            BY <2>2, <3>1, <3>2
        <3>3. CASE i < RingSize
            <4>1. i \in 1 .. RingSize - 1 /\ i + 1 \in 1 .. RingSize
                BY <2>1, <3>3
            <4>2. ring'[i + 1] = d
                BY <2>3, <2>4, <3>1, <4>1
            <4> QED
                BY <2>4, <4>1, <4>2 DEF Known
        <3> QED
            BY <2>1, <3>1, <3>2, <3>3
    <2> QED
        BY <2>1, <2>2, <2>4, <2>5, <2>6
<1> QED
    BY <1>1, <1>2, NostrAssumptions DEF RingShape

\* An event that is not in the ring is accepted: if it ran before, its id fell out.
LEMMA AcceptStep ==
    ASSUME RingInv, NEW e \in Event, ~Known(e), Accept(e)
    PROVE  RingInv'
<1>1. Remember(e) /\ runs' = [runs EXCEPT ![e] = @ + 1]
    BY DEF Accept
<1>2. /\ ring' \in Seq(Event) /\ Len(ring') <= RingSize
      /\ Known(e)' /\ forgotten \subseteq forgotten'
      /\ \A d \in Event : Known(d) => Known(d)' \/ d \in forgotten'
    BY <1>1, RememberKeeps DEF RingInv
<1>3. runs \in [Event -> Nat] /\ runs' \in [Event -> Nat]
    BY <1>1 DEF RingInv, RingShape
<1>4. RingShape'
    BY <1>2, <1>3 DEF RingShape
<1>5. RanIsKnown'
    <2> SUFFICES ASSUME NEW d \in Event, runs'[d] > 0 PROVE Known(d)' \/ d \in forgotten'
        BY DEF RanIsKnown, Known
    <2>1. CASE d = e
        BY <1>2, <2>1
    <2>2. CASE d # e
        <3>1. runs[d] > 0
            BY <1>1, <1>3, <2>2
        <3> QED
            BY <1>2, <3>1 DEF RingInv, RanIsKnown
    <2> QED
        BY <2>1, <2>2
<1>6. HandledOnce'
    <2> SUFFICES ASSUME NEW d \in Event, runs'[d] > 1 PROVE d \in forgotten'
        BY DEF HandledOnce
    <2>1. CASE d = e
        <3>1. runs[e] > 0
            BY <1>1, <1>3, <2>1
        <3> QED
            BY <1>2, <2>1, <3>1 DEF RingInv, RanIsKnown
    <2>2. CASE d # e
        <3>1. runs[d] > 1
            BY <1>1, <1>3, <2>2
        <3> QED
            BY <1>2, <3>1 DEF RingInv, HandledOnce
    <2> QED
        BY <2>1, <2>2
<1> QED
    BY <1>4, <1>5, <1>6 DEF RingInv

\* Every step of the module keeps the ring's invariant.
LEMMA RingStep == RingInv /\ [NostrNext]_nostrVars => RingInv'
<1> SUFFICES ASSUME RingInv, [NostrNext]_nostrVars PROVE RingInv'
    OBVIOUS
<1>1. CASE UNCHANGED nostrVars
    BY <1>1, RingIdle DEF nostrVars
<1>2. ASSUME NEW e \in Event, Push(e) PROVE RingInv'
    BY <1>2, RingIdle, AcceptStep DEF Push
<1>3. ASSUME NEW e \in Event, NwcDelivers(e) \/ MessageDelivers(e) PROVE RingInv'
    BY <1>3, AcceptStep DEF NwcDelivers, MessageDelivers
<1>4. ASSUME NEW e \in Event, Publish(e) \/ TakeEvent(e) PROVE RingInv'
    BY <1>4, RingIdle DEF Publish, TakeEvent, relayVars
<1>5. CASE ListenAgain \/ NwcCloses \/ SubscribeMessages \/ OpenScreen
    BY <1>5, RingIdle DEF ListenAgain, NwcCloses, SubscribeMessages, OpenScreen, relayVars
<1>6. CASE HandleMessage \/ OpenCommand \/ CheckInvoice \/ Reply \/ MeltFails \/ MeltPending
    BY <1>6, RingIdle
       DEF HandleMessage, OpenCommand, CheckInvoice, Reply, MeltFails, MeltPending, relayVars
<1>7. ASSUME NEW fee \in Fees, MeltPays(fee) PROVE RingInv'
    BY <1>7, RingIdle DEF MeltPays, relayVars
<1>8. CASE Backstop \/ MeltUnknown \/ ReplyFails \/ RestartNostr \/ NewDay
    BY <1>8, RingIdle DEF Backstop, MeltUnknown, ReplyFails, RestartNostr, NewDay, relayVars
<1>9. CASE ServiceOpens \/ ServiceCloses
    BY <1>9, RingIdle DEF ServiceOpens, ServiceCloses
<1>10. ASSUME NEW f \in flight, NEW cost, MonitorTells(f, cost) PROVE RingInv'
    BY <1>10, RingIdle DEF MonitorTells, relayVars
<1> QED
    BY <1>1, <1>2, <1>3, <1>4, <1>5, <1>6, <1>7, <1>8, <1>9, <1>10
       DEF NostrNext, Arrival, CommandStep, Surroundings

\* Push, subscriptions and restarts bring the same command again, and it runs once unless its
\* id fell out of receivedEventIds (RelaysStore), for any ring size and any number of events.
THEOREM RunsOnce == NostrSpec => []HandledOnce
<1>1. NostrInit => RingInv
    BY NostrAssumptions DEF NostrInit, RingInv, RingShape, RanIsKnown, HandledOnce
<1>2. RingInv => HandledOnce
    BY DEF RingInv
<1> QED
    BY <1>1, <1>2, RingStep, PTL DEF NostrSpec

------------------------------------------------------------------------------
(* The daily limit.                                                        *)

Outcome == {"result", "paid", "error", "pending"}

\* Where the task is, and that it is at one of its command's invoices there.
TaskShape ==
    /\ running \in [event : Event \cup {"none"},
                    pc : {"idle", "open", "check", "melt", "settle", "reply"},
                    i : Nat, out : Seq(Outcome)]
    /\ running.pc # "idle" => running.event \in Event
    /\ running.pc = "open" => running.i = 1
    /\ running.pc \in {"check", "melt", "settle"} => running.i \in 1 .. Len(Bill[running.event])
    /\ waiting \subseteq Event

DayShape ==
    /\ scenario \in Scenarios /\ nwcFaults \in Nat
    /\ today \in 0 .. MaxDay /\ limitDay \in 0 .. today
    /\ remaining \in Int
    /\ spent \in [0 .. MaxDay -> Int]
    /\ flight \subseteq [inv : Invoice, day : 0 .. MaxDay]

\* One payment of an invoice is under way at a time, none from a day to come, and the
\* command that waits waits for one of them.
FlightInv ==
    /\ \A f, g \in flight : f.inv = g.inv => f = g
    /\ \A f \in flight : f.day <= limitDay
    /\ \A d \in 0 .. MaxDay : d > limitDay => spent[d] = 0
    /\ TaskAt("settle") => Invoiced \in Held

\* The waiting command's payment is of the day the limit is of.
OwesToday == TaskAt("settle") /\ \E f \in flight : f.inv = Invoiced /\ f.day = limitDay

\* What is left of the limit covers the payment at hand, and with what the day's commands
\* spent it is the limit at most, but for the payment still waited for.
BudgetInv ==
    /\ remaining \in 0 .. DailyLimit
    /\ running.pc \in {"melt", "settle"} => Total(Invoiced) <= remaining
    /\ OwesToday => spent[limitDay] + remaining <= DailyLimit + Total(Invoiced)
    /\ ~OwesToday => spent[limitDay] + remaining <= DailyLimit
    /\ \A d \in 0 .. MaxDay : spent[d] <= DailyLimit

LimitInv == TaskShape /\ DayShape /\ (nwcFaults = 0 => FlightInv /\ BudgetInv)

\* An invoice's reserve is positive, and a payment costs that much at most.
LEMMA InvoiceCost ==
    ASSUME NEW inv \in Invoice
    PROVE  /\ AmountOf(inv) \in Nat \ {0} /\ Total(inv) \in Nat
           /\ \A fee \in Fees : AmountOf(inv) + fee \in 0 .. Total(inv)
<1>1. PICK e \in Event : \E i \in 1 .. Len(Bill[e]) : inv = <<e, i>>
    BY DEF Invoice
<1>2. Bill[e] \in Seq(Nat \ {0})
    BY NostrAssumptions
<1>3. AmountOf(inv) \in Nat \ {0}
    BY <1>1, <1>2 DEF AmountOf
<1>4. FeeReserve \in Nat /\ Fees \subseteq 0 .. FeeReserve
    BY NostrAssumptions
<1> QED
    BY <1>3, <1>4 DEF Total

\* The invoice a task is at is one of its command's.
LEMMA AtInvoice ==
    ASSUME TaskShape, running.pc \in {"check", "melt", "settle"}
    PROVE  Invoiced \in Invoice
<1>1. running.event \in Event /\ running.i \in 1 .. Len(Bill[running.event])
    BY DEF TaskShape
<1> QED
    BY <1>1 DEF Invoiced, Invoice

\* Going on to the next invoice, or to the replies, ends the waiting.
LEMMA FinishShape ==
    ASSUME TaskShape, running.pc \in {"check", "melt", "settle"}, waiting' = waiting,
           NEW o \in Outcome, Finish(o)
    PROVE  TaskShape' /\ running'.pc \in {"check", "reply"}
<1>1. /\ running.event \in Event /\ running.i \in Nat /\ running.out \in Seq(Outcome)
      /\ running.i \in 1 .. Len(Bill[running.event])
      /\ Bill[running.event] \in Seq(Nat \ {0})
    BY NostrAssumptions DEF TaskShape
<1>2. Append(running.out, o) \in Seq(Outcome) /\ running.i + 1 \in Nat
    BY <1>1
<1>3. /\ running' \in [event : Event \cup {"none"},
                      pc : {"idle", "open", "check", "melt", "settle", "reply"},
                      i : Nat, out : Seq(Outcome)]
      /\ running'.event = running.event /\ running'.i = running.i + 1
      /\ running'.pc = IF running.i = Len(Bill[running.event]) THEN "reply" ELSE "check"
    BY <1>2 DEF Finish, TaskShape
<1>4. Len(Bill[running.event]) \in Nat
    BY <1>1
<1> QED
    BY <1>1, <1>3, <1>4 DEF TaskShape

\* A command that is not in front of the mint and not waiting owes nothing.
LEMMA OwesOnlyWaiting == OwesToday => TaskAt("settle")
    BY DEF OwesToday

\* Steps that leave payments, limit and clock alone, and do not begin to pay or to wait.
LEMMA NotPaying ==
    ASSUME LimitInv, TaskShape',
           UNCHANGED <<remaining, limitDay, today, flight, spent, scenario>>,
           nwcFaults' \in Nat, nwcFaults' = 0 => nwcFaults = 0,
           running'.pc \notin {"melt", "settle"} \/ running' = running,
           nwcFaults' = 0 /\ running' # running => running.pc # "settle"
    PROVE  LimitInv'
<1>1. DayShape'
    BY DEF LimitInv, DayShape
<1>2. ASSUME nwcFaults' = 0 PROVE FlightInv' /\ BudgetInv'
    <2>1. FlightInv /\ BudgetInv
        BY <1>2 DEF LimitInv
    <2>2. CASE running' = running
        BY <2>1, <2>2 DEF FlightInv, BudgetInv, OwesToday, Invoiced, TaskAt, Held
    <2>3. CASE running' # running
        <3>1. ~OwesToday /\ ~OwesToday' /\ ~TaskAt("settle")'
            BY <1>2, <2>3 DEF OwesToday, TaskAt
        <3> QED
            BY <2>1, <2>3, <3>1 DEF FlightInv, BudgetInv, TaskAt
    <2> QED
        BY <2>2, <2>3
<1> QED
    BY <1>1, <1>2 DEF LimitInv

\* A day's limit is set anew: nothing was spent on that day before.
LEMMA ResetStep ==
    ASSUME LimitInv, ResetLimit, UNCHANGED <<running, waiting, today, flight, spent, scenario,
                                             nwcFaults>>
    PROVE  LimitInv'
<1>1. CASE limitDay = today
    BY <1>1, NotPaying DEF ResetLimit, limitVars, LimitInv, TaskShape, DayShape
<1>2. CASE limitDay # today
    <2>1. remaining' = DailyLimit /\ limitDay' = today /\ limitDay < today /\ DailyLimit \in Nat
        BY <1>2, NostrAssumptions DEF ResetLimit, LimitInv, DayShape
    <2>2. TaskShape' /\ DayShape'
        BY <2>1, NostrAssumptions DEF LimitInv, TaskShape, DayShape
    <2>3. ASSUME nwcFaults = 0 PROVE FlightInv' /\ BudgetInv'
        <3>1. FlightInv /\ BudgetInv
            BY <2>3 DEF LimitInv
        <3>2. FlightInv'
            BY <2>1, <3>1 DEF FlightInv, Held, Invoiced, TaskAt, LimitInv, DayShape
        <3>3. spent'[limitDay'] = 0 /\ ~OwesToday'
            BY <2>1, <3>1 DEF FlightInv, OwesToday, LimitInv, DayShape
        <3>4. running.pc \in {"melt", "settle"}
                => Total(Invoiced) \in Nat /\ Total(Invoiced) <= DailyLimit
            BY <2>1, <3>1, AtInvoice, InvoiceCost DEF BudgetInv, LimitInv
        <3> QED
            BY <2>1, <3>1, <3>2, <3>3, <3>4 DEF BudgetInv, Invoiced, Total, AmountOf
    <2> QED
        BY <2>2, <2>3 DEF LimitInv
<1> QED
    BY <1>1, <1>2 DEF LimitInv, DayShape

\* A wait that ends without an outcome takes the whole reserve off the limit.
LEMMA StopStep ==
    ASSUME LimitInv, StopWaiting, UNCHANGED <<waiting, limitDay, today, flight, spent, scenario,
                                              nwcFaults>>
    PROVE  LimitInv'
<1>1. CASE ~TaskAt("settle")
    BY <1>1, NotPaying DEF StopWaiting, LimitInv, TaskShape, DayShape
<1>2. CASE TaskAt("settle")
    <2>1. Finish("pending") /\ remaining' = remaining - Total(Invoiced)
        BY <1>2 DEF StopWaiting
    <2>2. TaskShape' /\ running'.pc \in {"check", "reply"}
        BY <1>2, <2>1, FinishShape DEF LimitInv, TaskAt, Outcome
    <2>3. Invoiced \in Invoice /\ Total(Invoiced) \in Nat
        BY <1>2, AtInvoice, InvoiceCost DEF LimitInv, TaskAt
    <2>4. DayShape'
        BY <2>1, <2>3 DEF LimitInv, DayShape
    <2>5. ASSUME nwcFaults = 0 PROVE FlightInv' /\ BudgetInv'
        <3>1. FlightInv /\ BudgetInv
            BY <2>5 DEF LimitInv
        <3>2. ~TaskAt("settle")' /\ ~OwesToday'
            BY <2>2 DEF TaskAt, OwesToday
        <3>3. FlightInv'
            BY <3>1, <3>2 DEF FlightInv
        <3>4. spent[limitDay] \in Int /\ DailyLimit \in Nat /\ Total(Invoiced) <= remaining
            BY <1>2, <3>1, NostrAssumptions DEF LimitInv, DayShape, BudgetInv, TaskAt
        <3>5. remaining' \in 0 .. DailyLimit /\ spent[limitDay] + remaining' <= DailyLimit
            BY <2>1, <2>3, <3>1, <3>4 DEF BudgetInv
        <3> QED
            BY <2>2, <3>1, <3>2, <3>3, <3>5 DEF BudgetInv
    <2> QED
        BY <2>2, <2>4, <2>5 DEF LimitInv
<1> QED
    BY <1>1, <1>2

\* The check lets a command pay only what the limit has left.
LEMMA CheckStep == ASSUME LimitInv, CheckInvoice PROVE LimitInv'
<1> DEFINE fresh == running.i = 1 /\ limitDay # today
           left == IF fresh THEN DailyLimit ELSE remaining
<1>1. /\ TaskAt("check") /\ remaining' = left
      /\ limitDay' = IF fresh THEN today ELSE limitDay
      /\ \/ Finish("error")
         \/ running' = [running EXCEPT !.pc = "melt"] /\ ~(Total(Invoiced) > left)
      /\ UNCHANGED <<waiting, today, flight, spent, scenario, nwcFaults>>
    BY DEF CheckInvoice, relayVars, moneyVars
<1>2. Invoiced \in Invoice /\ Total(Invoiced) \in Nat
    BY <1>1, AtInvoice, InvoiceCost DEF LimitInv, TaskAt
<1>3. TaskShape' /\ running'.pc \in {"check", "reply", "melt"}
      /\ (running'.pc = "melt" => Invoiced' = Invoiced /\ Total(Invoiced) <= left)
    <2>1. CASE Finish("error")
        BY <1>1, <2>1, FinishShape DEF LimitInv, TaskAt, Outcome
    <2>2. CASE running' = [running EXCEPT !.pc = "melt"] /\ ~(Total(Invoiced) > left)
        <3>1. left \in Int
            BY NostrAssumptions DEF LimitInv, DayShape
        <3> HIDE DEF left
        <3> QED
            BY <1>1, <1>2, <2>2, <3>1 DEF LimitInv, TaskShape, TaskAt, Invoiced
    <2> QED
        BY <1>1, <2>1, <2>2
<1>4. left \in Int /\ DayShape'
    BY <1>1, NostrAssumptions DEF LimitInv, DayShape
<1>5. ASSUME nwcFaults = 0 PROVE FlightInv' /\ BudgetInv'
    <2>1. FlightInv /\ BudgetInv
        BY <1>5 DEF LimitInv
    <2>2. ~TaskAt("settle")' /\ ~OwesToday' /\ ~OwesToday
        BY <1>1, <1>3 DEF TaskAt, OwesToday
    <2>3. FlightInv'
        BY <1>1, <2>1, <2>2 DEF FlightInv, LimitInv, DayShape
    <2>4. left \in 0 .. DailyLimit /\ spent[limitDay'] + left <= DailyLimit
        BY <1>1, <2>1, <2>2, NostrAssumptions DEF FlightInv, BudgetInv, LimitInv, DayShape
    <2>5. running'.pc = "melt" => Total(Invoiced)' <= left
        BY <1>3 DEF Total, AmountOf
    <2> HIDE DEF left
    <2> QED
        BY <1>1, <1>3, <2>1, <2>2, <2>3, <2>4, <2>5 DEF BudgetInv
<1> QED
    BY <1>1, <1>3, <1>4, <1>5 DEF LimitInv

\* A payment that succeeds at once lowers the limit by what it cost.
LEMMA PaysStep == ASSUME LimitInv, NEW fee \in Fees, MeltPays(fee) PROVE LimitInv'
<1> DEFINE cost == AmountOf(Invoiced) + fee
<1>1. /\ TaskAt("melt") /\ (Finish("paid") \/ Finish("error"))
      /\ spent' = [spent EXCEPT ![limitDay] = @ + cost] /\ remaining' = remaining - cost
      /\ nwcFaults' = nwcFaults \/ nwcFaults' = nwcFaults + 1
      /\ UNCHANGED <<waiting, limitDay, today, flight, scenario>>
    BY DEF MeltPays, Announce, relayVars
<1>2. Invoiced \in Invoice /\ Total(Invoiced) \in Nat /\ cost \in 0 .. Total(Invoiced)
    BY <1>1, AtInvoice, InvoiceCost DEF LimitInv, TaskAt
<1> HIDE DEF cost
<1>3. TaskShape' /\ running'.pc \in {"check", "reply"}
    BY <1>1, FinishShape DEF LimitInv, TaskAt, Outcome
<1>4. limitDay \in 0 .. MaxDay /\ spent[limitDay] \in Int
    BY NostrAssumptions DEF LimitInv, DayShape
<1>5. /\ spent' \in [0 .. MaxDay -> Int] /\ spent'[limitDay] = spent[limitDay] + cost
      /\ \A d \in 0 .. MaxDay : d # limitDay => spent'[d] = spent[d]
    BY <1>1, <1>2, <1>4 DEF LimitInv, DayShape
<1>6. DayShape'
    BY <1>1, <1>2, <1>5 DEF LimitInv, DayShape
<1>7. ASSUME nwcFaults' = 0 PROVE FlightInv' /\ BudgetInv'
    <2>1. FlightInv /\ BudgetInv
        BY <1>1, <1>7 DEF LimitInv, DayShape
    <2>2. ~TaskAt("settle")' /\ ~OwesToday' /\ ~OwesToday
        BY <1>1, <1>3 DEF TaskAt, OwesToday
    <2>3. FlightInv'
        BY <1>1, <1>4, <1>5, <2>1, <2>2 DEF FlightInv
    <2>4. Total(Invoiced) <= remaining /\ spent[limitDay] + remaining <= DailyLimit
          /\ remaining \in 0 .. DailyLimit /\ DailyLimit \in Nat
        BY <1>1, <2>1, <2>2, NostrAssumptions DEF BudgetInv, TaskAt
    <2>5. remaining' \in 0 .. DailyLimit /\ spent'[limitDay] + remaining' <= DailyLimit
        BY <1>1, <1>2, <1>4, <1>5, <2>4
    <2>6. \A d \in 0 .. MaxDay : spent'[d] <= DailyLimit
        BY <1>4, <1>5, <1>6, <2>1, <2>4, <2>5 DEF BudgetInv, DayShape
    <2> QED
        BY <1>1, <1>3, <2>2, <2>3, <2>5, <2>6 DEF BudgetInv
<1> QED
    BY <1>3, <1>6, <1>7 DEF LimitInv

\* A payment goes out, and its whole reserve counts as spent. If the wallet knows, the
\* command waits for it.
LEMMA FlightStep == ASSUME LimitInv, MeltPending \/ MeltUnknown PROVE LimitInv'
<1> DEFINE f == [inv |-> Invoiced, day |-> limitDay]
<1>1. /\ TaskAt("melt") /\ flight' = flight \cup {f}
      /\ spent' = [spent EXCEPT ![limitDay] = @ + Total(Invoiced)]
      /\ \/ running' = [running EXCEPT !.pc = "settle"] /\ nwcFaults' = nwcFaults
         \/ Finish("error") /\ nwcFaults' = nwcFaults + 1
      /\ Payable(Invoiced)
      /\ UNCHANGED <<waiting, remaining, limitDay, today, scenario>>
    BY DEF MeltPending, MeltUnknown, relayVars, limitVars
<1>2. Invoiced \in Invoice /\ Total(Invoiced) \in Nat
    BY <1>1, AtInvoice, InvoiceCost DEF LimitInv, TaskAt
<1>3. limitDay \in 0 .. MaxDay /\ spent[limitDay] \in Int
    BY NostrAssumptions DEF LimitInv, DayShape
<1>4. f \in [inv : Invoice, day : 0 .. MaxDay] /\ f.inv = Invoiced /\ f.day = limitDay
    BY <1>2, <1>3
<1> HIDE DEF f
<1>5. /\ spent' \in [0 .. MaxDay -> Int] /\ spent'[limitDay] = spent[limitDay] + Total(Invoiced)
      /\ \A d \in 0 .. MaxDay : d # limitDay => spent'[d] = spent[d]
    BY <1>1, <1>2, <1>3 DEF LimitInv, DayShape
<1>6. DayShape'
    BY <1>1, <1>4, <1>5 DEF LimitInv, DayShape
<1>7. TaskShape'
    <2>1. CASE running' = [running EXCEPT !.pc = "settle"]
        BY <1>1, <2>1 DEF LimitInv, TaskShape, TaskAt
    <2>2. CASE Finish("error")
        BY <1>1, <2>2, FinishShape DEF LimitInv, TaskAt, Outcome
    <2> QED
        BY <1>1, <2>1, <2>2
<1>8. ASSUME nwcFaults' = 0 PROVE FlightInv' /\ BudgetInv'
    <2>1. nwcFaults = 0 /\ running' = [running EXCEPT !.pc = "settle"]
        BY <1>1, <1>8 DEF LimitInv, DayShape
    <2>2. FlightInv /\ BudgetInv
        BY <2>1 DEF LimitInv
    <2>3. TaskAt("settle")' /\ Invoiced' = Invoiced /\ Total(Invoiced)' = Total(Invoiced)
        BY <2>1 DEF LimitInv, TaskShape, TaskAt, Invoiced, Total, AmountOf
    <2>4. \A g \in flight : g.inv # Invoiced
        BY <1>1 DEF Payable, Held
    <2>5. FlightInv'
        <3>1. \A g, h \in flight' : g.inv = h.inv => g = h
            BY <1>1, <1>4, <2>2, <2>4 DEF FlightInv
        <3>2. \A g \in flight' : g.day <= limitDay'
            BY <1>1, <1>3, <1>4, <2>2 DEF FlightInv
        <3>3. \A d \in 0 .. MaxDay : d > limitDay' => spent'[d] = 0
            BY <1>1, <1>3, <1>5, <2>2 DEF FlightInv
        <3>4. Invoiced' \in Held'
            BY <1>1, <1>4, <2>3 DEF Held
        <3> QED
            BY <3>1, <3>2, <3>3, <3>4 DEF FlightInv
    <2>6. OwesToday'
        BY <1>1, <1>4, <2>3 DEF OwesToday
    <2>7. ~OwesToday
        BY <1>1 DEF OwesToday, TaskAt
    <2>8. /\ Total(Invoiced) <= remaining /\ spent[limitDay] + remaining <= DailyLimit
          /\ remaining \in 0 .. DailyLimit /\ DailyLimit \in Nat
        BY <1>1, <2>2, <2>7, NostrAssumptions DEF BudgetInv, TaskAt
    <2>9. /\ spent'[limitDay] + remaining <= DailyLimit + Total(Invoiced)
          /\ spent'[limitDay] <= DailyLimit
        BY <1>2, <1>3, <1>5, <2>8
    <2>10. \A d \in 0 .. MaxDay : spent'[d] <= DailyLimit
        BY <1>3, <1>5, <2>2, <2>9 DEF BudgetInv
    <2> QED
        BY <1>1, <2>3, <2>5, <2>6, <2>8, <2>9, <2>10 DEF BudgetInv
<1> QED
    BY <1>6, <1>7, <1>8 DEF LimitInv

\* A payment under way gets its outcome. What its reserve counted too much is given back to
\* its day; if a command waits for it, the limit goes down by what it cost.
LEMMA OutcomeStep ==
    ASSUME LimitInv, NEW f \in flight, NEW cost \in 0 .. Total(f.inv), MonitorTells(f, cost)
    PROVE  LimitInv'
<1> DEFINE awaited == TaskAt("settle") /\ Invoiced = f.inv
<1>1. /\ flight' = flight \ {f}
      /\ spent' = [spent EXCEPT ![f.day] = @ - Total(f.inv) + cost]
      /\ awaited => /\ Finish("paid") \/ Finish("error")
                    /\ remaining' = remaining - cost
                    /\ nwcFaults' = nwcFaults \/ nwcFaults' = nwcFaults + 1
      /\ ~awaited => UNCHANGED <<running, remaining, nwcFaults>>
      /\ UNCHANGED <<waiting, limitDay, today, scenario>>
    BY DEF MonitorTells, Announce, relayVars
<1>2. f.inv \in Invoice /\ f.day \in 0 .. MaxDay
    BY DEF LimitInv, DayShape
<1>3. Total(f.inv) \in Nat /\ cost \in Nat /\ cost <= Total(f.inv)
    BY <1>2, InvoiceCost
<1>4. limitDay \in 0 .. MaxDay /\ spent[limitDay] \in Int /\ spent[f.day] \in Int
      /\ nwcFaults \in Nat /\ remaining \in Int
    BY <1>2, NostrAssumptions DEF LimitInv, DayShape
<1>5. /\ spent' \in [0 .. MaxDay -> Int] /\ spent'[f.day] = spent[f.day] - Total(f.inv) + cost
      /\ \A d \in 0 .. MaxDay : d # f.day => spent'[d] = spent[d]
    BY <1>1, <1>2, <1>3, <1>4 DEF LimitInv, DayShape
<1>6. TaskShape' /\ (awaited => running'.pc \in {"check", "reply"})
    <2>1. CASE awaited
        BY <1>1, <2>1, FinishShape DEF LimitInv, TaskAt, Outcome
    <2>2. CASE ~awaited
        BY <1>1, <2>2 DEF LimitInv, TaskShape
    <2> QED
        BY <2>1, <2>2
<1>7. remaining' \in Int /\ nwcFaults' \in Nat /\ (nwcFaults' = 0 => nwcFaults = 0)
    BY <1>1, <1>3, <1>4
<1>8. DayShape'
    BY <1>1, <1>5, <1>7 DEF LimitInv, DayShape
<1>9. ASSUME nwcFaults' = 0 PROVE FlightInv' /\ BudgetInv'
    <2>1. FlightInv /\ BudgetInv /\ f.day <= limitDay
        BY <1>7, <1>9 DEF LimitInv, FlightInv
    <2>2. \A d \in 0 .. MaxDay : spent'[d] \in Int /\ spent[d] \in Int /\ spent'[d] <= spent[d]
        BY <1>2, <1>3, <1>4, <1>5 DEF LimitInv, DayShape
    <2>3. /\ \A g, h \in flight' : g.inv = h.inv => g = h
          /\ \A g \in flight' : g.day <= limitDay'
        BY <1>1, <2>1 DEF FlightInv
    <2>4. \A d \in 0 .. MaxDay : d > limitDay' => spent'[d] = 0
        BY <1>1, <1>2, <1>4, <1>5, <2>1 DEF FlightInv, LimitInv, DayShape
    <2>5. \A d \in 0 .. MaxDay : spent'[d] <= DailyLimit
        BY <2>1, <2>2, NostrAssumptions DEF BudgetInv
    <2>6. CASE ~awaited
        <3>1. Invoiced' = Invoiced /\ (TaskAt("settle")' <=> TaskAt("settle"))
              /\ Total(Invoiced)' = Total(Invoiced) /\ running' = running /\ remaining' = remaining
            BY <1>1, <2>6 DEF Invoiced, TaskAt, Total, AmountOf
        <3>2. FlightInv'
            BY <1>1, <2>1, <2>3, <2>4, <2>6, <3>1 DEF FlightInv, Held
        <3>3. OwesToday' <=> OwesToday
            BY <1>1, <2>6, <3>1 DEF OwesToday
        <3>4. TaskAt("settle") => Total(Invoiced) \in Nat
            BY AtInvoice, InvoiceCost DEF LimitInv, TaskAt
        <3>5. ~OwesToday => spent'[limitDay'] + remaining' <= DailyLimit
            BY <1>1, <1>4, <2>1, <2>2, <3>1, NostrAssumptions DEF BudgetInv
        <3>6. OwesToday => spent'[limitDay'] + remaining' <= DailyLimit + Total(Invoiced)
            BY <1>1, <1>4, <2>1, <2>2, <3>1, <3>4, NostrAssumptions DEF BudgetInv, OwesToday
        <3> QED
            BY <2>1, <2>5, <3>1, <3>2, <3>3, <3>5, <3>6 DEF BudgetInv
    <2>7. CASE awaited
        <3>1. TaskAt("settle") /\ Invoiced = f.inv /\ remaining' = remaining - cost
            BY <1>1, <2>7
        <3>2. ~TaskAt("settle")' /\ ~OwesToday'
            BY <1>6, <2>7 DEF TaskAt, OwesToday
        <3>3. FlightInv'
            BY <2>3, <2>4, <3>2 DEF FlightInv
        <3>4. Total(f.inv) <= remaining /\ remaining \in 0 .. DailyLimit /\ DailyLimit \in Nat
            BY <2>1, <3>1, NostrAssumptions DEF BudgetInv, TaskAt
        <3>5. remaining' \in 0 .. DailyLimit
            BY <1>3, <3>1, <3>4
        <3>6. spent'[limitDay] + remaining' <= DailyLimit
            <4>1. CASE f.day = limitDay
                <5>1. OwesToday
                    BY <3>1, <4>1 DEF OwesToday
                <5>2. spent[limitDay] + remaining <= DailyLimit + Total(f.inv)
                    BY <2>1, <3>1, <5>1 DEF BudgetInv
                <5>3. spent'[limitDay] = spent[limitDay] - Total(f.inv) + cost
                    BY <1>5, <4>1
                <5> QED
                    BY <1>3, <1>4, <3>1, <3>4, <5>2, <5>3
            <4>2. CASE f.day # limitDay
                <5>1. ~OwesToday
                    BY <2>1, <3>1, <4>2 DEF OwesToday, FlightInv
                <5>2. spent[limitDay] + remaining <= DailyLimit /\ spent'[limitDay] = spent[limitDay]
                    BY <1>4, <1>5, <2>1, <4>2, <5>1 DEF BudgetInv
                <5> QED
                    BY <1>3, <1>4, <3>1, <3>4, <5>2
            <4> QED
                BY <4>1, <4>2
        <3> QED
            BY <1>1, <1>6, <2>5, <2>7, <3>2, <3>3, <3>5, <3>6 DEF BudgetInv
    <2> QED
        BY <2>6, <2>7
<1> QED
    BY <1>6, <1>8, <1>9 DEF LimitInv

\* A new day changes nothing until the limit is looked at.
LEMMA NewDayStep == ASSUME LimitInv, NewDay PROVE LimitInv'
<1>1. /\ today < scenario.days /\ today' = today + 1
      /\ UNCHANGED <<running, waiting, remaining, limitDay, flight, spent, scenario, nwcFaults>>
    BY DEF NewDay, relayVars, limitVars, moneyVars
<1>2. scenario.days \in 0 .. MaxDay /\ MaxDay \in Nat
    BY NostrAssumptions DEF LimitInv, DayShape
<1>3. TaskShape' /\ DayShape'
    BY <1>1, <1>2 DEF LimitInv, TaskShape, DayShape
<1>4. nwcFaults' = 0 => FlightInv' /\ BudgetInv'
    BY <1>1 DEF LimitInv, FlightInv, BudgetInv, OwesToday, Invoiced, TaskAt, Held
<1> QED
    BY <1>3, <1>4 DEF LimitInv

\* Events arrive and are queued; their tasks open, answer and end without paying.
LEMMA QuietSteps ==
    ASSUME LimitInv,
           \/ \E e \in Event : Publish(e) \/ Push(e) \/ NwcDelivers(e) \/ MessageDelivers(e)
           \/ \E e \in Event : TakeEvent(e)
           \/ NwcCloses \/ SubscribeMessages \/ HandleMessage \/ OpenCommand \/ MeltFails
           \/ Reply \/ ReplyFails \/ RestartNostr
    PROVE  LimitInv'
<1>1. ASSUME NEW e \in Event, Publish(e) \/ Push(e) \/ NwcDelivers(e) \/ MessageDelivers(e)
      PROVE  LimitInv'
    BY <1>1, NotPaying DEF Publish, Push, NwcDelivers, MessageDelivers, Accept, limitVars,
       moneyVars, LimitInv, TaskShape, DayShape
<1>2. CASE NwcCloses \/ SubscribeMessages
    BY <1>2, NotPaying DEF NwcCloses, SubscribeMessages, limitVars, moneyVars, LimitInv,
       TaskShape, DayShape
<1>3. ASSUME NEW e \in Event, TakeEvent(e) PROVE LimitInv'
    <2>1. TaskShape' /\ running'.pc = "open" /\ running.pc = "idle"
        BY <1>3 DEF TakeEvent, LimitInv, TaskShape, TaskAt
    <2> QED
        BY <1>3, <2>1, NotPaying DEF TakeEvent, relayVars, limitVars, moneyVars, LimitInv,
           DayShape
<1>4. CASE HandleMessage \/ ReplyFails \/ RestartNostr
    <2>1. running' = NoTask /\ waiting' \subseteq Event
        BY <1>4 DEF HandleMessage, ReplyFails, RestartNostr, LimitInv, TaskShape
    <2>2. TaskShape' /\ running'.pc = "idle"
        BY <2>1 DEF TaskShape, NoTask
    <2>3. /\ nwcFaults' \in Nat /\ (nwcFaults' = 0 => nwcFaults = 0 /\ running.pc # "settle")
          /\ UNCHANGED <<remaining, limitDay, today, flight, spent, scenario>>
        BY <1>4 DEF HandleMessage, ReplyFails, RestartNostr, relayVars, limitVars, moneyVars,
           LimitInv, DayShape, TaskAt
    <2> QED
        BY <2>2, <2>3, NotPaying
<1>5. CASE OpenCommand
    <2> DEFINE pc == IF EventKind[running.event] = "query"
                        \/ Len(Bill[running.event]) \notin 1 .. MaxMultiPay
                     THEN "reply" ELSE "check"
               out == IF EventKind[running.event] = "query" THEN <<"result">>
                      ELSE IF Len(Bill[running.event]) > MaxMultiPay THEN <<"error">> ELSE <<>>
               r == [running EXCEPT !.pc = pc]
    <2>1. /\ TaskAt("open") /\ running' = [r EXCEPT !.out = out]
          /\ UNCHANGED <<waiting, remaining, limitDay, today, flight, spent, scenario, nwcFaults>>
        BY <1>5, Zenon DEF OpenCommand, relayVars, limitVars, moneyVars
    <2>2. pc \in {"reply", "check"} /\ out \in Seq(Outcome)
        <3>1. <<"result">> \in Seq(Outcome) /\ <<"error">> \in Seq(Outcome) /\ <<>> \in Seq(Outcome)
            BY DEF Outcome
        <3> QED
            BY <3>1
    <2>3. pc = "check" => Len(Bill[running.event]) \in 1 .. MaxMultiPay
        OBVIOUS
    <2> HIDE DEF pc, out
    <2>4. /\ running.event \in Event /\ Bill[running.event] \in Seq(Nat \ {0})
          /\ running.i = 1 /\ MaxMultiPay \in Nat
        BY <2>1, NostrAssumptions DEF LimitInv, TaskShape, TaskAt
    <2>5. /\ r \in [event : Event \cup {"none"},
                   pc : {"idle", "open", "check", "melt", "settle", "reply"},
                   i : Nat, out : Seq(Outcome)]
          /\ r.pc = pc /\ r.event = running.event /\ r.i = running.i
        BY <2>2 DEF LimitInv, TaskShape
    <2> HIDE DEF r
    <2>6. /\ running' \in [event : Event \cup {"none"},
                         pc : {"idle", "open", "check", "melt", "settle", "reply"},
                         i : Nat, out : Seq(Outcome)]
          /\ running'.pc = pc /\ running'.event = running.event /\ running'.i = running.i
        BY <2>1, <2>2, <2>5
    <2>7. TaskShape'
        BY <2>1, <2>2, <2>3, <2>4, <2>6 DEF LimitInv, TaskShape
    <2> QED
        BY <2>1, <2>2, <2>6, <2>7, NotPaying DEF LimitInv, DayShape, TaskAt
<1>6. CASE MeltFails
    <2>1. TaskShape' /\ running'.pc \in {"check", "reply"} /\ running.pc = "melt"
        BY <1>6, FinishShape DEF MeltFails, relayVars, LimitInv, TaskAt, Outcome
    <2> QED
        BY <1>6, <2>1, NotPaying DEF MeltFails, relayVars, limitVars, moneyVars, LimitInv, DayShape
<1>7. CASE Reply
    <2>1. TaskShape' /\ running'.pc \in {"idle", "reply"} /\ running.pc = "reply"
        <3>1. CASE running.out = <<>>
            BY <1>7, <3>1 DEF Reply, LimitInv, TaskShape, TaskAt, NoTask
        <3>2. CASE running.out # <<>>
            <4>1. running' = [running EXCEPT !.out = Tail(@)] /\ waiting' = waiting
                BY <1>7, <3>2 DEF Reply
            <4>2. Tail(running.out) \in Seq(Outcome)
                BY <3>2 DEF LimitInv, TaskShape
            <4> QED
                BY <1>7, <4>1, <4>2 DEF Reply, LimitInv, TaskShape, TaskAt
        <3> QED
            BY <3>1, <3>2
    <2> QED
        BY <1>7, <2>1, NotPaying DEF Reply, relayVars, limitVars, moneyVars, LimitInv, DayShape
<1> QED
    BY <1>1, <1>2, <1>3, <1>4, <1>5, <1>6, <1>7

\* Every step of the module keeps the limit's invariant.
LEMMA LimitStep == LimitInv /\ [NostrNext]_nostrVars => LimitInv'
<1> SUFFICES ASSUME LimitInv, [NostrNext]_nostrVars PROVE LimitInv'
    OBVIOUS
<1>1. CASE UNCHANGED nostrVars
    BY <1>1, NotPaying DEF nostrVars, LimitInv, TaskShape, DayShape
<1>2. CASE ListenAgain \/ OpenScreen
    BY <1>2, ResetStep DEF ListenAgain, Listen, OpenScreen, relayVars, moneyVars
<1>3. CASE Backstop
    BY <1>3, StopStep DEF Backstop, relayVars, moneyVars
<1>4. CASE ServiceOpens
    BY <1>4, ResetStep, StopStep DEF ServiceOpens, Listen, moneyVars
<1>5. CASE ServiceCloses
    BY <1>5, StopStep DEF ServiceCloses, moneyVars
<1>6. ASSUME NEW f \in flight,
             \/ MonitorTells(f, 0)
             \/ \E fee \in Fees : MonitorTells(f, AmountOf(f.inv) + fee)
      PROVE  LimitInv'
    <2>1. f.inv \in Invoice
        BY DEF LimitInv, DayShape
    <2>2. Total(f.inv) \in Nat /\ \A fee \in Fees : AmountOf(f.inv) + fee \in 0 .. Total(f.inv)
        BY <2>1, InvoiceCost
    <2>3. 0 \in 0 .. Total(f.inv)
        BY <2>2
    <2> QED
        BY <1>6, <2>2, <2>3, OutcomeStep
<1> QED
    BY <1>1, <1>2, <1>3, <1>4, <1>5, <1>6, QuietSteps, CheckStep, PaysStep, FlightStep, NewDayStep
       DEF NostrNext, Arrival, CommandStep, Surroundings

\* However payments of a Nostr Wallet Connect command end, late, pending, over midnight or
\* given up waiting for, what the commands of one day spend stays within its daily limit
\* (NwcStore's remainingDailyLimit), while the process lives and learns its payments' outcomes.
THEOREM DailyLimitHolds == NostrSpec => []LimitHolds
<1>1. NostrInit => LimitInv
    BY NostrAssumptions
       DEF NostrInit, LimitInv, TaskShape, DayShape, FlightInv, BudgetInv, OwesToday, TaskAt,
           NoTask
<1>2. LimitInv => LimitHolds
    BY DEF LimitInv, BudgetInv, LimitHolds
<1> QED
    BY <1>1, <1>2, LimitStep, PTL DEF NostrSpec

------------------------------------------------------------------------------
(* What an error reply tells.                                              *)

Busy(e) == running.pc # "idle" /\ running.event = e

\* Nobody is told of an error, and the invoice can be paid.
Untouched(inv) == Payable(inv) /\ <<inv, "error">> \notin told

\* The invoices the task has not paid and does not wait for: the later ones, the one in
\* front of the mint, and those it noted an error for.
NotPaid(k) ==
    \/ k > running.i
    \/ k = running.i /\ running.pc # "settle"
    \/ k < running.i /\ running.out[k] = "error"

\* A command's invoices are untouched until it runs, none is told of while it pays, and an
\* error noted, for the invoice it was noted for, is an invoice that is not paid.
Account(e) ==
    /\ runs[e] = 0 => e \notin waiting /\ ~Busy(e)
    /\ e \in waiting => ~Busy(e)
    /\ runs[e] = 0 \/ e \in waiting \/ (Busy(e) /\ running.pc = "open")
        => \A k \in 1 .. Len(Bill[e]) : Untouched(<<e, k>>)
    /\ Busy(e) /\ running.pc \in {"check", "melt", "settle"} =>
          /\ Len(running.out) = running.i - 1
          /\ \A k \in 1 .. Len(Bill[e]) :
                <<<<e, k>>, "error">> \notin told /\ (NotPaid(k) => Payable(<<e, k>>))
    /\ Busy(e) /\ running.pc = "reply" =>
          \A k \in 1 .. Len(Bill[e]), j \in 1 .. Len(running.out) :
             j = k - Len(Bill[e]) + Len(running.out) /\ running.out[j] = "error"
                => Payable(<<e, k>>)

AccountInv == \A e \in Event \ forgotten : Account(e)

\* Who was told of an error, and is not forgotten, was told the truth.
ToldTrue ==
    \A inv \in Invoice :
        <<inv, "error">> \in told /\ inv[1] \notin forgotten => Payable(inv)

ToldInv == AccountInv /\ ToldTrue

\* A command's invoices are invoices, and no two commands have one in common.
LEMMA InvoiceOf ==
    ASSUME NEW e \in Event, NEW k \in 1 .. Len(Bill[e])
    PROVE  <<e, k>> \in Invoice /\ <<e, k>>[1] = e
    BY DEF Invoice

\* An event the step does not work on keeps its account.
LEMMA AccountKept ==
    ASSUME NEW d \in Event, Account(d), runs'[d] = runs[d], d \in waiting' <=> d \in waiting,
           Busy(d)' <=> Busy(d), Busy(d) => running' = running,
           \A k \in 1 .. Len(Bill[d]) :
              /\ Payable(<<d, k>>) => Payable(<<d, k>>)'
              /\ <<<<d, k>>, "error">> \in told' => <<<<d, k>>, "error">> \in told
    PROVE  Account(d)'
<1>1. \A k \in 1 .. Len(Bill[d]) : Untouched(<<d, k>>) => Untouched(<<d, k>>)'
    BY DEF Untouched
<1>2. CASE ~Busy(d)
    BY <1>1, <1>2 DEF Account
<1>3. CASE Busy(d)
    <2>1. running' = running
        BY <1>3
    <2>2. /\ runs'[d] # 0 /\ d \notin waiting'
        BY <1>3 DEF Account
    <2>3. Busy(d)' /\ running'.pc = "open" => \A k \in 1 .. Len(Bill[d]) : Untouched(<<d, k>>)'
        BY <1>1, <1>3, <2>1 DEF Account
    <2>4. Busy(d)' /\ running'.pc \in {"check", "melt", "settle"} =>
             /\ Len(running'.out) = running'.i - 1
             /\ \A k \in 1 .. Len(Bill[d]) :
                  <<<<d, k>>, "error">> \notin told' /\ (NotPaid(k)' => Payable(<<d, k>>)')
        BY <1>3, <2>1 DEF Account, NotPaid
    <2>5. Busy(d)' /\ running'.pc = "reply" =>
             \A k \in 1 .. Len(Bill[d]), j \in 1 .. Len(running'.out) :
                j = k - Len(Bill[d]) + Len(running'.out) /\ running'.out[j] = "error"
                   => Payable(<<d, k>>)'
        BY <1>3, <2>1 DEF Account
    <2> QED
        BY <2>2, <2>3, <2>4, <2>5 DEF Account
<1> QED
    BY <1>2, <1>3

\* Steps of neither queue nor task, and payments whose outcome nobody waits for.
LEMMA AccountIdle ==
    ASSUME ToldInv, UNCHANGED <<runs, waiting, running, forgotten, told>>,
           \A inv \in Invoice : Payable(inv) => Payable(inv)'
    PROVE  ToldInv'
<1>1. ASSUME NEW d \in Event \ forgotten' PROVE Account(d)'
    <2>1. Account(d) /\ d \in Event
        BY <1>1 DEF ToldInv, AccountInv
    <2>2. \A k \in 1 .. Len(Bill[d]) : Payable(<<d, k>>) => Payable(<<d, k>>)'
        BY <2>1, InvoiceOf
    <2> QED
        BY <2>1, <2>2, AccountKept DEF Busy
<1>2. ToldTrue'
    BY DEF ToldInv, ToldTrue
<1> QED
    BY <1>1, <1>2 DEF ToldInv, AccountInv

\* A command that is queued did not run before, unless its id was forgotten.
LEMMA AcceptAccount ==
    ASSUME RingInv, ToldInv, NEW e \in Event, ~Known(e), Accept(e),
           UNCHANGED <<running, flight, settledAs, told>>
    PROVE  ToldInv'
<1>1. Remember(e) /\ waiting' = waiting \cup {e} /\ runs' = [runs EXCEPT ![e] = @ + 1]
    BY DEF Accept
<1>2. forgotten \subseteq forgotten'
    BY <1>1, RememberKeeps DEF RingInv
<1>3. runs \in [Event -> Nat]
    BY DEF RingInv, RingShape
<1>4. \A inv : (Payable(inv)' <=> Payable(inv)) /\ (Untouched(inv)' <=> Untouched(inv))
    BY DEF Payable, Held, Untouched
<1>5. ASSUME NEW d \in Event \ forgotten' PROVE Account(d)'
    <2>1. Account(d) /\ d \in Event /\ d \notin forgotten
        BY <1>2, <1>5 DEF ToldInv, AccountInv
    <2>2. CASE d = e
        <3>1. runs[e] = 0
            BY <1>3, <2>1, <2>2 DEF RingInv, RanIsKnown
        <3>2. ~Busy(e) /\ \A k \in 1 .. Len(Bill[e]) : Untouched(<<e, k>>)
            BY <2>1, <2>2, <3>1 DEF Account
        <3>3. ~Busy(e)' /\ runs'[e] # 0
            BY <1>1, <1>3, <3>1, <3>2 DEF Busy
        <3>4. \A k \in 1 .. Len(Bill[e]) : Untouched(<<e, k>>)'
            BY <1>4, <3>2
        <3> QED
            BY <2>2, <3>3, <3>4 DEF Account
    <2>3. CASE d # e
        <3>1. runs'[d] = runs[d] /\ (d \in waiting' <=> d \in waiting)
            BY <1>1, <1>3, <2>3
        <3> QED
            BY <1>4, <2>1, <3>1, AccountKept DEF Busy
    <2> QED
        BY <2>2, <2>3
<1>6. ToldTrue'
    BY <1>2, <1>4 DEF ToldInv, ToldTrue
<1> QED
    BY <1>5, <1>6 DEF ToldInv, AccountInv

\* A task of the queue starts: its event has not run before.
LEMMA TakeAccount == ASSUME ToldInv, NEW e \in Event, TakeEvent(e) PROVE ToldInv'
<1>1. /\ running.pc = "idle" /\ e \in waiting /\ waiting' = waiting \ {e}
      /\ running' = [event |-> e, pc |-> "open", i |-> 1, out |-> <<>>]
      /\ UNCHANGED <<runs, forgotten, flight, settledAs, told>>
    BY DEF TakeEvent, TaskAt, relayVars, moneyVars
<1>2. \A inv : (Payable(inv)' <=> Payable(inv)) /\ (Untouched(inv)' <=> Untouched(inv))
    BY <1>1 DEF Payable, Held, Untouched
<1>3. ASSUME NEW d \in Event \ forgotten' PROVE Account(d)'
    <2>1. Account(d) /\ d \in Event
        BY <1>1, <1>3 DEF ToldInv, AccountInv
    <2>2. CASE d = e
        <3>1. runs[e] # 0 /\ \A k \in 1 .. Len(Bill[e]) : Untouched(<<e, k>>)'
            BY <1>1, <1>2, <2>1, <2>2 DEF Account
        <3>2. Busy(e)' /\ running'.pc = "open" /\ e \notin waiting' /\ runs'[e] # 0
            BY <1>1, <3>1 DEF Busy
        <3> QED
            BY <2>2, <3>1, <3>2 DEF Account
    <2>3. CASE d # e
        <3>1. runs'[d] = runs[d] /\ (d \in waiting' <=> d \in waiting) /\ ~Busy(d) /\ ~Busy(d)'
            BY <1>1, <2>3 DEF Busy
        <3> QED
            BY <1>1, <1>2, <2>1, <3>1, AccountKept
    <2> QED
        BY <2>2, <2>3
<1>4. ToldTrue'
    BY <1>1, <1>2 DEF ToldInv, ToldTrue
<1> QED
    BY <1>3, <1>4 DEF ToldInv, AccountInv

\* A message ends its task.
LEMMA MessageAccount == ASSUME ToldInv, HandleMessage PROVE ToldInv'
<1>1. /\ running.pc = "open" /\ running'.pc = "idle"
      /\ UNCHANGED <<runs, waiting, forgotten, flight, settledAs, told>>
    BY DEF HandleMessage, TaskAt, moneyVars, NoTask
<1>2. \A inv : (Payable(inv)' <=> Payable(inv)) /\ (Untouched(inv)' <=> Untouched(inv))
    BY <1>1 DEF Payable, Held, Untouched
<1>3. ASSUME NEW d \in Event \ forgotten' PROVE Account(d)'
    <2>1. Account(d) /\ ~Busy(d)'
        BY <1>1, <1>3 DEF ToldInv, AccountInv, Busy
    <2>2. runs'[d] = 0 => d \notin waiting'
        BY <1>1, <2>1 DEF Account
    <2>3. runs'[d] = 0 \/ d \in waiting' => \A k \in 1 .. Len(Bill[d]) : Untouched(<<d, k>>)'
        BY <1>1, <1>2, <2>1 DEF Account
    <2> QED
        BY <2>1, <2>2, <2>3 DEF Account
<1>4. ToldTrue'
    BY <1>1, <1>2 DEF ToldInv, ToldTrue
<1> QED
    BY <1>3, <1>4 DEF ToldInv, AccountInv

\* A command opens: nothing of it is paid, so a refusal of the whole is the truth.
LEMMA OpenAccount == ASSUME TaskShape, ToldInv, OpenCommand PROVE ToldInv'
<1> DEFINE pc == IF EventKind[running.event] = "query"
                    \/ Len(Bill[running.event]) \notin 1 .. MaxMultiPay
                 THEN "reply" ELSE "check"
           out == IF EventKind[running.event] = "query" THEN <<"result">>
                  ELSE IF Len(Bill[running.event]) > MaxMultiPay THEN <<"error">> ELSE <<>>
           r == [running EXCEPT !.pc = pc]
<1>1. /\ running.pc = "open" /\ running' = [r EXCEPT !.out = out]
      /\ UNCHANGED <<runs, waiting, forgotten, flight, settledAs, told>>
    BY Zenon DEF OpenCommand, TaskAt, relayVars, moneyVars
<1>2. pc \in {"reply", "check"} /\ (pc = "check" => Len(out) = 0)
    BY NostrAssumptions
<1> HIDE DEF pc, out
<1>3. /\ running.event \in Event /\ running.i = 1
      /\ r \in [event : Event \cup {"none"},
               pc : {"idle", "open", "check", "melt", "settle", "reply"},
               i : Nat, out : Seq(Outcome)]
      /\ r.pc = pc /\ r.event = running.event /\ r.i = running.i
    BY <1>1, <1>2 DEF TaskShape
<1> HIDE DEF r
<1>4. /\ running'.pc = pc /\ running'.event = running.event /\ running'.i = 1
      /\ running'.out = out
    BY <1>1, <1>3
<1>5. \A inv : (Payable(inv)' <=> Payable(inv)) /\ (Untouched(inv)' <=> Untouched(inv))
    BY <1>1 DEF Payable, Held, Untouched
<1>6. ASSUME NEW d \in Event \ forgotten' PROVE Account(d)'
    <2>1. Account(d) /\ d \in Event
        BY <1>1, <1>6 DEF ToldInv, AccountInv
    <2>2. Busy(d)' <=> Busy(d)
        BY <1>1, <1>2, <1>4 DEF Busy
    <2>3. CASE Busy(d)
        <3>1. runs[d] # 0 /\ d \notin waiting /\ \A k \in 1 .. Len(Bill[d]) : Untouched(<<d, k>>)
            BY <1>1, <2>1, <2>3 DEF Account
        <3>2. \A k \in 1 .. Len(Bill[d]) :
                 Payable(<<d, k>>)' /\ <<<<d, k>>, "error">> \notin told'
            BY <1>1, <1>5, <3>1 DEF Untouched
        <3>3. running'.pc # "open" /\ (running'.pc \in {"check", "melt", "settle"}
                                         => Len(running'.out) = running'.i - 1)
            BY <1>2, <1>4
        <3> QED
            BY <1>1, <3>1, <3>2, <3>3 DEF Account
    <2>4. CASE ~Busy(d)
        BY <1>1, <1>5, <2>1, <2>2, <2>4, AccountKept
    <2> QED
        BY <2>3, <2>4
<1>7. ToldTrue'
    BY <1>1, <1>5 DEF ToldInv, ToldTrue
<1> QED
    BY <1>6, <1>7 DEF ToldInv, AccountInv

\* One invoice is done with: an error is noted for it only if it can still be paid, and what
\* can be paid of the others stays so.
LEMMA FinishAccount ==
    ASSUME TaskShape, ToldInv, running.pc \in {"check", "melt", "settle"},
           NEW o \in Outcome, Finish(o), UNCHANGED <<runs, waiting, forgotten, told>>,
           NEW at, at = Invoiced,
           o = "error" /\ running.event \notin forgotten => Payable(at)',
           \A inv \in Invoice : inv # at /\ Payable(inv) => Payable(inv)'
    PROVE  ToldInv'
<1> PICK e, i, out : e = running.event /\ i = running.i /\ out = running.out
    OBVIOUS
<1>1. /\ e \in Event /\ i \in 1 .. Len(Bill[e]) /\ out \in Seq(Outcome)
      /\ Len(Bill[e]) \in Nat /\ at = <<e, i>>
    BY NostrAssumptions DEF TaskShape, Invoiced
<1>2. /\ running'.event = e /\ running'.i = i + 1 /\ running'.out = Append(out, o)
      /\ running'.pc = IF i = Len(Bill[e]) THEN "reply" ELSE "check"
    BY DEF Finish, TaskShape
<1>3. ASSUME NEW d \in Event \ forgotten' PROVE Account(d)'
    <2>1. Account(d) /\ d \in Event /\ d \notin forgotten
        BY <1>3 DEF ToldInv, AccountInv
    <2>2. CASE d # e
        <3>1. ~Busy(d) /\ ~Busy(d)'
            BY <1>2, <2>2 DEF Busy
        <3>2. \A k \in 1 .. Len(Bill[d]) : Payable(<<d, k>>) => Payable(<<d, k>>)'
            BY <1>1, <2>1, <2>2, InvoiceOf
        <3> QED
            BY <2>1, <3>1, <3>2, AccountKept
    <2>3. CASE d = e
        <3>1. Busy(e) /\ Busy(e)'
            BY <1>2 DEF Busy
        <3>2. /\ runs[e] # 0 /\ e \notin waiting /\ Len(out) = i - 1
              /\ \A k \in 1 .. Len(Bill[e]) :
                    <<<<e, k>>, "error">> \notin told /\ (NotPaid(k) => Payable(<<e, k>>))
            BY <2>1, <2>3, <3>1 DEF Account
        <3>3. Len(Append(out, o)) = i /\ Append(out, o)[i] = o
              /\ \A k \in 1 .. i - 1 : Append(out, o)[k] = out[k]
            BY <1>1, <3>2
        <3>4. ASSUME NEW k \in 1 .. Len(Bill[e]),
                     k > i \/ (k <= i /\ Append(out, o)[k] = "error")
              PROVE  Payable(<<e, k>>)'
            <4>1. CASE k = i
                <5>1. o = "error" /\ running.event \notin forgotten
                    BY <1>1, <2>1, <2>3, <3>3, <3>4, <4>1
                <5> QED
                    BY <1>1, <4>1, <5>1
            <4>2. CASE k # i
                <5>1. NotPaid(k)
                    BY <1>1, <3>3, <3>4, <4>2 DEF NotPaid
                <5>2. Payable(<<e, k>>)
                    BY <3>2, <5>1
                <5>3. <<e, k>> # at
                    BY <1>1, <4>2
                <5>4. <<e, k>> \in Invoice
                    BY <1>1, InvoiceOf
                <5> QED
                    BY <5>2, <5>3, <5>4
            <4> QED
                BY <4>1, <4>2
        <3>5. CASE i = Len(Bill[e])
            <4>1. running'.pc = "reply" /\ Len(running'.out) = Len(Bill[e])
                BY <1>2, <3>3, <3>5
            <4>2. \A k \in 1 .. Len(Bill[e]), j \in 1 .. Len(running'.out) :
                     j = k - Len(Bill[e]) + Len(running'.out) /\ running'.out[j] = "error"
                        => Payable(<<e, k>>)'
                <5> SUFFICES ASSUME NEW k \in 1 .. Len(Bill[e]), NEW j \in 1 .. Len(running'.out),
                                    j = k - Len(Bill[e]) + Len(running'.out),
                                    running'.out[j] = "error"
                             PROVE  Payable(<<e, k>>)'
                    OBVIOUS
                <5>1. j = k /\ k <= i
                    BY <1>1, <3>5, <4>1
                <5> QED
                    BY <1>2, <3>4, <5>1
            <4> QED
                BY <2>3, <3>1, <3>2, <4>1, <4>2 DEF Account
        <3>6. CASE i # Len(Bill[e])
            <4>1. running'.pc = "check" /\ Len(running'.out) = running'.i - 1
                BY <1>1, <1>2, <3>3, <3>6
            <4>2. \A k \in 1 .. Len(Bill[e]) : NotPaid(k)' => Payable(<<e, k>>)'
                <5> SUFFICES ASSUME NEW k \in 1 .. Len(Bill[e]), NotPaid(k)'
                             PROVE  Payable(<<e, k>>)'
                    OBVIOUS
                <5>1. \/ k > i + 1 \/ k = i + 1
                      \/ k < i + 1 /\ Append(out, o)[k] = "error"
                    BY <1>2 DEF NotPaid
                <5>2. k \in Int /\ i \in Int
                    BY <1>1
                <5>3. CASE k >= i + 1
                    <6>1. k > i
                        BY <5>2, <5>3
                    <6> QED
                        BY <3>4, <6>1
                <5>4. CASE k < i + 1
                    <6>1. k <= i /\ ~(k > i + 1) /\ k # i + 1
                        BY <5>2, <5>4
                    <6>2. Append(out, o)[k] = "error"
                        BY <5>1, <6>1
                    <6> QED
                        BY <3>4, <6>1, <6>2
                <5> QED
                    BY <5>2, <5>3, <5>4
            <4> QED
                BY <2>3, <3>1, <3>2, <4>1, <4>2 DEF Account
        <3> QED
            BY <3>5, <3>6
    <2> QED
        BY <2>2, <2>3
<1>4. ToldTrue'
    <2> SUFFICES ASSUME NEW inv \in Invoice, <<inv, "error">> \in told, inv[1] \notin forgotten
                 PROVE  Payable(inv)'
        BY DEF ToldTrue
    <2>1. inv # at
        <3> SUFFICES ASSUME inv = at PROVE FALSE
            OBVIOUS
        <3>1. Account(e) /\ Busy(e)
            BY <1>1 DEF ToldInv, AccountInv, Busy
        <3> QED
            BY <1>1, <3>1 DEF Account
    <2> QED
        BY <2>1 DEF ToldInv, ToldTrue
<1> QED
    BY <1>3, <1>4 DEF ToldInv, AccountInv

\* The invoice goes in front of the mint, or is waited for.
LEMMA TurnAccount ==
    ASSUME TaskShape, ToldInv, UNCHANGED <<runs, waiting, forgotten, told>>,
           NEW pc \in {"melt", "settle"}, running' = [running EXCEPT !.pc = pc],
           running.pc \in {"check", "melt"},
           NEW at, at = Invoiced, pc = "settle" \/ (Payable(at) => Payable(at)'),
           \A inv \in Invoice : inv # at /\ Payable(inv) => Payable(inv)'
    PROVE  ToldInv'
<1> PICK e, i, out : e = running.event /\ i = running.i /\ out = running.out
    OBVIOUS
<1>1. e \in Event /\ i \in 1 .. Len(Bill[e]) /\ Len(Bill[e]) \in Nat /\ at = <<e, i>>
    BY NostrAssumptions DEF TaskShape, Invoiced
<1>2. running'.event = e /\ running'.i = i /\ running'.out = out /\ running'.pc = pc
    BY DEF TaskShape
<1>3. ASSUME NEW d \in Event \ forgotten' PROVE Account(d)'
    <2>1. Account(d) /\ d \in Event /\ d \notin forgotten
        BY <1>3 DEF ToldInv, AccountInv
    <2>2. CASE d # e
        <3>1. ~Busy(d) /\ ~Busy(d)'
            BY <1>2, <2>2 DEF Busy
        <3>2. \A k \in 1 .. Len(Bill[d]) : Payable(<<d, k>>) => Payable(<<d, k>>)'
            BY <1>1, <2>1, <2>2, InvoiceOf
        <3> QED
            BY <2>1, <3>1, <3>2, AccountKept
    <2>3. CASE d = e
        <3>1. Busy(e) /\ Busy(e)'
            BY <1>2 DEF Busy
        <3>2. /\ runs[e] # 0 /\ e \notin waiting /\ Len(out) = i - 1
              /\ \A k \in 1 .. Len(Bill[e]) :
                    <<<<e, k>>, "error">> \notin told /\ (NotPaid(k) => Payable(<<e, k>>))
            BY <2>1, <2>3, <3>1 DEF Account
        <3>3. \A k \in 1 .. Len(Bill[e]) : NotPaid(k)' => Payable(<<e, k>>)'
            <4> SUFFICES ASSUME NEW k \in 1 .. Len(Bill[e]), NotPaid(k)'
                         PROVE  Payable(<<e, k>>)'
                OBVIOUS
            <4>1. NotPaid(k) /\ (k = i => pc = "melt")
                BY <1>1, <1>2 DEF NotPaid
            <4>2. Payable(<<e, k>>)
                BY <3>2, <4>1
            <4>4. <<e, k>> = at => k = i
                BY <1>1
            <4>3. <<e, k>> \in Invoice
                BY <1>1, InvoiceOf
            <4> QED
                BY <1>1, <4>1, <4>2, <4>3, <4>4
        <3> QED
            BY <1>2, <2>3, <3>1, <3>2, <3>3 DEF Account
    <2> QED
        BY <2>2, <2>3
<1>4. ToldTrue'
    <2> SUFFICES ASSUME NEW inv \in Invoice, <<inv, "error">> \in told, inv[1] \notin forgotten
                 PROVE  Payable(inv)'
        BY DEF ToldTrue
    <2>1. inv # at
        <3> SUFFICES ASSUME inv = at PROVE FALSE
            OBVIOUS
        <3>1. Account(e) /\ Busy(e)
            BY <1>1 DEF ToldInv, AccountInv, Busy
        <3> QED
            BY <1>1, <3>1 DEF Account
    <2> QED
        BY <2>1 DEF ToldInv, ToldTrue
<1> QED
    BY <1>3, <1>4 DEF ToldInv, AccountInv

\* The replies that are left, each with the invoice it is for: once the first one is out,
\* the others are for the invoices they were for.
LEMMA RestInOrder ==
    ASSUME NEW out \in Seq(Outcome), out # <<>>, NEW a \in Nat, NEW good,
           \A k \in 1 .. a, j \in 1 .. Len(out) :
              j = k - a + Len(out) /\ out[j] = "error" => k \in good
    PROVE  \A k \in 1 .. a, j \in 1 .. Len(Tail(out)) :
              j = k - a + Len(Tail(out)) /\ Tail(out)[j] = "error" => k \in good
<1> PICK b \in Nat : b = Len(out)
    OBVIOUS
<1>1. Len(Tail(out)) = b - 1 /\ \A j \in 1 .. b - 1 : Tail(out)[j] = out[j + 1]
    OBVIOUS
<1>2. ASSUME NEW k \in 1 .. a, NEW j \in 1 .. b - 1, j = k - a + (b - 1), out[j + 1] = "error"
      PROVE  k \in good
    <2>1. j + 1 \in 1 .. b /\ j + 1 = k - a + b
        BY <1>2
    <2> QED
        BY <1>2, <2>1
<1> QED
    BY <1>1, <1>2

\* The replies go out in the order of the invoices: an error is told of the invoice it was
\* noted for.
LEMMA ReplyAccount == ASSUME TaskShape, ToldInv, Reply PROVE ToldInv'
<1> PICK e, out : e = running.event /\ out = running.out
    OBVIOUS
<1>1. /\ running.pc = "reply" /\ e \in Event /\ out \in Seq(Outcome) /\ Len(Bill[e]) \in Nat
      /\ UNCHANGED <<runs, waiting, forgotten, flight, settledAs>>
    BY NostrAssumptions DEF Reply, TaskShape, TaskAt, relayVars, moneyVars
<1>2. \A inv : Payable(inv)' <=> Payable(inv)
    BY <1>1 DEF Payable, Held
<1>3. CASE out = <<>>
    <2>1. running'.pc = "idle" /\ told' = told
        BY <1>3 DEF Reply, NoTask
    <2>2. ASSUME NEW d \in Event \ forgotten' PROVE Account(d)'
        <3>1. Account(d) /\ ~Busy(d)'
            BY <1>1, <2>1, <2>2 DEF ToldInv, AccountInv, Busy
        <3>2. \A k \in 1 .. Len(Bill[d]) : Untouched(<<d, k>>) => Untouched(<<d, k>>)'
            BY <1>2, <2>1 DEF Untouched
        <3> QED
            BY <1>1, <3>1, <3>2 DEF Account
    <2>3. ToldTrue'
        BY <1>1, <1>2, <2>1 DEF ToldInv, ToldTrue
    <2> QED
        BY <2>2, <2>3 DEF ToldInv, AccountInv
<1>4. CASE out # <<>>
    <2>0. Len(Bill[e]) - Len(out) + 1 \in Int
        BY <1>1
    <2> PICK n \in Int : n = Len(Bill[e]) - Len(out) + 1
        BY <2>0, Zenon
    <2>1. /\ running' = [running EXCEPT !.out = Tail(@)]
          /\ \A x : x \in told' => x \in told \/ (x = <<<<e, n>>, Head(out)>>)
        BY <1>4 DEF Reply
    <2>2. Tail(out) \in Seq(Outcome) /\ Len(Tail(out)) = Len(out) - 1 /\ Len(out) \in Nat \ {0}
          /\ \A j \in 1 .. Len(out) - 1 : Tail(out)[j] = out[j + 1]
        BY <1>1, <1>4
    <2>3. running'.event = e /\ running'.pc = "reply" /\ running'.out = Tail(out)
        BY <1>1, <2>1 DEF TaskShape
    <2>4. ASSUME NEW d \in Event \ forgotten' PROVE Account(d)'
        <3>1. Account(d) /\ d \in Event
            BY <1>1, <2>4 DEF ToldInv, AccountInv
        <3>2. CASE d # e
            <4>1. ~Busy(d) /\ ~Busy(d)'
                BY <2>3, <3>2 DEF Busy
            <4>2. \A k \in 1 .. Len(Bill[d]) :
                     <<<<d, k>>, "error">> \in told' => <<<<d, k>>, "error">> \in told
                BY <2>1, <3>2
            <4> QED
                BY <1>1, <1>2, <3>1, <4>1, <4>2, AccountKept
        <3>3. CASE d = e
            <4>1. Busy(e) /\ Busy(e)'
                BY <1>1, <2>3 DEF Busy
            <4>2. /\ runs[e] # 0 /\ e \notin waiting
                  /\ \A k \in 1 .. Len(Bill[e]), j \in 1 .. Len(out) :
                        j = k - Len(Bill[e]) + Len(out) /\ out[j] = "error"
                           => Payable(<<e, k>>)
                BY <1>1, <3>1, <3>3, <4>1 DEF Account
            <4>3. \A k \in 1 .. Len(Bill[e]), j \in 1 .. Len(Tail(out)) :
                     j = k - Len(Bill[e]) + Len(Tail(out)) /\ Tail(out)[j] = "error"
                        => Payable(<<e, k>>)'
                <5> PICK good : good = {k \in 1 .. Len(Bill[e]) : Payable(<<e, k>>)'}
                    OBVIOUS
                <5>1. \A k \in 1 .. Len(Bill[e]), j \in 1 .. Len(out) :
                         j = k - Len(Bill[e]) + Len(out) /\ out[j] = "error" => k \in good
                    BY <1>2, <4>2, Zenon
                <5>2. \A k \in 1 .. Len(Bill[e]), j \in 1 .. Len(Tail(out)) :
                         j = k - Len(Bill[e]) + Len(Tail(out)) /\ Tail(out)[j] = "error"
                            => k \in good
                    BY <1>1, <1>4, <5>1, RestInOrder, Zenon
                <5> QED
                    BY <5>2
            <4> QED
                BY <1>1, <2>3, <3>3, <4>1, <4>2, <4>3 DEF Account
        <3> QED
            BY <3>2, <3>3
    <2>5. ToldTrue'
        <3> SUFFICES ASSUME NEW inv \in Invoice, <<inv, "error">> \in told', inv[1] \notin forgotten
                     PROVE  Payable(inv)'
            BY <1>1 DEF ToldTrue
        <3>1. CASE <<inv, "error">> \in told
            BY <1>2, <3>1 DEF ToldInv, ToldTrue
        <3>2. CASE inv = <<e, n>> /\ Head(out) = "error"
            <4>1. out[1] = "error" /\ e \notin forgotten
                BY <1>1, <1>4, <3>2
            <4>5. n \in 1 .. Len(Bill[e])
                <5>1. PICK d \in Event : \E k \in 1 .. Len(Bill[d]) : inv = <<d, k>>
                    BY DEF Invoice
                <5> QED
                    BY <3>2, <5>1
            <4>2. Account(e) /\ Busy(e)
                BY <1>1, <4>1 DEF ToldInv, AccountInv, Busy
            <4>3. 1 \in 1 .. Len(out) /\ 1 = n - Len(Bill[e]) + Len(out)
                BY <1>1, <2>2
            <4>4. Payable(<<e, n>>)
                BY <1>1, <4>1, <4>2, <4>3, <4>5 DEF Account
            <4> QED
                BY <1>2, <3>2, <4>4
        <3> QED
            BY <2>1, <3>1, <3>2
    <2> QED
        BY <2>4, <2>5 DEF ToldInv, AccountInv
<1> QED
    BY <1>3, <1>4

\* A command that stops waiting says nothing of its payment.
LEMMA StopAccount ==
    ASSUME TaskShape, ToldInv, StopWaiting,
           UNCHANGED <<runs, waiting, forgotten, flight, settledAs, told>>
    PROVE  ToldInv'
<1>1. \A inv : Payable(inv)' <=> Payable(inv)
    BY DEF Payable, Held
<1>2. CASE TaskAt("settle")
    <2>1. Finish("pending") /\ "pending" \in Outcome /\ running.pc \in {"check", "melt", "settle"}
        BY <1>2 DEF StopWaiting, Outcome, TaskAt
    <2> QED
        BY <1>1, <2>1, FinishAccount
<1>3. CASE ~TaskAt("settle")
    BY <1>1, <1>3, AccountIdle DEF StopWaiting
<1> QED
    BY <1>2, <1>3

\* A payment that is settled was under way, so nobody was told that it failed.
LEMMA OutcomeAccount ==
    ASSUME LimitInv, FlightInv, ToldInv, nwcFaults \in Nat, NEW f \in flight, NEW cost \in Nat,
           MonitorTells(f, cost), nwcFaults' = 0
    PROVE  ToldInv'
<1>1. /\ flight' = flight \ {f}
      /\ settledAs' = [x \in DOMAIN settledAs \cup {f.inv} |->
                          IF x = f.inv THEN cost ELSE settledAs[x]]
      /\ UNCHANGED <<runs, waiting, forgotten, told>>
    BY DEF MonitorTells, Settle, relayVars
<1>2. \A inv : inv # f.inv /\ Payable(inv) => Payable(inv)'
    BY <1>1 DEF Payable, Held
<1>3. CASE TaskAt("settle") /\ Invoiced = f.inv
    <2>1. PICK o \in {"paid", "error"} : Finish(o) /\ (o = "error" => cost = 0)
        BY <1>3 DEF MonitorTells, Announce
    <2>2. o = "error" => Payable(f.inv)'
        <3>1. f.inv \notin Held'
            BY <1>1 DEF Held, FlightInv
        <3>2. cost = 0 => settledAs'[f.inv] = 0
            BY <1>1
        <3> QED
            BY <2>1, <3>1, <3>2 DEF Payable
    <2>3. running.pc \in {"check", "melt", "settle"} /\ o \in Outcome /\ TaskShape
        BY <1>3 DEF TaskAt, Outcome, LimitInv
    <2> QED
        BY <1>1, <1>2, <1>3, <2>1, <2>2, <2>3, FinishAccount
<1>4. CASE ~(TaskAt("settle") /\ Invoiced = f.inv)
    <2>1. running' = running
        BY <1>4 DEF MonitorTells
    <2>2. ~Payable(f.inv)
        BY DEF Payable, Held
    <2> QED
        BY <1>1, <1>2, <2>1, <2>2, AccountIdle
<1> QED
    BY <1>3, <1>4

\* A payment is the invoice's in front of the mint, and no other's.
LEMMA PaidAccount ==
    ASSUME LimitInv, ToldInv, nwcFaults \in Nat, nwcFaults' = 0,
           MeltPending \/ MeltUnknown \/ \E fee \in Fees : MeltPays(fee)
    PROVE  ToldInv'
<1> PICK at : at = Invoiced
    OBVIOUS
<1>1. TaskShape /\ running.pc = "melt"
    BY DEF LimitInv, MeltPending, MeltUnknown, MeltPays, TaskAt
<1>2. ~MeltUnknown
    BY DEF MeltUnknown
<1>3. CASE MeltPending
    <2>1. /\ flight' = flight \cup {[inv |-> Invoiced, day |-> limitDay]}
          /\ running' = [running EXCEPT !.pc = "settle"]
          /\ UNCHANGED <<runs, waiting, forgotten, settledAs, told>>
        BY <1>3 DEF MeltPending, relayVars
    <2>2. \A inv \in Invoice : inv # at /\ Payable(inv) => Payable(inv)'
        BY <2>1 DEF Payable, Held
    <2> QED
        BY <1>1, <2>1, <2>2, TurnAccount
<1>4. ASSUME NEW fee \in Fees, MeltPays(fee) PROVE ToldInv'
    <2>1. /\ Settle(Invoiced, AmountOf(Invoiced) + fee) /\ Finish("paid")
          /\ UNCHANGED <<runs, waiting, forgotten, flight, told>>
        BY <1>4 DEF MeltPays, Announce, relayVars
    <2>2. \A inv \in Invoice : inv # at /\ Payable(inv) => Payable(inv)'
        BY <2>1 DEF Settle, Payable, Held
    <2>3. "paid" \in Outcome
        BY DEF Outcome
    <2> QED
        BY <1>1, <2>1, <2>2, <2>3, FinishAccount
<1> QED
    BY <1>2, <1>3, <1>4

\* An invoice that is refused before the mint took it is an invoice that is not paid.
LEMMA RefusedAccount ==
    ASSUME LimitInv, ToldInv, CheckInvoice \/ MeltFails
    PROVE  ToldInv'
<1> PICK at : at = Invoiced
    OBVIOUS
<1>1. /\ TaskShape /\ running.pc \in {"check", "melt"} /\ "error" \in Outcome
      /\ Finish("error") \/ running' = [running EXCEPT !.pc = "melt"]
      /\ UNCHANGED <<runs, waiting, forgotten, flight, settledAs, told>>
    BY DEF LimitInv, CheckInvoice, MeltFails, TaskAt, Outcome, relayVars, moneyVars
<1>2. \A inv : Payable(inv)' <=> Payable(inv)
    BY <1>1 DEF Payable, Held
<1>3. CASE running' = [running EXCEPT !.pc = "melt"]
    BY <1>1, <1>2, <1>3, TurnAccount
<1>4. CASE Finish("error")
    <2>1. running.event \notin forgotten => Payable(at)
        <3> SUFFICES ASSUME running.event \notin forgotten PROVE Payable(at)
            OBVIOUS
        <3> PICK e, i : e = running.event /\ i = running.i
            OBVIOUS
        <3>1. e \in Event /\ i \in 1 .. Len(Bill[e]) /\ at = <<e, i>>
            BY <1>1 DEF TaskShape, Invoiced
        <3>2. Account(e) /\ Busy(e) /\ NotPaid(i)
            BY <1>1, <3>1 DEF ToldInv, AccountInv, Busy, NotPaid
        <3> QED
            BY <1>1, <3>1, <3>2 DEF Account
    <2> QED
        BY <1>1, <1>2, <1>4, <2>1, FinishAccount
<1> QED
    BY <1>1, <1>3, <1>4

\* What the commands' invoices come to keeps true at every step without a fault.
LEMMA AccountStep ==
    ASSUME RingInv, LimitInv, nwcFaults = 0 => ToldInv, [NostrNext]_nostrVars
    PROVE  nwcFaults' = 0 => ToldInv'
<1> SUFFICES ASSUME nwcFaults' = 0 PROVE ToldInv'
    OBVIOUS
<1>1. nwcFaults \in Nat
    BY DEF LimitInv, DayShape
<1>2. nwcFaults = 0
    <2>1. Arrival => nwcFaults' = nwcFaults
        BY DEF Arrival, Publish, Push, NwcDelivers, MessageDelivers, ListenAgain, NwcCloses,
           SubscribeMessages, OpenScreen
    <2>2. CommandStep => nwcFaults' = nwcFaults \/ nwcFaults' = nwcFaults + 1
        BY DEF CommandStep, TakeEvent, HandleMessage, OpenCommand, CheckInvoice, Reply, MeltFails,
           MeltPending, MeltPays, Announce
    <2>3. Backstop => nwcFaults' = nwcFaults
        BY DEF Backstop
    <2>4. ASSUME NEW f, NEW cost, MonitorTells(f, cost)
          PROVE  nwcFaults' = nwcFaults \/ nwcFaults' = nwcFaults + 1
        BY <2>4 DEF MonitorTells, Announce
    <2>5. Surroundings => nwcFaults' = nwcFaults \/ nwcFaults' = nwcFaults + 1
        BY <2>4 DEF Surroundings, MeltUnknown, ReplyFails, RestartNostr, NewDay, ServiceOpens,
           ServiceCloses
    <2> QED
        BY <1>1, <2>1, <2>2, <2>3, <2>5 DEF NostrNext, nostrVars
<1>3. ToldInv /\ FlightInv /\ TaskShape
    BY <1>2 DEF LimitInv
<1>4. UNCHANGED <<flight, settledAs>> => \A inv \in Invoice : Payable(inv) => Payable(inv)'
    BY DEF Payable, Held
<1>5. CASE UNCHANGED nostrVars
    BY <1>3, <1>4, <1>5, AccountIdle DEF nostrVars
<1>6. ASSUME NEW e \in Event, Push(e) PROVE ToldInv'
    <2>1. UNCHANGED <<running, flight, settledAs, told>>
        BY <1>6 DEF Push, moneyVars
    <2>2. CASE Known(e)
        BY <1>3, <1>4, <1>6, <2>1, <2>2, AccountIdle DEF Push
    <2>3. CASE ~Known(e)
        BY <1>3, <1>6, <2>1, <2>3, AcceptAccount DEF Push
    <2> QED
        BY <2>2, <2>3
<1>7. ASSUME NEW e \in Event, NwcDelivers(e) \/ MessageDelivers(e) PROVE ToldInv'
    BY <1>3, <1>7, AcceptAccount DEF NwcDelivers, MessageDelivers, moneyVars
<1>8. ASSUME NEW e \in Event, Publish(e) PROVE ToldInv'
    BY <1>3, <1>4, <1>8, AccountIdle DEF Publish, moneyVars
<1>9. CASE ListenAgain \/ NwcCloses \/ SubscribeMessages
    BY <1>3, <1>4, <1>9, AccountIdle DEF ListenAgain, NwcCloses, SubscribeMessages, moneyVars
<1>10. CASE OpenScreen \/ NewDay
    BY <1>3, <1>4, <1>10, AccountIdle DEF OpenScreen, NewDay, relayVars, moneyVars
<1>11. ASSUME NEW e \in Event, TakeEvent(e) PROVE ToldInv'
    BY <1>3, <1>11, TakeAccount
<1>12. CASE HandleMessage
    BY <1>3, <1>12, MessageAccount
<1>13. CASE OpenCommand
    BY <1>3, <1>13, OpenAccount
<1>14. CASE Reply
    BY <1>3, <1>14, ReplyAccount
<1>15. CASE CheckInvoice \/ MeltFails
    BY <1>3, <1>15, RefusedAccount
<1>16. ASSUME MeltPending \/ MeltUnknown \/ \E fee \in Fees : MeltPays(fee) PROVE ToldInv'
    BY <1>1, <1>3, <1>16, PaidAccount
<1>17. CASE Backstop
    BY <1>3, <1>17, StopAccount DEF Backstop, relayVars, moneyVars
<1>18. CASE ServiceOpens
    <2>1. UNCHANGED <<runs, waiting, forgotten, flight, settledAs, told>>
        BY <1>18 DEF ServiceOpens, moneyVars
    <2> QED
        BY <1>3, <1>4, <1>18, <2>1, StopAccount, AccountIdle DEF ServiceOpens
<1>19. CASE ServiceCloses
    BY <1>3, <1>19, StopAccount DEF ServiceCloses, moneyVars
<1>20. ~ReplyFails /\ ~RestartNostr
    BY <1>1 DEF ReplyFails, RestartNostr
<1>21. ASSUME NEW f \in flight,
              \/ MonitorTells(f, 0)
              \/ \E fee \in Fees : MonitorTells(f, AmountOf(f.inv) + fee)
       PROVE  ToldInv'
    <2>1. f.inv \in Invoice
        BY DEF LimitInv, DayShape
    <2>2. \A fee \in Fees : AmountOf(f.inv) + fee \in Nat
        BY <2>1, InvoiceCost
    <2> QED
        BY <1>1, <1>3, <1>21, <2>2, OutcomeAccount
<1> QED
    BY <1>5, <1>6, <1>7, <1>8, <1>9, <1>10, <1>11, <1>12, <1>13, <1>14, <1>15, <1>16, <1>17,
       <1>18, <1>19, <1>20, <1>21
       DEF NostrNext, Arrival, CommandStep, Surroundings

\* Whoever is told of an error by NwcStore does not pay the invoice twice: it is not paid, is
\* not being paid and will not be, for any commands of any number of invoices, as long as the
\* process lives, learns its payments' outcomes and remembers the command.
THEOREM ErrorsAreTrue == NostrSpec => []ErrorMeansUnpaid
<1> DEFINE Inv == RingInv /\ LimitInv /\ (nwcFaults = 0 => ToldInv)
<1>1. NostrInit => Inv
    <2> SUFFICES ASSUME NostrInit PROVE Inv
        OBVIOUS
    <2>1. RingInv
        BY NostrAssumptions DEF NostrInit, RingInv, RingShape, RanIsKnown, HandledOnce
    <2>2. LimitInv
        BY NostrAssumptions
           DEF NostrInit, LimitInv, TaskShape, DayShape, FlightInv, BudgetInv, OwesToday, TaskAt,
               NoTask
    <2>3. \A inv : Payable(inv) /\ <<inv, "error">> \notin told
        BY DEF NostrInit, Payable, Held
    <2>4. \A e \in Event : Account(e)
        BY <2>3 DEF NostrInit, Account, Untouched, Busy, NoTask
    <2> QED
        BY <2>1, <2>2, <2>3, <2>4 DEF ToldInv, AccountInv, ToldTrue
<1>2. Inv /\ [NostrNext]_nostrVars => Inv'
    BY RingStep, LimitStep, AccountStep
<1>3. Inv => ErrorMeansUnpaid
    BY DEF ToldInv, ToldTrue, Payable, ErrorMeansUnpaid
<1> QED
    BY <1>1, <1>2, <1>3, PTL DEF NostrSpec
===============================================================================
