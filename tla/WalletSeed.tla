------------------------------ MODULE WalletSeed ------------------------------
(***************************************************************************)
(* The wallet's seed and how far it has been used, over launches, wakes,   *)
(* upgrades, reinstalls, recovery and the factory reset.  Four stores hold *)
(* parts of it: the keychain, SQLite, the snapshot in MMKV and memory.     *)
(*                                                                         *)
(* One mint with one keyset.  A legacy snapshot holds its counter, with    *)
(* the mint or, of a mint that was removed, among the backups.  Launch     *)
(* steps run one after the other before a screen is shown; the process may *)
(* die at each.                                                            *)
(***************************************************************************)
EXTENDS Integers, FiniteSets

CONSTANTS
    Seed,           \* seeds that mnemonics stand for
    RestoreInterval,    \* indices of one round of recovery
    MaxIndex,       \* indices of the keyset
    Phones,         \* first states: what a phone holds, and bounds of what happens to it
    NoSeed

\* Versions of the root store: counters, then backups moved to SQLite; new terms; this one.
CountersMoved == 33
BackupsMoved == 36
TermsChanged == 37
RootVersion == 39

Higher(a, b) == IF a >= b THEN a ELSE b

\* The counter a snapshot holds that SQLite is yet to get.
Carried(snapshot) ==
    IF \/ snapshot.holder = "mint" /\ snapshot.version < CountersMoved
       \/ snapshot.holder = "backup" /\ snapshot.version < BackupsMoved
    THEN snapshot.index ELSE 0

\* A phone the wallet itself left: what was signed is below a counter, and a counter among the
\* backups is one of a mint that was removed.
ASSUME WalletSeedAssumptions ==
    /\ NoSeed \notin Seed
    /\ RestoreInterval \in Nat \ {0} /\ MaxIndex \in Nat
    /\ \A p \in Phones :
        /\ p.known \in SUBSET Seed /\ p.keychain \in p.known \cup {NoSeed}
        /\ p.signed \in SUBSET Nat
        /\ p.schema \in {"none", "old", "built"} /\ p.holder \in {"none", "mint", "backup"}
        /\ {p.row, p.held, p.version, p.kills, p.wipes, p.faults,
            p.rounds, p.draws} \subseteq Nat
        /\ {p.mint, p.onboarded} \subseteq BOOLEAN
        /\ p.onboarded => p.keychain # NoSeed
        /\ p.holder = "backup" => ~p.mint
        /\ p.keychain # NoSeed =>
            \A i \in p.signed :
                i < Higher(p.row, Carried([index |-> p.held, holder |-> p.holder,
                                           version |-> p.version]))

VARIABLES
    keychain,       \* the seed of the stored keys
    disk,           \* SQLite: schema, row of the counter, row of the mint
    saved,          \* the snapshot in MMKV
    app,            \* the process: its step or screen, and what it has in memory
    signedBy,       \* seed -> indices the mint signed
    known,          \* seeds that exist: made by a wallet, perhaps written down
    stray,          \* the keychain's seed lost its counter with the data of the app
    repeated,       \* indices of a seed derived again
    doubts,         \* what happened that the code does not make up for
    scope           \* what is left of kills, wipes, faults, rounds of recovery and draws

seedVars == <<keychain, disk, saved, app, signedBy, known, stray, repeated, doubts, scope>>

NoCache == [seed |-> NoSeed, next |-> 0]
NoDraw == [next |-> 0, live |-> FALSE]
Nothing == [index |-> 0, holder |-> "none"]

\* The default of every field: what a process starts with.
Off == [at |-> "off", onboarded |-> FALSE, version |-> RootVersion, mint |-> FALSE, index |-> 0,
        raw |-> Nothing, fresh |-> FALSE, orphan |-> FALSE, lean |-> FALSE, woken |-> FALSE,
        copied |-> FALSE, typed |-> NoSeed, from |-> 0, walked |-> 0, cache |-> NoCache,
        call |-> NoDraw]

EmptySnapshot == [version |-> RootVersion, onboarded |-> FALSE, index |-> 0, holder |-> "none"]
EmptyDisk == [schema |-> "none", row |-> 0, mint |-> FALSE]

SeedInit ==
    \E p \in Phones :
        /\ keychain = p.keychain /\ known = p.known /\ app = Off
        /\ disk = [schema |-> p.schema, row |-> p.row, mint |-> p.mint]
        /\ saved = [version |-> p.version, onboarded |-> p.onboarded, index |-> p.held,
                    holder |-> p.holder]
        /\ signedBy = [s \in Seed |-> IF s \in p.known THEN p.signed ELSE {}]
        /\ scope = [kills |-> p.kills, wipes |-> p.wipes, faults |-> p.faults,
                   rounds |-> p.rounds, draws |-> p.draws]
        /\ stray = FALSE /\ repeated = {} /\ doubts = {}

AtHome(a) == IF a.lean THEN "awake" ELSE IF a.onboarded THEN "wallet" ELSE "welcome"

\* onSnapshot: mints, counters and proofs are left out of what is saved.
Stripped(a) == [version |-> a.version, onboarded |-> a.onboarded, index |-> 0, holder |-> "none"]

Fault == scope.faults > 0 /\ scope' = [scope EXCEPT !.faults = @ - 1]

ghostsOfSeed == <<signedBy, known, stray, repeated>>

-----------------------------------------------------------------------------
(* setupRootStore.                                                         *)

\* load and applySnapshot.  A push of a wallet connection wakes the process without a screen.
Start(lean) ==
    /\ app.at = "off"
    /\ lean => saved.onboarded
    /\ app' = [app EXCEPT !.at = "schema", !.version = saved.version, !.lean = lean,
                          !.onboarded = saved.onboarded, !.mint = (saved.holder = "mint"),
                          !.raw = [index |-> saved.index, holder |-> saved.holder]]
    /\ UNCHANGED <<keychain, disk, saved, ghostsOfSeed, doubts, scope>>

\* The app is opened after a wake: the same again over the living stores, which loses the
\* cached seed wallets; the database is open.
Open ==
    /\ app.at = "awake"
    /\ app' = [app EXCEPT !.at = "mints", !.version = saved.version, !.lean = FALSE,
                          !.woken = TRUE, !.onboarded = saved.onboarded,
                          !.mint = (saved.holder = "mint"), !.index = 0, !.cache = NoCache,
                          !.call.live = FALSE,
                          !.raw = [index |-> saved.index, holder |-> saved.holder]]
    /\ doubts' = IF app.call # NoDraw THEN doubts \cup {"reopened"} ELSE doubts
    /\ UNCHANGED <<keychain, disk, saved, ghostsOfSeed, scope>>

AfterHydration(a) == IF a.version < RootVersion THEN "counters" ELSE AtHome(a)

\* getInstance: build the tables, or migrate them in one batch.  A batch that throws ends
\* the hydration, and the next call hands out the database as it is.
OpenSchema ==
    /\ app.at = "schema"
    /\ \/ /\ disk.schema \in {"none", "unstamped"}
          /\ disk' = [disk EXCEPT !.schema = "unstamped"]
          /\ app' = [app EXCEPT !.at = "stamp"] /\ UNCHANGED <<scope, doubts>>
       \/ /\ disk.schema \in {"old", "built"}
          /\ disk' = [disk EXCEPT !.schema = "built"]
          /\ app' = [app EXCEPT !.at = "mints"] /\ UNCHANGED <<scope, doubts>>
       \/ /\ disk.schema = "old" /\ Fault /\ doubts' = doubts \cup {"migration"}
          /\ app' = [app EXCEPT !.at = AfterHydration(app)] /\ UNCHANGED disk
    /\ UNCHANGED <<keychain, saved, ghostsOfSeed>>

\* The version row, after the tables.
StampSchema ==
    /\ app.at = "stamp"
    /\ disk' = [disk EXCEPT !.schema = "built"]
    /\ app' = [app EXCEPT !.at = "mints", !.fresh = TRUE]
    /\ UNCHANGED <<keychain, saved, ghostsOfSeed, doubts, scope>>

\* hydrateMintsFromDatabase: fresh nodes of the stored mints, or the snapshot's written through.
HydrateMints ==
    /\ app.at = "mints"
    /\ IF disk.schema = "built"
       THEN /\ disk' = [disk EXCEPT !.mint = @ \/ app.mint]
            /\ app' = [app EXCEPT !.at = "orphan", !.mint = disk'.mint, !.index = 0]
       ELSE app' = [app EXCEPT !.at = AfterHydration(app)] /\ UNCHANGED disk
    /\ UNCHANGED <<keychain, saved, ghostsOfSeed, doubts, scope>>

\* captureOrphanedSeed: once in a process.
CaptureOrphanedSeed ==
    /\ app.at = "orphan"
    /\ app' = [app EXCEPT !.at = "hydrate",
                          !.orphan = IF app.woken THEN @ ELSE app.fresh /\ keychain # NoSeed,
                          !.fresh = FALSE]
    /\ UNCHANGED <<keychain, disk, saved, ghostsOfSeed, doubts, scope>>

\* hydrateCountersFromDatabase, and the listener that saves snapshots.
HydrateIndex ==
    /\ app.at = "hydrate"
    /\ app' = [app EXCEPT !.at = AfterHydration(app),
                          !.index = IF app.mint THEN Higher(@, disk.row) ELSE @]
    /\ UNCHANGED <<keychain, disk, saved, ghostsOfSeed, doubts, scope>>

\* Bug: the counter is taken from the restored tree, where it is volatile and 0.
SeedCountersOfTree(holder, moved, next) ==
    /\ disk' = [disk EXCEPT !.row = Higher(@, app.index)]
    /\ app' = [app EXCEPT !.at = next]
    /\ UNCHANGED <<doubts, scope>>

\* seedCounters: one batch that only raises the counter, then the memory; or it throws, the
\* version stays and the rest of the migration is left out.
SeedCounters(holder, moved, next) ==
    IF app.version < moved /\ app.raw.holder = holder /\ app.raw.index > 0
    THEN \/ /\ disk' = [disk EXCEPT !.row = Higher(@, app.raw.index)]
            /\ app' = [app EXCEPT !.at = next,
                                  !.index = IF app.mint /\ holder = "mint"
                                            THEN Higher(@, disk'.row) ELSE @]
            /\ UNCHANGED <<doubts, scope>>
         \/ /\ Fault /\ doubts' = doubts \cup {"seeding"}
            /\ app' = [app EXCEPT !.at = AtHome(app)] /\ UNCHANGED disk
         \/ /\ disk.schema # "built" /\ app' = [app EXCEPT !.at = AtHome(app)]
            /\ UNCHANGED <<disk, doubts, scope>>
    ELSE app' = [app EXCEPT !.at = next] /\ UNCHANGED <<disk, doubts, scope>>

MigrateCounters ==
    /\ app.at = "counters" /\ SeedCounters("mint", CountersMoved, "backups")
    /\ UNCHANGED <<keychain, saved, ghostsOfSeed>>

MigrateBackups ==
    /\ app.at = "backups" /\ SeedCounters("backup", BackupsMoved, "terms")
    /\ UNCHANGED <<keychain, saved, ghostsOfSeed>>

\* A change of the model is saved at once.
MigrateTerms ==
    /\ app.at = "terms"
    /\ IF app.version < TermsChanged
       THEN /\ app' = [app EXCEPT !.at = "version", !.onboarded = FALSE]
            /\ saved' = Stripped(app')
       ELSE app' = [app EXCEPT !.at = "version"] /\ UNCHANGED saved
    /\ UNCHANGED <<keychain, disk, ghostsOfSeed, doubts, scope>>

SetVersion ==
    /\ app.at = "version"
    /\ app' = [app EXCEPT !.at = AtHome(app), !.version = RootVersion, !.raw = Nothing]
    /\ saved' = Stripped(app')
    /\ UNCHANGED <<keychain, disk, ghostsOfSeed, doubts, scope>>

-----------------------------------------------------------------------------
(* Onboarding: WelcomeScreen and OrphanedSeedScreen.                       *)

\* gotoWallet up to the keys: ask about an orphan, reuse what there is, or make new ones.
GotoWallet ==
    /\ app.at = "welcome"
    /\ \/ /\ keychain # NoSeed /\ app.orphan
          /\ app' = [app EXCEPT !.at = "orphaned", !.copied = FALSE]
          /\ UNCHANGED <<keychain, known, doubts>>
       \/ /\ keychain # NoSeed /\ ~app.orphan
          /\ app' = [app EXCEPT !.at = "enroll"]
          /\ doubts' = IF stray THEN doubts \cup {"unasked"} ELSE doubts
          /\ UNCHANGED <<keychain, known>>
       \/ \E s \in Seed \ known :
          /\ keychain = NoSeed
          /\ keychain' = s /\ known' = known \cup {s}
          /\ app' = [app EXCEPT !.at = "enroll"] /\ UNCHANGED doubts
    /\ UNCHANGED <<disk, saved, signedBy, stray, repeated, scope>>

\* The default mint of the enrolment, or one added on the way into recovery: the counter is
\* read back.
AddDefaultMint ==
    /\ app.at \in {"enroll", "recover", "enrollRecovered"} /\ ~app.mint
    /\ disk' = [disk EXCEPT !.mint = disk.schema = "built"]
    /\ app' = [app EXCEPT !.mint = TRUE, !.index = Higher(@, disk.row)]
    /\ UNCHANGED <<keychain, saved, ghostsOfSeed, doubts, scope>>

\* The enrolment and the profile: the server answers and the wallet is onboarded, or an error.
Enrolled ==
    /\ app.at \in {"enroll", "enrollRecovered"} /\ app.mint
    /\ app' = [app EXCEPT !.at = "wallet", !.onboarded = TRUE, !.typed = NoSeed, !.from = 0,
                          !.walked = 0]
    /\ saved' = Stripped(app')
    /\ UNCHANGED <<keychain, disk, ghostsOfSeed, doubts, scope>>

EnrollFails ==
    /\ app.at \in {"enroll", "enrollRecovered"} /\ Fault
    /\ app' = [app EXCEPT !.at = IF @ = "enroll" THEN "welcome" ELSE "recover"]
    /\ UNCHANGED <<keychain, disk, saved, ghostsOfSeed, doubts>>

CopySeed ==
    /\ app.at = "orphaned" /\ ~app.copied
    /\ app' = [app EXCEPT !.copied = TRUE]
    /\ UNCHANGED <<keychain, disk, saved, ghostsOfSeed, doubts, scope>>

BackToWelcome ==
    /\ app.at = "orphaned" /\ app' = [app EXCEPT !.at = "welcome"]
    /\ UNCHANGED <<keychain, disk, saved, ghostsOfSeed, doubts, scope>>

\* onStartFresh: the keys, then the flag.
StartFresh ==
    /\ app.at = "orphaned"
    /\ keychain' = NoSeed /\ stray' = FALSE
    /\ app' = [app EXCEPT !.at = "welcome", !.orphan = FALSE]
    /\ UNCHANGED <<disk, saved, signedBy, known, repeated, doubts, scope>>

-----------------------------------------------------------------------------
(* SeedRecoveryScreen, from the screen of the orphan or from the wallet.   *)

EnterRecovery(s) ==
    /\ app.at = "wallet" \/ (app.at = "orphaned" /\ app.copied)
    /\ s \in known
    /\ app' = [app EXCEPT !.at = "recover", !.typed = s, !.from = 0, !.walked = 0]
    /\ UNCHANGED <<keychain, disk, saved, ghostsOfSeed, doubts, scope>>

\* Back, from the header or the device.
LeaveRecovery ==
    /\ app.at = "recover"
    /\ app' = [app EXCEPT !.at = AtHome(app), !.typed = NoSeed, !.walked = 0]
    /\ UNCHANGED <<keychain, disk, saved, ghostsOfSeed, doubts, scope>>

RoundMoves(a) == [a EXCEPT !.from = @ + RestoreInterval]

Rounds == scope.rounds > 0 /\ scope' = [scope EXCEPT !.rounds = @ - 1]

\* doRecovery: the counter goes on by the interval when the mint had signed something in it.
Round ==
    LET found == signedBy[app.typed] \cap (app.from..(app.from + RestoreInterval - 1))
    IN /\ app.at = "recover" /\ app.mint /\ Rounds
       /\ IF found # {}
          THEN /\ disk' = [disk EXCEPT !.row = @ + RestoreInterval]
               /\ app' = [RoundMoves(app) EXCEPT
                            !.index = @ + RestoreInterval,
                            !.walked = IF app.from = @ THEN @ + RestoreInterval ELSE @]
          ELSE app' = RoundMoves(app) /\ UNCHANGED disk
       /\ UNCHANGED <<keychain, saved, ghostsOfSeed, doubts>>

\* A round that fails moves on to the next interval as well.
RoundFails ==
    /\ app.at = "recover" /\ app.mint /\ Fault
    /\ app' = RoundMoves(app)
    /\ UNCHANGED <<keychain, disk, saved, ghostsOfSeed, doubts>>

\* onResetStartIndex.
ResetStartIndex ==
    /\ app.at = "recover" /\ Rounds
    /\ \E n \in 0..MaxIndex : n # app.from /\ app' = [app EXCEPT !.from = n]
    /\ UNCHANGED <<keychain, disk, saved, ghostsOfSeed, doubts>>

\* onCompleteAddress: the typed seed replaces the stored one, whatever was walked of it.
SaveRecovered ==
    /\ app.at = "recover" /\ keychain # NoSeed
    /\ keychain' = app.typed
    /\ stray' = (stray /\ \E i \in signedBy[app.typed] : i >= app.walked)
    /\ doubts' =
        IF (keychain # app.typed \/ stray) /\ \E i \in signedBy[app.typed] : i >= app.walked
        THEN doubts \cup {"unwalked"} ELSE doubts
    /\ app' = [app EXCEPT !.at = "enrollRecovered"]
    /\ UNCHANGED <<disk, saved, signedBy, known, repeated, scope>>

-----------------------------------------------------------------------------
(* Calls that derive outputs, one at a time in the queue.                  *)

\* Screens, and for a wallet connection the process that was woken, even while it is set up
\* a second time.
MayDraw ==
    \/ app.at \in {"wallet", "recover", "awake"} /\ app.onboarded
    \/ app.at \in {"orphan", "hydrate"} /\ app.woken

\* The cached seed wallet, or a new one of the stored keys, goes on from the higher counter.
\* The mint may sign.
StartDraw ==
    LET s == IF app.cache.seed = NoSeed THEN keychain ELSE app.cache.seed
        i == Higher(app.cache.next, app.index)
    IN /\ MayDraw /\ app.mint /\ s # NoSeed /\ app.call = NoDraw /\ i < MaxIndex
       /\ scope.draws > 0 /\ scope' = [scope EXCEPT !.draws = @ - 1]
       /\ app' = [app EXCEPT !.cache = [seed |-> s, next |-> i + 1],
                             !.call = [next |-> i + 1, live |-> TRUE]]
       /\ \/ signedBy' = [signedBy EXCEPT ![s] = @ \cup {i}] \/ UNCHANGED signedBy
       /\ repeated' = IF i \in signedBy[s] THEN repeated \cup {<<s, i>>} ELSE repeated
       /\ doubts' = IF app.at \in {"orphan", "hydrate"} THEN doubts \cup {"reopened"} ELSE doubts
       /\ UNCHANGED <<keychain, disk, saved, known, stray>>

\* setProofsCounter, when the answer is there: the table, and the node the call began with.
EndDraw ==
    /\ app.call # NoDraw
    /\ disk' = [disk EXCEPT !.row = IF disk.schema = "built" THEN Higher(@, app.call.next) ELSE @]
    /\ app' = [app EXCEPT !.call = NoDraw,
                          !.index = IF app.call.live THEN app.call.next ELSE @]
    /\ UNCHANGED <<keychain, saved, ghostsOfSeed, doubts, scope>>

\* No answer: only the cached wallet knows.
DrawFails ==
    /\ app.call # NoDraw /\ Fault
    /\ doubts' = doubts \cup {"interrupted"}
    /\ app' = [app EXCEPT !.call = NoDraw]
    /\ UNCHANGED <<keychain, disk, saved, ghostsOfSeed>>

-----------------------------------------------------------------------------
(* factoryReset; the end of the process, and of the app.                   *)

Wipes == scope.wipes > 0 /\ scope' = [scope EXCEPT !.wipes = @ - 1]

\* Bug: the keys go first.
CleanAllAfterKeys ==
    /\ app.at = "wallet" /\ app.call = NoDraw /\ Wipes
    /\ keychain' = NoSeed /\ disk' = EmptyDisk /\ stray' = FALSE
    /\ app' = [app EXCEPT !.at = "resetStores"]
    /\ UNCHANGED <<saved, signedBy, known, repeated, doubts>>

\* cleanAll drops every table.
CleanAll ==
    /\ app.at = "wallet" /\ app.call = NoDraw /\ Wipes
    /\ disk' = EmptyDisk /\ stray' = (keychain # NoSeed)
    /\ app' = [app EXCEPT !.at = "resetStores"]
    /\ UNCHANGED <<keychain, saved, signedBy, known, repeated, doubts>>

\* clearAll, then reset: the listener saves the empty stores.
ResetStores ==
    /\ app.at = "resetStores"
    /\ app' = [Off EXCEPT !.at = "removeKeys", !.version = app.version]
    /\ saved' = Stripped(app')
    /\ UNCHANGED <<keychain, disk, ghostsOfSeed, doubts, scope>>

\* getInstance has nothing to do; the keys go last, then the app exits.
RemoveKeys ==
    /\ app.at = "removeKeys"
    /\ keychain' = NoSeed /\ stray' = FALSE /\ app' = Off
    /\ UNCHANGED <<disk, saved, signedBy, known, repeated, doubts, scope>>

\* The listener: any change saves what is in memory.
SaveSnapshot ==
    /\ app.at \in {"welcome", "wallet", "recover", "awake"} /\ saved # Stripped(app)
    /\ saved' = Stripped(app)
    /\ UNCHANGED <<keychain, disk, app, ghostsOfSeed, doubts, scope>>

Kill ==
    /\ app.at # "off" /\ scope.kills > 0
    /\ scope' = [scope EXCEPT !.kills = @ - 1]
    /\ doubts' = doubts \cup (IF app.call # NoDraw THEN {"interrupted"} ELSE {})
                       \cup (IF app.at = "resetStores" THEN {"reset"} ELSE {})
    /\ app' = Off
    /\ UNCHANGED <<keychain, disk, saved, ghostsOfSeed>>

\* The system removes the container; iOS keeps the keychain, Android does not.
Reinstall(keeps) ==
    /\ app.at = "off" /\ Wipes
    /\ saved' = EmptySnapshot /\ disk' = EmptyDisk
    /\ keychain' = IF keeps THEN keychain ELSE NoSeed
    /\ stray' = (keychain' # NoSeed)
    /\ UNCHANGED <<app, signedBy, known, repeated, doubts>>

SeedNext ==
    \/ \E b \in BOOLEAN : Start(b) \/ Reinstall(b)
    \/ Open \/ OpenSchema \/ StampSchema \/ HydrateMints \/ CaptureOrphanedSeed \/ HydrateIndex
    \/ MigrateCounters \/ MigrateBackups \/ MigrateTerms \/ SetVersion
    \/ GotoWallet \/ AddDefaultMint \/ Enrolled \/ EnrollFails
    \/ CopySeed \/ BackToWelcome \/ StartFresh
    \/ \E s \in Seed : EnterRecovery(s)
    \/ LeaveRecovery \/ Round \/ RoundFails \/ ResetStartIndex \/ SaveRecovered
    \/ StartDraw \/ EndDraw \/ DrawFails
    \/ CleanAll \/ ResetStores \/ RemoveKeys \/ SaveSnapshot \/ Kill

SeedSpec == SeedInit /\ [][SeedNext]_seedVars

-----------------------------------------------------------------------------
\* No index of a seed is derived twice, through launches and wakes that end anywhere, upgrades,
\* reinstalls, recovery and the factory reset, short of what `doubts` names: a migration or a
\* seeding of counters that failed, an orphaned seed the user was not asked about or that was
\* taken over without walking all of it, a call cut off before its counter was written, one that
\* ran across the reopening of the app, a reset cut off between its stores.  orphanedSeed.ts:
\* "re-derives blinded secrets the mint has ALREADY signed".
IndexNotRepeated == repeated # {} => doubts # {}

\* A wallet that opens without onboarding has its keys, wherever the steps of the enrolment, the
\* recovery, the decision about an orphan or the factory reset were cut off.
OnboardedHasKeys == saved.onboarded \/ app.onboarded => keychain # NoSeed

=============================================================================
