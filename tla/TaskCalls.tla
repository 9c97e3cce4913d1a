------------------------------- MODULE TaskCalls -------------------------------
(***************************************************************************)
(* Calls into the SyncQueue: createQueueAwaitable, its timeout and its     *)
(* listener, the queue of one running task with its prioritized head, the  *)
(* result events, and the pollers that call into the queue by name.        *)
(*                                                                         *)
(* A call names the function of its task; two calls may name the same one. *)
(***************************************************************************)
EXTENDS Integers, Sequences, SequencesExt

CONSTANTS
    Call,           \* calls of the queue, in this run
    Function_,      \* Call -> taskFunction
    Awaited,        \* calls made by createQueueAwaitable
    Urgent,         \* calls put at the head of the queue
    Loop,           \* poller loops, each started once
    LoopName,       \* Loop -> poller name
    MaxPolls        \* polls of a loop

ASSUME TaskCallAssumptions ==
    /\ DOMAIN Function_ = Call /\ Awaited \subseteq Call /\ Urgent \subseteq Call
    /\ DOMAIN LoopName = Loop /\ MaxPolls \in Nat

VARIABLES
    line,       \* the queue, head first
    inHand,     \* the task that runs
    state,      \* Call -> new, open, done: what the caller has
    heard,      \* Call -> the call whose result it was given, or timeout or error
    names,      \* pollers: names that may go on
    polls       \* Loop -> polls left, -1 before it starts

callVars == <<line, inHand, state, heard, names, polls>>

CallsInit ==
    /\ line = <<>> /\ inHand = "none"
    /\ state = [c \in Call |-> "new"]
    /\ heard = [c \in Call |-> "nothing"]
    /\ names = {} /\ polls = [l \in Loop |-> -1]

Listening == {c \in Awaited : state[c] = "open"}

\* addPrioritizedTask and addTask; the listener and the timer are there from now on.
Ask(c) ==
    /\ state[c] = "new"
    /\ state' = [state EXCEPT ![c] = "open"]
    /\ line' = IF c \in Urgent THEN <<c>> \o line ELSE Append(line, c)
    /\ UNCHANGED <<inHand, heard, names, polls>>

StartTask ==
    /\ inHand = "none" /\ line # <<>>
    /\ inHand' = Head(line) /\ line' = Tail(line)
    /\ UNCHANGED <<state, heard, names, polls>>

\* resolveOnce and rejectOnce: the first answer counts and takes the listener away.
Answer(who, what) ==
    /\ state' = [c \in Call |-> IF c \in who THEN "done" ELSE state[c]]
    /\ heard' = [c \in Call |-> IF c \in who THEN what ELSE heard[c]]

\* The result event goes to every listener of the function, before the caller's own promise.
TaskEnds ==
    /\ inHand # "none" /\ inHand' = "none"
    /\ Answer({c \in Listening : Function_[c] = Function_[inHand]}, inHand)
    /\ UNCHANGED <<line, names, polls>>

TaskThrows ==
    /\ inHand # "none" /\ inHand' = "none"
    /\ Answer(Listening \cap {inHand}, "error")
    /\ UNCHANGED <<line, names, polls>>

\* Mutant: the timer is only for a task that has started.
CallTimesOutRunning(c) ==
    /\ c \in Listening /\ c = inHand
    /\ Answer({c}, "timeout")
    /\ UNCHANGED <<line, inHand, names, polls>>

\* TASK_QUEUE_TIMEOUT runs from the call. The task keeps its place and will still run.
CallTimesOut(c) ==
    /\ c \in Listening
    /\ Answer({c}, "timeout")
    /\ UNCHANGED <<line, inHand, names, polls>>

------------------------------------------------------------------------------
\* poller: the name is set whether or not a loop of that name runs already.
StartLoop(l) ==
    /\ polls[l] = -1
    /\ polls' = [polls EXCEPT ![l] = MaxPolls]
    /\ names' = names \cup {LoopName[l]}
    /\ UNCHANGED <<line, inHand, state, heard>>

\* A turn of the loop, or its end: then the name goes, another loop's with it.
TurnLoop(l) ==
    /\ polls[l] >= 0
    /\ IF polls[l] > 0 /\ LoopName[l] \in names
       THEN polls' = [polls EXCEPT ![l] = @ - 1] /\ UNCHANGED names
       ELSE polls' = [polls EXCEPT ![l] = -2] /\ names' = names \ {LoopName[l]}
    /\ UNCHANGED <<line, inHand, state, heard>>

StopPolling(n) ==
    /\ n \in names /\ names' = names \ {n}
    /\ UNCHANGED <<line, inHand, state, heard, polls>>

------------------------------------------------------------------------------
CallsNext ==
    \/ \E c \in Call : Ask(c) \/ CallTimesOut(c)
    \/ StartTask \/ TaskEnds \/ TaskThrows
    \/ \E l \in Loop : StartLoop(l) \/ TurnLoop(l) \/ StopPolling(LoopName[l])

\* Timers fire and loops turn. A task may run for ever.
CallsFair == /\ \A c \in Awaited : WF_callVars(CallTimesOut(c))
             /\ \A l \in Loop : WF_callVars(TurnLoop(l))

CallsSpec == CallsInit /\ [][CallsNext]_callVars /\ CallsFair

\* Whoever awaits a task hears something, even behind a task that never ends.
CallsSettle == \A c \in Awaited : state[c] = "open" ~> state[c] = "done"
===============================================================================
