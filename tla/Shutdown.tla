------------------------------ MODULE Shutdown ------------------------------
(***************************************************************************)
(* The shutdown coordination of librale (librale/src/shutdown.c) and the   *)
(* loops that take part in it: dstore_server_loop, which polls the flag of *)
(* "dstore" and signals completion, other pollers of the same flag         *)
(* (dstore_server_tick, tcp_server_run), and the loops of the other two    *)
(* subsystems.  graceful_shutdown waits for the completion.                *)
(***************************************************************************)
EXTENDS Integers, FiniteSets

CONSTANTS
    Worker,             \* the threads that run a loop
    Polls,              \* per worker, the subsystem whose flag it polls
    Signallers,         \* the sets of workers that signal completion, to choose from
    MaxRequest          \* bound: requests

Subsystem == {"dstore", "rale", "comm"}

ASSUME ShutdownAssumption ==
    Polls \in [Worker -> Subsystem] /\ Signallers \subseteq SUBSET Worker /\ MaxRequest \in Nat

\* A subsystem has one place that signals its completion (dstore: the end of dstore_server_loop).
ASSUME OneSignallerAssumption ==
    \A S \in Signallers : \A u, w \in S : Polls[u] = Polls[w] => u = w

VARIABLES
    signals,            \* the workers that signal completion when their loop ends
    ready,              \* shutdown_system_initialized
    system_exit,
    requested,          \* per subsystem, its ..._shutdown_requested
    loop,               \* per worker: "runs", "ends" (left the loop), "done"
    waiter,             \* the thread in graceful_shutdown: "no", "waits", "ok", "timeout"
    requests,           \* how many requests there were
    noted,              \* history: a request has reached the flags
    disturbed           \* history: the waiter was woken by a request, for no reason, or without a request

shutdownVars == <<signals, ready, system_exit, requested, loop, waiter, requests, noted, disturbed>>

ShutdownInit ==
    /\ signals \in Signallers
    /\ ready = FALSE /\ system_exit = FALSE
    /\ requested = [s \in Subsystem |-> FALSE]
    /\ loop = [w \in Worker |-> "runs"]
    /\ waiter = "no"
    /\ requests = 0
    /\ noted = FALSE
    /\ disturbed = FALSE

\* A request that came before is forgotten.
librale_shutdown_init ==
    /\ ~ready
    /\ ready' = TRUE
    /\ system_exit' = FALSE
    /\ requested' = [s \in Subsystem |-> FALSE]
    /\ noted' = FALSE
    /\ UNCHANGED <<signals, loop, waiter, requests, disturbed>>

\* Called when nobody waits on the condition.
librale_shutdown_cleanup ==
    /\ ready /\ waiter # "waits"
    /\ ready' = FALSE
    /\ UNCHANGED <<signals, system_exit, requested, loop, waiter, requests, noted, disturbed>>

\* The broadcast also wakes a thread that waits for completion.
librale_request_shutdown ==
    /\ requests < MaxRequest
    /\ requests' = requests + 1
    /\ system_exit' = TRUE
    /\ IF ready
       THEN /\ requested' = [s \in Subsystem |-> TRUE]
            /\ noted' = TRUE
            /\ waiter' = IF waiter = "waits" THEN "ok" ELSE waiter
            /\ disturbed' = (disturbed \/ waiter = "waits")
       ELSE UNCHANGED <<requested, noted, waiter, disturbed>>
    /\ UNCHANGED <<signals, ready, loop>>


librale_is_shutdown_requested(s) == IF ready THEN requested[s] ELSE system_exit

\* One of the places where a loop looks at its flag; a loop that sees nothing goes on.
dstore_server_loop(w) ==
    /\ loop[w] = "runs"
    /\ librale_is_shutdown_requested(Polls[w])
    /\ loop' = [loop EXCEPT ![w] = "ends"]
    /\ UNCHANGED <<signals, ready, system_exit, requested, waiter, requests, noted, disturbed>>

\* A mutant: the first subsystem that is done wakes the waiter.
SignalFirst(w) ==
    /\ loop[w] = "ends"
    /\ loop' = [loop EXCEPT ![w] = "done"]
    /\ IF ready /\ w \in signals
       THEN /\ requested' = [requested EXCEPT ![Polls[w]] = FALSE]
            /\ waiter' = IF waiter = "waits" THEN "ok" ELSE waiter
            /\ disturbed' = (disturbed \/ (waiter' # waiter /\ ~noted))
       ELSE UNCHANGED <<requested, waiter, disturbed>>
    /\ UNCHANGED <<signals, ready, system_exit, requests, noted>>

\* The flag the loops poll is taken back; when all three are, the waiter is woken.
librale_signal_shutdown_complete(w) ==
    /\ loop[w] = "ends"
    /\ loop' = [loop EXCEPT ![w] = "done"]
    /\ IF ready /\ w \in signals
       THEN /\ requested' = [requested EXCEPT ![Polls[w]] = FALSE]
            /\ waiter' = IF waiter = "waits" /\ \A s \in Subsystem : ~requested'[s] THEN "ok" ELSE waiter
            /\ disturbed' = (disturbed \/ (waiter' # waiter /\ ~noted))
       ELSE UNCHANGED <<requested, waiter, disturbed>>
    /\ UNCHANGED <<signals, ready, system_exit, requests, noted>>

\* graceful_shutdown sets system_exit and waits; without initialization the wait fails at once.
graceful_shutdown ==
    /\ waiter = "no"
    /\ system_exit' = TRUE
    /\ waiter' = IF ready THEN "waits" ELSE "timeout"
    /\ UNCHANGED <<signals, ready, requested, loop, requests, noted, disturbed>>

\* The one pthread_cond_timedwait times out, or wakes up for no reason.
librale_wait_for_shutdown_completion ==
    /\ waiter = "waits"
    /\ \/ waiter' = "timeout" /\ UNCHANGED disturbed
       \/ waiter' = "ok" /\ disturbed' = TRUE
    /\ UNCHANGED <<signals, ready, system_exit, requested, loop, requests, noted>>

LoopStep(w) == dstore_server_loop(w) \/ librale_signal_shutdown_complete(w)

ShutdownNext ==
    \/ librale_shutdown_init \/ librale_shutdown_cleanup \/ librale_request_shutdown
    \/ graceful_shutdown \/ librale_wait_for_shutdown_completion
    \/ \E w \in Worker : LoopStep(w)

ShutdownSpec == ShutdownInit /\ [][ShutdownNext]_shutdownVars

-----------------------------------------------------------------------------
(* Properties.                                                             *)

\* "All subsystems completed shutdown successfully": when the wait succeeds after a request
\* had reached the flags, and neither another request nor a spurious wakeup ended it, every
\* worker that signals has left its loop.
CompletionIsTrue ==
    waiter = "ok" /\ ~disturbed => \A w \in signals : loop[w] = "done"

\* A flag that a request has set is taken back by nobody but the one worker that signals for it.
FlagsAwaitSignallers ==
    noted => \A w \in signals : loop[w] = "done" \/ requested[Polls[w]]

\* Inductive: the wait ends well when all flags are down, and a flag says whether its worker is done.
ShutdownInvariant ==
    /\ signals \in Signallers
    /\ loop \in [Worker -> {"runs", "ends", "done"}]
    /\ requested \in [Subsystem -> BOOLEAN]
    /\ FlagsAwaitSignallers
    /\ CompletionIsTrue

=============================================================================
