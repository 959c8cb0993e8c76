-------------------------------- MODULE Raled --------------------------------
(***************************************************************************)
(* The life of the raled process: the main thread (raled_main.c), the loop *)
(* thread that ticks librale, and the signal handler (raled_signal.c) that *)
(* runs on top of whichever thread the kernel interrupts.                  *)
(*                                                                         *)
(* Handler and main thread share signal_ctx under a mutex that is not      *)
(* recursive: a thread that locks it twice waits for ever.  A call that    *)
(* takes the mutex is a frame on its thread's stack: "lock" before the     *)
(* mutex is taken, "held" after, "done" once a handler has set its flags.  *)
(***************************************************************************)
EXTENDS Integers, Sequences

CONSTANT MaxSignals     \* bound: signals delivered

ASSUME MaxSignalsAssumption == MaxSignals \in Nat

Thread == {"main", "loop"}

\* SIGINT is handled as SIGTERM.
Signal == {"SIGTERM", "SIGQUIT", "SIGHUP", "SIGUSR1", "SIGUSR2", "SIGPIPE"}

Accessor == {"is_reload_requested", "clear_reload_request",
             "is_status_requested", "clear_status_request", "is_shutdown_requested"}

Frame == [proc : Signal \cup Accessor, at : {"lock", "held", "done"}]

VARIABLES
    daemon_mode,
    pc,                      \* where the main thread is
    result,                  \* what its last is_..._requested returned
    loop,                    \* the loop thread: "none", "check", "tick", "ended", or "lost" in a fork
    dstore_threads_started,
    cancelled,               \* pthread_cancel has been called on it
    stack,                   \* per thread, frames that use signal_ctx.mutex
    mutex,                   \* the owner of signal_ctx.mutex, or "free"
    reload_requested, status_requested,   \* signal_ctx
    rale_shutdown_requested, \* set by librale_request_shutdown
    signals,                 \* how much of MaxSignals is used
    owed                     \* history: requests signalled and not served since

flags == <<reload_requested, status_requested, rale_shutdown_requested>>
vars == <<daemon_mode, pc, result, loop, dstore_threads_started, cancelled, stack, mutex,
          flags, signals, owed>>

Init ==
    /\ daemon_mode \in BOOLEAN
    /\ pc = "init"
    /\ result = FALSE
    /\ loop = "none"
    /\ dstore_threads_started = FALSE
    /\ cancelled = FALSE
    /\ stack = [t \in Thread |-> <<>>]
    /\ mutex = "free"
    /\ reload_requested = FALSE
    /\ status_requested = FALSE
    /\ rale_shutdown_requested = FALSE
    /\ signals = 0
    /\ owed = {}

Alive(t) == IF t = "main" THEN pc # "exited" ELSE loop \in {"check", "tick"}

-----------------------------------------------------------------------------
(* signal_ctx.mutex.                                                       *)

Push(t, p) == stack' = [stack EXCEPT ![t] = <<[proc |-> p, at |-> "lock"]>> \o @]
Top(t, at) == stack[t] # <<>> /\ Head(stack[t]).at = at
Running(t) == Head(stack[t]).proc
MoveTo(t, at) == stack' = [stack EXCEPT ![t] = <<[Head(@) EXCEPT !.at = at]>> \o Tail(@)]

pthread_mutex_lock(t) ==
    /\ Top(t, "lock")
    /\ mutex = "free"
    /\ mutex' = t
    /\ MoveTo(t, "held")
    /\ UNCHANGED <<daemon_mode, pc, result, loop, dstore_threads_started, cancelled, flags,
                   signals, owed>>

Return(t) ==
    /\ mutex' = "free"
    /\ stack' = [stack EXCEPT ![t] = Tail(@)]

\* The bodies of the four accessors that the main loop calls.
AccessorReturns ==
    /\ Top("main", "held")
    /\ Running("main") \in Accessor
    /\ result' = CASE Running("main") = "is_reload_requested" -> reload_requested
                   [] Running("main") = "is_status_requested" -> status_requested
                   [] OTHER -> result
    /\ reload_requested' = (reload_requested /\ Running("main") # "clear_reload_request")
    /\ status_requested' = (status_requested /\ Running("main") # "clear_status_request")
    /\ Return("main")
    /\ UNCHANGED <<daemon_mode, pc, loop, dstore_threads_started, cancelled,
                   rale_shutdown_requested, signals, owed>>

-----------------------------------------------------------------------------
(* signal_handler.                                                         *)

\* signal() blocks the signal, and only it, while its handler runs.
Interrupt(t, s) ==
    /\ signals < MaxSignals
    /\ signals' = signals + 1
    /\ Alive(t)
    /\ \A k \in DOMAIN stack[t] : stack[t][k].proc # s
    /\ Push(t, s)
    /\ UNCHANGED <<daemon_mode, pc, result, loop, dstore_threads_started, cancelled, mutex,
                   flags, owed>>

\* SIGQUIT sets shutdown_requested and system_exit, which no loop of raled reads.
\* SIGUSR2 calls perform_health_check, and that is_shutdown_requested.
HandleSignal(t) ==
    /\ Top(t, "held")
    /\ Running(t) \in Signal
    /\ rale_shutdown_requested' = (rale_shutdown_requested \/ Running(t) = "SIGTERM")
    /\ reload_requested' = (reload_requested \/ Running(t) = "SIGHUP")
    /\ status_requested' = (status_requested \/ Running(t) = "SIGUSR1")
    /\ owed' = owed \cup (IF Running(t) = "SIGHUP" THEN {"reload"}
                          ELSE IF Running(t) = "SIGUSR1" THEN {"status"} ELSE {})
    /\ IF Running(t) = "SIGUSR2" THEN Push(t, "is_shutdown_requested") ELSE MoveTo(t, "done")
    /\ UNCHANGED <<daemon_mode, pc, result, loop, dstore_threads_started, cancelled, mutex,
                   signals>>

HandlerReturns(t) ==
    /\ Top(t, "done")
    /\ Return(t)
    /\ UNCHANGED <<daemon_mode, pc, result, loop, dstore_threads_started, cancelled, flags,
                   signals, owed>>

-----------------------------------------------------------------------------
(* The main thread, while no frame is on top of it.                        *)

At(p) == pc = p /\ stack["main"] = <<>>
Goto(p) == pc' = p

\* The end of initialize_librale; pthread_create may fail.
StartLoop ==
    /\ At("init")
    /\ \/ loop' = "check" /\ dstore_threads_started' = TRUE
       \/ UNCHANGED <<loop, dstore_threads_started>>
    /\ Goto("daemon")
    /\ UNCHANGED <<daemon_mode, result, cancelled, stack, mutex, flags, signals, owed>>

\* main returns early: initialize_librale, raled_init or daemon() has failed.  The process ends
\* and a loop thread that has been started ends with it; nothing is cleaned up.
StartFails ==
    /\ At("init") \/ At("daemon")
    /\ loop' = IF loop = "none" THEN "none" ELSE "ended"
    /\ stack' = [stack EXCEPT !["loop"] = <<>>]
    /\ Goto("exited")
    /\ UNCHANGED <<daemon_mode, result, dstore_threads_started, cancelled, mutex, flags, signals,
                   owed>>

\* daemon() goes on in a child that has the calling thread only.  What the loop thread had
\* of the mutex stays as it was.
Daemonize ==
    /\ At("daemon")
    /\ IF daemon_mode /\ loop # "none"
       THEN loop' = "lost" /\ stack' = [stack EXCEPT !["loop"] = <<>>]
       ELSE UNCHANGED <<loop, stack>>
    /\ Goto("while")
    /\ UNCHANGED <<daemon_mode, result, dstore_threads_started, cancelled, mutex, flags,
                   signals, owed>>

\* The head of the main loop, and its first question.
MainLoop ==
    /\ At("while")
    /\ IF rale_shutdown_requested
       THEN Goto("cancel") /\ UNCHANGED stack
       ELSE Goto("reload?") /\ Push("main", "is_reload_requested")
    /\ UNCHANGED <<daemon_mode, result, loop, dstore_threads_started, cancelled, mutex, flags,
                   signals, owed>>

\* A mutant: the configuration is read before the request is cleared.
ReadThenClear ==
    /\ At("reload?")
    /\ result
    /\ owed' = owed \ {"reload"}
    /\ Push("main", "clear_reload_request")
    /\ Goto("report")
    /\ UNCHANGED <<daemon_mode, result, loop, dstore_threads_started, cancelled, mutex, flags,
                   signals>>

\* SIGHUP: the request is cleared ...
ClearReload ==
    /\ At("reload?")
    /\ result
    /\ Push("main", "clear_reload_request")
    /\ Goto("read_config")
    /\ UNCHANGED <<daemon_mode, result, loop, dstore_threads_started, cancelled, mutex, flags,
                   signals, owed>>

\* ... and then the configuration is read, if it was requested at all.
ReadConfig ==
    /\ At("read_config") \/ (At("reload?") /\ ~result)
    /\ owed' = IF pc = "read_config" THEN owed \ {"reload"} ELSE owed
    /\ Push("main", "is_status_requested")
    /\ Goto("status?")
    /\ UNCHANGED <<daemon_mode, result, loop, dstore_threads_started, cancelled, mutex, flags,
                   signals>>

\* SIGUSR1, in the same order.
ClearStatus ==
    /\ At("status?")
    /\ IF result
       THEN Push("main", "clear_status_request") /\ Goto("report")
       ELSE Goto("while") /\ UNCHANGED stack
    /\ UNCHANGED <<daemon_mode, result, loop, dstore_threads_started, cancelled, mutex, flags,
                   signals, owed>>

ReportStatus ==
    /\ At("report")
    /\ owed' = owed \ {"status"}
    /\ Goto("while")
    /\ UNCHANGED <<daemon_mode, result, loop, dstore_threads_started, cancelled, stack, mutex,
                   flags, signals>>

\* A mutant: the loop thread is only joined.
NoCancel == Goto("join") /\ UNCHANGED cancelled

\* cleanup_resources: pthread_cancel, ...
pthread_cancel == Goto("join") /\ cancelled' = TRUE

CancelLoop ==
    /\ At("cancel")
    /\ IF dstore_threads_started THEN pthread_cancel ELSE Goto("finit") /\ UNCHANGED cancelled
    /\ UNCHANGED <<daemon_mode, result, loop, dstore_threads_started, stack, mutex, flags,
                   signals, owed>>

\* A mutant: nobody waits for the loop thread.
JoinAtOnce == TRUE

\* ... pthread_join (a thread that a fork left behind counts as ended), ...
pthread_join == loop \in {"ended", "lost"}

JoinLoop ==
    /\ At("join")
    /\ pthread_join
    /\ dstore_threads_started' = FALSE
    /\ Goto("finit")
    /\ UNCHANGED <<daemon_mode, result, loop, cancelled, stack, mutex, flags, signals, owed>>

\* ... and librale_rale_finit, which frees what the loop thread's ticks use.
Finit ==
    /\ At("finit")
    /\ Goto("exited")
    /\ UNCHANGED <<daemon_mode, result, loop, dstore_threads_started, cancelled, stack, mutex,
                   flags, signals, owed>>

MainThread ==
    \/ StartLoop
    \/ StartFails
    \/ Daemonize
    \/ MainLoop
    \/ ClearReload
    \/ ReadConfig
    \/ ClearStatus
    \/ ReportStatus
    \/ CancelLoop
    \/ JoinLoop
    \/ Finit

-----------------------------------------------------------------------------
(* The loop thread.                                                        *)

\* raled_main_loop_thread: the flag, then the ticks.
LoopChecks ==
    /\ loop = "check"
    /\ stack["loop"] = <<>>
    /\ loop' = IF rale_shutdown_requested THEN "ended" ELSE "tick"
    /\ UNCHANGED <<daemon_mode, pc, result, dstore_threads_started, cancelled, stack, mutex,
                   flags, signals, owed>>

\* The ticks return; librale_rale_tick only when a datagram has come (module RaleProto).
LoopTicks ==
    /\ loop = "tick"
    /\ stack["loop"] = <<>>
    /\ loop' = "check"
    /\ UNCHANGED <<daemon_mode, pc, result, dstore_threads_started, cancelled, stack, mutex,
                   flags, signals, owed>>

\* recvfrom, usleep and the handler's log writes are cancellation points.  A handler that is
\* cut short keeps the mutex.
LoopCancelled ==
    /\ cancelled
    /\ \/ loop = "tick" /\ stack["loop"] = <<>>
       \/ Top("loop", "held")
       \/ Top("loop", "done")
    /\ loop' = "ended"
    /\ stack' = [stack EXCEPT !["loop"] = <<>>]
    /\ UNCHANGED <<daemon_mode, pc, result, dstore_threads_started, cancelled, mutex, flags,
                   signals, owed>>

-----------------------------------------------------------------------------
Next ==
    \/ MainThread
    \/ LoopChecks
    \/ LoopTicks
    \/ LoopCancelled
    \/ AccessorReturns
    \/ \E t \in Thread : pthread_mutex_lock(t)
    \/ \E t \in Thread : HandleSignal(t)
    \/ \E t \in Thread : HandlerReturns(t)
    \/ \E t \in Thread, s \in Signal : Interrupt(t, s)

Spec == Init /\ [][Next]_vars

\* Both threads are scheduled.  Signals need not come, and a tick need not return.
Frames(t) == pthread_mutex_lock(t) \/ HandleSignal(t) \/ HandlerReturns(t)
Fairness ==
    /\ WF_vars(MainThread \/ AccessorReturns)
    /\ WF_vars(LoopChecks)
    /\ WF_vars(LoopCancelled)
    /\ \A t \in Thread : WF_vars(Frames(t))

FairSpec == Spec /\ Fairness

-----------------------------------------------------------------------------
(* Properties.                                                             *)

\* Every variable holds a value of its type.
TypeOK ==
    /\ daemon_mode \in BOOLEAN
    /\ pc \in {"init", "daemon", "while", "reload?", "read_config", "status?", "report",
               "cancel", "join", "finit", "exited"}
    /\ result \in BOOLEAN
    /\ loop \in {"none", "check", "tick", "ended", "lost"}
    /\ dstore_threads_started \in BOOLEAN
    /\ cancelled \in BOOLEAN
    /\ stack \in [Thread -> Seq(Frame)]
    /\ mutex \in Thread \cup {"free"}
    /\ reload_requested \in BOOLEAN
    /\ status_requested \in BOOLEAN
    /\ rale_shutdown_requested \in BOOLEAN
    /\ signals \in 0..MaxSignals
    /\ owed \subseteq {"reload", "status"}

\* A SIGHUP or SIGUSR1 that comes while the last one is being served is served again: the
\* flag is cleared before the configuration is read or the status reported.
RequestsNotLost ==
    /\ "reload" \in owed => reload_requested \/ pc = "read_config"
    /\ "status" \in owed => status_requested \/ pc = "report"

\* librale_rale_finit frees the sockets once the loop thread is gone.
FinitAfterLoop == pc \in {"finit", "exited"} => ~Alive("loop")

\* A thread waits for a mutex that it owns itself or that nobody alive owns.
Hung ==
    \E t \in Thread : /\ Alive(t)
                      /\ Top(t, "lock")
                      /\ mutex = t \/ (mutex # "free" /\ ~Alive(mutex))

\* After SIGTERM the process ends, also when the loop thread sits in recvfrom for ever,
\* unless a signal has met a thread inside signal_ctx's mutex.
StopTakesEffect == rale_shutdown_requested ~> (pc = "exited" \/ Hung)

-----------------------------------------------------------------------------
(* The inductive invariant.                                                *)

\* The main thread knows whether there is a loop thread until it has joined it, and from then
\* on the loop thread is gone.  Only a thread that runs handles signals.
LoopAccountedFor ==
    /\ stack["loop"] # <<>> => loop \in {"check", "tick"}
    /\ pc = "init" => loop = "none"
    /\ pc \notin {"finit", "exited"} => (dstore_threads_started <=> loop # "none")
    /\ pc \in {"finit", "exited"} => loop \in {"none", "ended", "lost"}

\* A call that clears a request is on the stack only where the request is about to be served.
ClearsAreInPlace ==
    \A k \in DOMAIN stack["main"] :
        /\ stack["main"][k].proc = "clear_reload_request" => pc = "read_config"
        /\ stack["main"][k].proc = "clear_status_request" => pc = "report"

RaledInvariant == TypeOK /\ LoopAccountedFor /\ ClearsAreInPlace /\ RequestsNotLost

-----------------------------------------------------------------------------
(* What the comments say and the code does not do.                         *)

\* "Thread-safe signal handling" (raled_signal.c): no handler waits for ever.
HandlersReturn == ~Hung
=============================================================================
