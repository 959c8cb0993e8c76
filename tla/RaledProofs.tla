----------------------------- MODULE RaledProofs -----------------------------
(***************************************************************************)
(* The process raled, for any number of signals at any moments: requests   *)
(* are not lost, and librale is freed after the loop thread is gone.       *)
(***************************************************************************)
EXTENDS Raled, SequenceTheorems, TLAPS

----------------------------------------------------------------------------
(* Stacks *)

\* The calls on the stack of a thread.
Procs(t) == {stack[t][k].proc : k \in DOMAIN stack[t]}

\* A step touches the stack of one thread.
Elsewhere(t) == \A u \in Thread : u # t => stack'[u] = stack[u]

\* A call puts one frame on the stack.
LEMMA PushShape ==
    ASSUME TypeOK, NEW t \in Thread, NEW p \in Signal \cup Accessor, Push(t, p)
    PROVE  /\ stack' \in [Thread -> Seq(Frame)] /\ Elsewhere(t)
           /\ Procs(t)' \subseteq Procs(t) \cup {p}
  <1> DEFINE f == [proc |-> p, at |-> "lock"]
  <1>1. f \in Frame /\ f.proc = p
    BY DEF Frame
  <1>2. stack \in [Thread -> Seq(Frame)] /\ stack[t] \in Seq(Frame)
    BY DEF TypeOK
  <1>3. stack' = [stack EXCEPT ![t] = <<f>> \o stack[t]]
    BY DEF Push
  <1> HIDE DEF f
  <1>4. <<f>> \o stack[t] \in Seq(Frame) /\ stack'[t] = <<f>> \o stack[t]
    BY <1>1, <1>2, <1>3
  <1>5. stack' \in [Thread -> Seq(Frame)] /\ Elsewhere(t)
    BY <1>2, <1>3, <1>4 DEF Elsewhere
  <1>6. ASSUME NEW k \in DOMAIN stack'[t] PROVE stack'[t][k].proc \in Procs(t) \cup {p}
    <2>1. k = 1 \/ (k - 1 \in DOMAIN stack[t] /\ stack'[t][k] = stack[t][k - 1])
      BY <1>1, <1>2, <1>4, <1>6
    <2>2. stack'[t][1] = f
      BY <1>1, <1>2, <1>4
    <2> QED
      BY <1>1, <2>1, <2>2 DEF Procs
  <1> QED
    BY <1>5, <1>6 DEF Procs

\* The frame on top of a stack.
LEMMA TopShape ==
    ASSUME TypeOK, NEW t \in Thread, stack[t] # <<>>
    PROVE  /\ Len(stack[t]) \in Nat /\ Len(stack[t]) > 0
           /\ DOMAIN stack[t] = 1..Len(stack[t])
           /\ Head(stack[t]) = stack[t][1] /\ stack[t][1] \in Frame
           /\ Running(t) \in Procs(t)
           /\ Tail(stack[t]) \in Seq(Frame)
           /\ Len(Tail(stack[t])) = Len(stack[t]) - 1
           /\ \A k \in 1..(Len(stack[t]) - 1) : Tail(stack[t])[k] = stack[t][k + 1]
  <1>1. stack[t] \in Seq(Frame)
    BY DEF TypeOK
  <1>2. Len(stack[t]) \in Nat /\ Len(stack[t]) > 0 /\ DOMAIN stack[t] = 1..Len(stack[t])
    BY <1>1
  <1>3. Head(stack[t]) = stack[t][1] /\ stack[t][1] \in Frame /\ 1 \in DOMAIN stack[t]
    BY <1>1, <1>2
  <1>4. Running(t) \in Procs(t)
    BY <1>3 DEF Running, Procs
  <1>5. /\ Tail(stack[t]) \in Seq(Frame) /\ Len(Tail(stack[t])) = Len(stack[t]) - 1
        /\ \A k \in 1..(Len(stack[t]) - 1) : Tail(stack[t])[k] = stack[t][k + 1]
    BY <1>1, <1>2
  <1> QED
    BY <1>2, <1>3, <1>4, <1>5

\* A call that goes on stays the same call.
LEMMA MoveShape ==
    ASSUME TypeOK, NEW t \in Thread, stack[t] # <<>>, NEW at \in {"lock", "held", "done"}, MoveTo(t, at)
    PROVE  /\ stack' \in [Thread -> Seq(Frame)] /\ Elsewhere(t)
           /\ Procs(t)' \subseteq Procs(t)
  <1> DEFINE f == [Head(stack[t]) EXCEPT !.at = at]
  <1>1. f \in Frame /\ f.proc = stack[t][1].proc
    BY TopShape DEF Frame
  <1>2. stack' = [stack EXCEPT ![t] = <<f>> \o Tail(stack[t])]
    BY DEF MoveTo
  <1> HIDE DEF f
  <1>3. stack \in [Thread -> Seq(Frame)] /\ Tail(stack[t]) \in Seq(Frame)
    BY TopShape DEF TypeOK
  <1>4. <<f>> \o Tail(stack[t]) \in Seq(Frame) /\ stack'[t] = <<f>> \o Tail(stack[t])
    BY <1>1, <1>2, <1>3
  <1>5. stack' \in [Thread -> Seq(Frame)] /\ Elsewhere(t)
    BY <1>2, <1>3, <1>4 DEF Elsewhere
  <1>6. ASSUME NEW k \in DOMAIN stack'[t] PROVE stack'[t][k].proc \in Procs(t)
    <2>1. k = 1 \/ (k - 1 \in 1..Len(Tail(stack[t])) /\ stack'[t][k] = Tail(stack[t])[k - 1])
      BY <1>1, <1>3, <1>4, <1>6
    <2>2. CASE k = 1
      <3>1. stack'[t][1] = f /\ 1 \in DOMAIN stack[t]
        BY <1>1, <1>3, <1>4, TopShape
      <3> QED
        BY <1>1, <2>2, <3>1 DEF Procs
    <2>3. CASE k # 1
      <3>1. k - 1 \in 1..(Len(stack[t]) - 1)
        BY <2>1, <2>3, TopShape
      <3>2. stack'[t][k] = stack[t][(k - 1) + 1] /\ (k - 1) + 1 \in DOMAIN stack[t]
        BY <2>1, <2>3, <3>1, TopShape
      <3> QED
        BY <3>2 DEF Procs
    <2> QED
      BY <2>2, <2>3
  <1> QED
    BY <1>5, <1>6 DEF Procs

\* A call that returns leaves the others.
LEMMA ReturnShape ==
    ASSUME TypeOK, NEW t \in Thread, stack[t] # <<>>, Return(t)
    PROVE  /\ stack' \in [Thread -> Seq(Frame)] /\ Elsewhere(t)
           /\ Procs(t)' \subseteq Procs(t)
  <1>1. stack \in [Thread -> Seq(Frame)] /\ Tail(stack[t]) \in Seq(Frame)
    BY TopShape DEF TypeOK
  <1>2. stack' = [stack EXCEPT ![t] = Tail(stack[t])]
    BY DEF Return
  <1>3. stack' \in [Thread -> Seq(Frame)] /\ Elsewhere(t) /\ stack'[t] = Tail(stack[t])
    BY <1>1, <1>2 DEF Elsewhere
  <1>4. ASSUME NEW k \in DOMAIN stack'[t] PROVE stack'[t][k].proc \in Procs(t)
    <2>1. k \in 1..(Len(stack[t]) - 1)
      BY <1>1, <1>3, <1>4, TopShape
    <2>2. stack'[t][k] = stack[t][k + 1] /\ k + 1 \in DOMAIN stack[t]
      BY <1>3, <2>1, TopShape
    <2> QED
      BY <2>2 DEF Procs
  <1> QED
    BY <1>3, <1>4 DEF Procs

----------------------------------------------------------------------------
(* Steps *)

\* The calls that clear a request, by their names.
LEMMA ClearsByName ==
    ClearsAreInPlace <=> /\ "clear_reload_request" \in Procs("main") => pc = "read_config"
                         /\ "clear_status_request" \in Procs("main") => pc = "report"
  BY DEF ClearsAreInPlace, Procs

\* A step that leaves the calls of the main thread, or makes them fewer, and its place.
LEMMA ClearsKept ==
    ASSUME ClearsAreInPlace, Procs("main")' \subseteq Procs("main"), pc' = pc
    PROVE  ClearsAreInPlace'
  <1>1. /\ "clear_reload_request" \in Procs("main") => pc = "read_config"
        /\ "clear_status_request" \in Procs("main") => pc = "report"
    BY ClearsByName
  <1>2. /\ "clear_reload_request" \in Procs("main")' => pc' = "read_config"
        /\ "clear_status_request" \in Procs("main")' => pc' = "report"
    BY <1>1
  <1> QED
    BY <1>2 DEF ClearsAreInPlace, Procs

\* The main thread goes on when no call is on its stack, and makes at most one call.
LEMMA MainThreadStep ==
    ASSUME RaledInvariant, MainThread
    PROVE  RaledInvariant'
  <1> USE DEF RaledInvariant
  <1>0. stack["main"] = <<>> /\ Procs("main") = {} /\ stack \in [Thread -> Seq(Frame)] /\ "main" \in Thread
    <2>1. stack["main"] = <<>>
      BY DEF MainThread, StartLoop, StartFails, Daemonize, MainLoop, ClearReload, ReadConfig, ClearStatus, ReportStatus,
             CancelLoop, JoinLoop, Finit, At
    <2> QED
      BY <2>1 DEF Procs, TypeOK, Thread
  <1>1. ASSUME UNCHANGED stack PROVE ClearsAreInPlace'
    BY <1>0, <1>1 DEF ClearsAreInPlace
  <1>2. ASSUME NEW p \in Accessor, Push("main", p), p = "clear_reload_request" => pc' = "read_config",
               p = "clear_status_request" => pc' = "report"
        PROVE  ClearsAreInPlace' /\ stack' \in [Thread -> Seq(Frame)] /\ stack'["loop"] = stack["loop"]
    <2>1. /\ Procs("main")' \subseteq {p} /\ stack' \in [Thread -> Seq(Frame)]
          /\ stack'["loop"] = stack["loop"]
      BY <1>0, <1>2, PushShape DEF Elsewhere, Thread
    <2> QED
      BY <1>2, <2>1 DEF ClearsAreInPlace, Procs
  <1>3. CASE StartLoop
    <2>1. TypeOK' /\ ClearsAreInPlace'
      BY <1>1, <1>3 DEF StartLoop, At, Goto, TypeOK, flags
    <2>2. LoopAccountedFor' /\ RequestsNotLost'
      BY <1>3 DEF StartLoop, At, Goto, LoopAccountedFor, RequestsNotLost, flags
    <2> QED
      BY <2>1, <2>2
  <1>4. CASE Daemonize
    <2>1. stack' \in [Thread -> Seq(Frame)] /\ stack'["main"] = <<>>
      BY <1>0, <1>4 DEF Daemonize, Thread
    <2>2. ClearsAreInPlace'
      BY <2>1 DEF ClearsAreInPlace
    <2>3. TypeOK'
      BY <1>4, <2>1, <2>2 DEF Daemonize, At, Goto, TypeOK, flags
    <2>4. LoopAccountedFor'
      <3>1. \/ loop # "none" /\ loop' = "lost" /\ stack'["loop"] = <<>>
            \/ UNCHANGED <<loop, stack>>
        BY <1>0, <1>4 DEF Daemonize, Thread
      <3> QED
        BY <1>4, <3>1 DEF Daemonize, At, Goto, LoopAccountedFor
    <2>5. RequestsNotLost'
      BY <1>4, <2>1, <2>2 DEF Daemonize, At, Goto, RequestsNotLost, flags
    <2> QED
      BY <2>2, <2>3, <2>4, <2>5
  <1>5. CASE MainLoop
    <2>1. ClearsAreInPlace' /\ stack' \in [Thread -> Seq(Frame)] /\ stack'["loop"] = stack["loop"]
      BY <1>0, <1>1, <1>2, <1>5 DEF MainLoop, Accessor
    <2>3. TypeOK'
      BY <1>5, <2>1 DEF MainLoop, At, Goto, TypeOK, flags
    <2>4. LoopAccountedFor'
      BY <1>5, <2>1 DEF MainLoop, At, Goto, LoopAccountedFor
    <2>5. RequestsNotLost'
      BY <1>5, <2>1 DEF MainLoop, At, Goto, RequestsNotLost, flags
    <2> QED
      BY <2>1, <2>3, <2>4, <2>5
  <1>6. CASE ClearReload
    <2>1. ClearsAreInPlace' /\ stack' \in [Thread -> Seq(Frame)] /\ stack'["loop"] = stack["loop"]
      BY <1>2, <1>6 DEF ClearReload, Accessor, Goto
    <2>3. TypeOK'
      BY <1>6, <2>1 DEF ClearReload, At, Goto, TypeOK, flags
    <2>4. LoopAccountedFor'
      BY <1>6, <2>1 DEF ClearReload, At, Goto, LoopAccountedFor
    <2>5. RequestsNotLost'
      BY <1>6, <2>1 DEF ClearReload, At, Goto, RequestsNotLost, flags
    <2> QED
      BY <2>1, <2>3, <2>4, <2>5
  <1>7. CASE ReadConfig
    <2>1. ClearsAreInPlace' /\ stack' \in [Thread -> Seq(Frame)] /\ stack'["loop"] = stack["loop"]
      BY <1>2, <1>7 DEF ReadConfig, Accessor
    <2>3. TypeOK'
      BY <1>7, <2>1 DEF ReadConfig, At, Goto, TypeOK, flags
    <2>4. LoopAccountedFor'
      BY <1>7, <2>1 DEF ReadConfig, At, Goto, LoopAccountedFor
    <2>5. RequestsNotLost'
      BY <1>7, <2>1 DEF ReadConfig, At, Goto, RequestsNotLost, flags
    <2> QED
      BY <2>1, <2>3, <2>4, <2>5
  <1>8. CASE ClearStatus
    <2>1. ClearsAreInPlace' /\ stack' \in [Thread -> Seq(Frame)] /\ stack'["loop"] = stack["loop"]
      BY <1>0, <1>1, <1>2, <1>8 DEF ClearStatus, Accessor, Goto
    <2>3. TypeOK'
      BY <1>8, <2>1 DEF ClearStatus, At, Goto, TypeOK, flags
    <2>4. LoopAccountedFor'
      BY <1>8, <2>1 DEF ClearStatus, At, Goto, LoopAccountedFor
    <2>5. RequestsNotLost'
      BY <1>8, <2>1 DEF ClearStatus, At, Goto, RequestsNotLost, flags
    <2> QED
      BY <2>1, <2>3, <2>4, <2>5
  <1>9. CASE ReportStatus
    BY <1>1, <1>9 DEF ReportStatus, At, Goto, TypeOK, LoopAccountedFor, RequestsNotLost, flags
  <1>10. CASE CancelLoop
    BY <1>1, <1>10 DEF CancelLoop, pthread_cancel, At, Goto, TypeOK, LoopAccountedFor, RequestsNotLost, flags
  <1>11. CASE JoinLoop
    BY <1>1, <1>11 DEF JoinLoop, pthread_join, At, Goto, TypeOK, LoopAccountedFor, RequestsNotLost, flags
  <1>12. CASE Finit
    BY <1>1, <1>12 DEF Finit, At, Goto, TypeOK, LoopAccountedFor, RequestsNotLost, flags
  <1>13. CASE StartFails
    <2>1. /\ stack' \in [Thread -> Seq(Frame)] /\ stack'["main"] = <<>>
          /\ stack'["loop"] = <<>>
      BY <1>0, <1>13 DEF StartFails, Thread
    <2>2. ClearsAreInPlace'
      BY <2>1 DEF ClearsAreInPlace
    <2>3. TypeOK'
      BY <1>13, <2>1 DEF StartFails, Goto, TypeOK, flags
    <2>4. LoopAccountedFor'
      BY <1>13, <2>1 DEF StartFails, Goto, LoopAccountedFor
    <2>5. RequestsNotLost'
      BY <1>13 DEF StartFails, At, Goto, RequestsNotLost, flags
    <2> QED
      BY <2>2, <2>3, <2>4, <2>5
  <1> QED
    BY <1>3, <1>4, <1>5, <1>6, <1>7, <1>8, <1>9, <1>10, <1>11, <1>12, <1>13 DEF MainThread

\* The steps of the loop thread.
LEMMA LoopThreadStep ==
    ASSUME RaledInvariant, LoopChecks \/ LoopTicks \/ LoopCancelled
    PROVE  RaledInvariant'
  <1> USE DEF RaledInvariant
  <1>1. UNCHANGED <<daemon_mode, pc, result, dstore_threads_started, cancelled, mutex, flags, signals, owed>>
    BY DEF LoopChecks, LoopTicks, LoopCancelled
  <1>2. /\ stack' \in [Thread -> Seq(Frame)] /\ stack'["main"] = stack["main"]
        /\ stack'["loop"] = <<>>
    <2>1. stack \in [Thread -> Seq(Frame)] /\ "main" \in Thread /\ "loop" \in Thread
      BY DEF TypeOK, Thread
    <2>2. CASE LoopChecks \/ LoopTicks
      BY <2>1, <2>2 DEF LoopChecks, LoopTicks
    <2>3. CASE LoopCancelled
      <3>1. stack' = [stack EXCEPT !["loop"] = <<>>] /\ <<>> \in Seq(Frame)
        BY <2>3 DEF LoopCancelled
      <3> QED
        BY <2>1, <3>1
    <2> QED
      BY <2>2, <2>3
  <1>3. loop \in {"check", "tick"} /\ loop' \in {"check", "tick", "ended"}
    BY DEF LoopChecks, LoopTicks, LoopCancelled, Top, LoopAccountedFor
  <1>4. ClearsAreInPlace'
    BY <1>1, <1>2 DEF ClearsAreInPlace
  <1>5. TypeOK'
    BY <1>1, <1>2, <1>3 DEF TypeOK, flags
  <1>6. LoopAccountedFor'
    BY <1>1, <1>2, <1>3 DEF LoopAccountedFor
  <1> QED
    BY <1>1, <1>4, <1>5, <1>6 DEF RequestsNotLost, flags

\* The steps of the calls on the stacks.
LEMMA FramesStep ==
    ASSUME RaledInvariant, NEW t \in Thread,
           \/ pthread_mutex_lock(t) \/ HandleSignal(t) \/ HandlerReturns(t)
           \/ t = "main" /\ AccessorReturns
           \/ \E s \in Signal : Interrupt(t, s)
    PROVE  RaledInvariant'
  <1> USE DEF RaledInvariant
  <1>0. "main" \in Thread /\ "loop" \in Thread
    BY DEF Thread
  <1>1. UNCHANGED <<daemon_mode, pc, loop, dstore_threads_started, cancelled>>
    BY DEF pthread_mutex_lock, HandleSignal, HandlerReturns, AccessorReturns, Interrupt
  <1>2. ASSUME Procs(t)' \subseteq Procs(t) \cup Signal \cup {"is_shutdown_requested"}, Elsewhere(t)
        PROVE  ClearsAreInPlace'
    <2>1. Procs("main")' \subseteq Procs("main") \cup Signal \cup {"is_shutdown_requested"}
      <3>1. CASE t = "main"
        BY <1>2, <3>1
      <3>2. CASE t # "main"
        BY <1>0, <1>2, <3>2 DEF Elsewhere, Procs
      <3> QED
        BY <3>1, <3>2
    <2>2. /\ "clear_reload_request" \in Procs("main") => pc = "read_config"
          /\ "clear_status_request" \in Procs("main") => pc = "report"
      BY ClearsByName
    <2>3. /\ "clear_reload_request" \in Procs("main")' => pc' = "read_config"
          /\ "clear_status_request" \in Procs("main")' => pc' = "report"
      BY <1>1, <2>1, <2>2 DEF Signal
    <2> QED
      BY <2>3 DEF ClearsAreInPlace, Procs
  <1>3. ASSUME Elsewhere(t), t = "loop" => loop \in {"check", "tick"} PROVE LoopAccountedFor'
    <2>1. stack'["loop"] # <<>> => loop \in {"check", "tick"}
      <3>1. CASE t = "loop"
        BY <1>3, <3>1
      <3>2. CASE t # "loop"
        BY <1>0, <1>3, <3>2 DEF Elsewhere, LoopAccountedFor
      <3> QED
        BY <3>1, <3>2
    <2> QED
      BY <1>1, <2>1 DEF LoopAccountedFor
  <1>4. stack[t] # <<>> => (t = "loop" => loop \in {"check", "tick"})
    BY DEF LoopAccountedFor
  <1>5. CASE pthread_mutex_lock(t)
    <2>1. stack[t] # <<>> /\ MoveTo(t, "held")
      BY <1>5 DEF pthread_mutex_lock, Top
    <2>2. stack' \in [Thread -> Seq(Frame)] /\ Elsewhere(t) /\ Procs(t)' \subseteq Procs(t)
      BY <2>1, MoveShape
    <2>3. ClearsAreInPlace' /\ LoopAccountedFor'
      BY <1>2, <1>3, <1>4, <2>1, <2>2
    <2> QED
      BY <1>1, <1>5, <2>2, <2>3 DEF pthread_mutex_lock, TypeOK, RequestsNotLost, flags
  <1>6. CASE HandleSignal(t)
    <2>1. stack[t] # <<>> /\ Running(t) \in Signal
      BY <1>6 DEF HandleSignal, Top
    <2>2. Push(t, "is_shutdown_requested") \/ MoveTo(t, "done")
      BY <1>6 DEF HandleSignal
    <2>3. /\ stack' \in [Thread -> Seq(Frame)] /\ Elsewhere(t)
          /\ Procs(t)' \subseteq Procs(t) \cup {"is_shutdown_requested"}
      <3>1. CASE Push(t, "is_shutdown_requested")
        BY <3>1, PushShape DEF Accessor
      <3>2. CASE MoveTo(t, "done")
        <4>1. stack' \in [Thread -> Seq(Frame)] /\ Elsewhere(t) /\ Procs(t)' \subseteq Procs(t)
          BY <2>1, <3>2, MoveShape
        <4> QED
          BY <4>1
      <3> QED
        BY <2>2, <3>1, <3>2
    <2>4. ClearsAreInPlace' /\ LoopAccountedFor'
      BY <1>2, <1>3, <1>4, <2>1, <2>3
    <2>5. /\ reload_requested' \in BOOLEAN /\ status_requested' \in BOOLEAN /\ rale_shutdown_requested' \in BOOLEAN
          /\ owed' \subseteq {"reload", "status"} /\ UNCHANGED <<result, mutex, signals>>
      BY <1>6 DEF HandleSignal, TypeOK
    <2>6. RequestsNotLost'
      BY <1>1, <1>6 DEF HandleSignal, RequestsNotLost, TypeOK
    <2> QED
      BY <1>1, <2>3, <2>4, <2>5, <2>6 DEF TypeOK
  <1>7. CASE HandlerReturns(t)
    <2>1. stack[t] # <<>> /\ Return(t)
      BY <1>7 DEF HandlerReturns, Top
    <2>2. stack' \in [Thread -> Seq(Frame)] /\ Elsewhere(t) /\ Procs(t)' \subseteq Procs(t)
      BY <2>1, ReturnShape
    <2>3. ClearsAreInPlace' /\ LoopAccountedFor'
      BY <1>2, <1>3, <1>4, <2>1, <2>2
    <2> QED
      BY <1>1, <1>7, <2>2, <2>3 DEF HandlerReturns, Return, TypeOK, RequestsNotLost, flags
  <1>8. CASE t = "main" /\ AccessorReturns
    <2>1. stack[t] # <<>> /\ Return(t) /\ t = "main"
      BY <1>8 DEF AccessorReturns, Top
    <2>2. stack' \in [Thread -> Seq(Frame)] /\ Elsewhere(t) /\ Procs(t)' \subseteq Procs(t)
      BY <2>1, ReturnShape
    <2>3. ClearsAreInPlace' /\ LoopAccountedFor'
      BY <1>2, <1>3, <1>4, <2>1, <2>2
    <2>4. /\ Running("main") = "clear_reload_request" => pc = "read_config"
          /\ Running("main") = "clear_status_request" => pc = "report"
      BY <1>0, <2>1, TopShape, ClearsByName
    <2>5. /\ result' \in BOOLEAN /\ reload_requested' \in BOOLEAN /\ status_requested' \in BOOLEAN
          /\ mutex' = "free" /\ UNCHANGED <<rale_shutdown_requested, signals, owed>>
      BY <1>8 DEF AccessorReturns, Return, TypeOK
    <2>6. RequestsNotLost'
      BY <1>1, <1>8, <2>4 DEF AccessorReturns, RequestsNotLost, TypeOK
    <2> QED
      BY <1>1, <2>2, <2>3, <2>5, <2>6 DEF TypeOK
  <1>9. ASSUME NEW s \in Signal, Interrupt(t, s) PROVE RaledInvariant'
    <2>1. Push(t, s) /\ Alive(t)
      BY <1>9 DEF Interrupt
    <2>2. stack' \in [Thread -> Seq(Frame)] /\ Elsewhere(t) /\ Procs(t)' \subseteq Procs(t) \cup {s}
      BY <2>1, PushShape
    <2>3. t = "loop" => loop \in {"check", "tick"}
      BY <2>1 DEF Alive
    <2>4. ClearsAreInPlace' /\ LoopAccountedFor'
      BY <1>2, <1>3, <2>2, <2>3
    <2>5. signals' \in 0..MaxSignals
      BY <1>9, MaxSignalsAssumption DEF Interrupt, TypeOK
    <2> QED
      BY <1>1, <1>9, <2>2, <2>4, <2>5 DEF Interrupt, TypeOK, RequestsNotLost, flags
  <1> QED
    BY <1>5, <1>6, <1>7, <1>8, <1>9

----------------------------------------------------------------------------
(* The theorems *)

\* The invariant holds for ever.
LEMMA RaledInvariantHolds == Spec => []RaledInvariant
  <1>1. Init => RaledInvariant
    <2> SUFFICES ASSUME Init PROVE RaledInvariant
      OBVIOUS
    <2>1. stack \in [Thread -> Seq(Frame)] /\ stack["main"] = <<>> /\ stack["loop"] = <<>>
      BY DEF Init, Thread
    <2>2. TypeOK
      <3>1. signals \in 0..MaxSignals
        BY MaxSignalsAssumption DEF Init
      <3>2. daemon_mode \in BOOLEAN /\ owed \subseteq {"reload", "status"}
        BY DEF Init
      <3> QED
        BY <2>1, <3>1, <3>2 DEF Init, TypeOK
    <2> QED
      BY <2>1, <2>2 DEF Init, RaledInvariant, LoopAccountedFor, ClearsAreInPlace, RequestsNotLost
  <1>2. ASSUME RaledInvariant, [Next]_vars PROVE RaledInvariant'
    <2>1. CASE UNCHANGED vars
      BY <1>2, <2>1 DEF vars, flags, RaledInvariant, TypeOK, LoopAccountedFor, ClearsAreInPlace, RequestsNotLost
    <2>2. CASE AccessorReturns
      BY <1>2, <2>2, FramesStep DEF Thread
    <2>3. ASSUME NEW t \in Thread,
                 \/ pthread_mutex_lock(t) \/ HandleSignal(t) \/ HandlerReturns(t)
                 \/ \E s \in Signal : Interrupt(t, s)
          PROVE  RaledInvariant'
      BY <1>2, <2>3, FramesStep
    <2> QED
      BY <1>2, <2>1, <2>2, <2>3, MainThreadStep, LoopThreadStep DEF Next
  <1> QED
    BY <1>1, <1>2, PTL DEF Spec

\* For any number of signals, on any thread and at any moment: a reload or a status that was asked
\* for is still to come, whatever the main thread was serving when it was asked.
THEOREM NoRequestLost == Spec => []RequestsNotLost
  <1>1. RaledInvariant => RequestsNotLost
    BY DEF RaledInvariant
  <1> QED
    BY <1>1, RaledInvariantHolds, PTL

\* For any number of signals, with and without a fork: when librale is freed the loop thread is gone.
THEOREM LoopGoneAtFinit == Spec => []FinitAfterLoop
  <1>1. RaledInvariant => FinitAfterLoop
    BY DEF RaledInvariant, LoopAccountedFor, FinitAfterLoop, Alive
  <1> QED
    BY <1>1, RaledInvariantHolds, PTL

=============================================================================
