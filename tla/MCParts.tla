------------------------------ MODULE MCParts -------------------------------
(***************************************************************************)
(* The small parts that share no state, each for itself: of librale the    *)
(* log and the shutdown coordination, of raled the settings and PID files. *)
(* A behaviour exercises one of them, and the others keep their initial    *)
(* state.                                                                  *)
(***************************************************************************)
EXTENDS DLog, Shutdown, Settings, TLC

VARIABLE part

partsVars == <<part, dlogVars, shutdownVars, settingsVars>>

\* The log and the server of the store poll "dstore"; one loop each polls the other two flags.
MCPolls == "server" :> "dstore" @@ "tick" :> "dstore" @@ "rale" :> "rale" @@ "comm" :> "comm"
MCSignallers == {{}, {"server"}, {"server", "rale", "comm"}}

\* A text in the usual order; one with the ports the other way round, lines that are refused or not
\* known, and an empty value, of which the end of the line is left; one without a usable id or port.
MCConf ==
    LET Set(k, v) == [key |-> k, value |-> v]
    IN  "first" :> <<Set("node_id", "1"), Set("rale_port", "5001"), Set("dstore_port", "65535"),
                     Set("path", "db"), Set("log_level", "warning")>>
        @@ "second" :> <<Set("dstore_port", "6002"), Set("rale_port", "5002"), Set("node_id", "2"),
                         Set("node_id", "20000"), Set("node_name", "\n"), Set("colour", "red")>>
        @@ "third" :> <<Set("rale_port", "70000"), Set("dstore_port", "6002"), Set("raled_log_level", "loud")>>
MCNumeral ==
    "1" :> 1 @@ "2" :> 2 @@ "5001" :> 5001 @@ "5002" :> 5002 @@ "6002" :> 6002
        @@ "20000" :> 20000 @@ "65535" :> 65535 @@ "70000" :> 70000

Init ==
    /\ part \in {"dlog", "shutdown", "settings"}
    /\ DLogInit /\ ShutdownInit /\ SettingsInit
    /\ part # "shutdown" => signals = {}
    /\ part # "settings" => conf = "first" /\ pid_files = <<>>

DLogStep == part = "dlog" /\ DLogNext /\ UNCHANGED <<part, shutdownVars, settingsVars>>
ShutdownStep == part = "shutdown" /\ ShutdownNext /\ UNCHANGED <<part, dlogVars, settingsVars>>
SettingsStep == part = "settings" /\ SettingsNext /\ UNCHANGED <<part, dlogVars, shutdownVars>>

Next == DLogStep \/ ShutdownStep \/ SettingsStep

\* Every loop goes on to look at its flag, and to signal once it has ended.
Fairness ==
    \A w \in Worker : WF_partsVars(part = "shutdown" /\ LoopStep(w) /\ UNCHANGED <<part, dlogVars, settingsVars>>)

Spec == Init /\ [][Next]_partsVars /\ Fairness
=============================================================================
