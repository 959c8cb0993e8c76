------------------------------ MODULE Settings ------------------------------
(***************************************************************************)
(* How a process of raled comes up and goes down: the settings it reads    *)
(* from the configuration file (raled_guc.c, raled_configfile.c,           *)
(* raled_args.c), what it hands on to librale (initialize_librale), and    *)
(* the PID file by which daemons on one host tell that one of them is      *)
(* running (raled_main.c).  The file /tmp/raled_<rale_port>.pid is named   *)
(* by the CURRENT setting, which a reload may change.                      *)
(*                                                                         *)
(* Several processes are started from one configuration file, which an     *)
(* administrator edits in between.  A process is started once; that the    *)
(* system hands out the id of a dead process again is left out.  The       *)
(* signals themselves, the threads and daemon() are the subject of Raled.  *)
(***************************************************************************)
EXTENDS Integers, Sequences

CONSTANTS
    Instance,           \* the processes
    Conf,               \* the texts of the configuration file, by name: their lines "key = value"
    Numeral,            \* what atoi makes of a value that starts with a digit
    StalePids,          \* sets of ports with a PID file of a dead process, to start from
    MaxEdit,            \* bound: edits of the configuration file
    MaxKill             \* bound: processes killed

ASSUME SettingsAssumption ==
    /\ \A c \in DOMAIN Conf : c # "none" /\ Conf[c] \in Seq([key : STRING, value : STRING])
    /\ Instance \cap {"none", "empty", "dead"} = {}
    /\ MaxEdit \in Nat /\ MaxKill \in Nat

VARIABLES
    settings,           \* per process, its config
    librale_cfg,        \* per process, what librale was initialized with
    daemon_mode,        \* per process, whether it was started with --daemon
    phase,              \* per process, where main() is
    pid_files,          \* per port, who the PID file names; "none": there is no file; "empty"
    conf,               \* the name of the text in the configuration file; "none": unreadable
    edits, kills,
    unwritten,          \* history: the processes that run on without having written their PID file
    read,               \* history: per process, the text it read last
    moved,              \* history: a reload has changed a rale_port
    raced               \* history: a PID file was created while another process was about to
                        \* remove that of the same port

settingsVars ==
    <<settings, librale_cfg, daemon_mode, phase, pid_files, conf, edits, kills, unwritten, read,
      moved, raced>>

-----------------------------------------------------------------------------
(* The table of settings.                                                  *)

GUC_INT(min, max) == [type |-> "int", min |-> min, max |-> max, zero |-> 0]
GUC_STRING == [type |-> "string", zero |-> ""]
GUC_ENUM(parser, first) == [type |-> parser, zero |-> first]

\* The entries that somebody reads again, and one of every type; the others of the table differ from
\* these in their names and limits.  Defaults and the flag "reloadable" are not used by anybody.
guc_table ==
    [node_name |-> GUC_STRING, node_id |-> GUC_INT(1, 10000), node_ip |-> GUC_STRING,
     rale_port |-> GUC_INT(1, 65535), dstore_port |-> GUC_INT(1, 65535), path |-> GUC_STRING,
     log_directory |-> GUC_STRING, communication_socket |-> GUC_STRING, raled_log_file |-> GUC_STRING,
     raled_log_destination |-> GUC_ENUM("destination", "stderr"),
     raled_log_level |-> GUC_ENUM("level", "error"),
     communication_protocol |-> GUC_ENUM("protocol", "unix")]

\* config is a global variable: all bytes are 0 before anything is read.
Unset == [n \in DOMAIN guc_table |-> guc_table[n].zero]

parse_log_destination(v) == IF v \in {"stderr", "stdout", "file", "syslog"} THEN v ELSE "stdout"

parse_log_level(v) == IF v \in {"error", "warning", "info", "debug"} THEN v ELSE "info"

parse_protocol(v) == "unix"

atoi(v) == IF v \in DOMAIN Numeral THEN Numeral[v] ELSE 0

Alias(key) ==
    CASE key = "socket_path" -> "communication_socket"
      [] key = "log_file" -> "raled_log_file"
      [] key = "log_level" -> "raled_log_level"
      [] OTHER -> key

\* Four bytes are written.  rale_port has two, and dstore_port follows it: its bytes become 0.
\* (What follows dstore_port, node.db_path, is not used by raled.)
WriteInt(s, n, v) ==
    IF n = "rale_port" THEN [s EXCEPT !.rale_port = v, !.dstore_port = 0] ELSE [s EXCEPT ![n] = v]

\* A mutant: the limits are exclusive.
SetWithin(s, n, v) ==
    CASE guc_table[n].type = "int" ->
            IF atoi(v) > guc_table[n].min /\ atoi(v) < guc_table[n].max THEN WriteInt(s, n, atoi(v)) ELSE s
      [] guc_table[n].type = "string" -> [s EXCEPT ![n] = v]
      [] guc_table[n].type = "destination" -> [s EXCEPT ![n] = parse_log_destination(v)]
      [] guc_table[n].type = "level" -> [s EXCEPT ![n] = parse_log_level(v)]
      [] guc_table[n].type = "protocol" -> [s EXCEPT ![n] = parse_protocol(v)]

\* A number outside its limits is refused; words that are not known to an enumeration are not.
SetEntry(s, n, v) ==
    CASE guc_table[n].type = "int" ->
            IF atoi(v) \in guc_table[n].min..guc_table[n].max THEN WriteInt(s, n, atoi(v)) ELSE s
      [] guc_table[n].type = "string" -> [s EXCEPT ![n] = v]
      [] guc_table[n].type = "destination" -> [s EXCEPT ![n] = parse_log_destination(v)]
      [] guc_table[n].type = "level" -> [s EXCEPT ![n] = parse_log_level(v)]
      [] guc_table[n].type = "protocol" -> [s EXCEPT ![n] = parse_protocol(v)]

\* The callers ignore that a line was refused.
guc_set(s, key, value) ==
    LET k == Alias(key) IN IF k \in DOMAIN guc_table THEN SetEntry(s, k, value) ELSE s

-----------------------------------------------------------------------------
(* The configuration file.  Its lines are given by what is left of their   *)
(* two sides when comments, blanks and quotes have gone; a line without    *)
(* "=" sets nothing and is not listed.                                     *)

ReadLine(s, line) == guc_set(s, line.key, line.value)

\* Line after line; what is not in the file keeps its value.
read_config(s, c) ==
    LET after[k \in 0..Len(Conf[c])] == IF k = 0 THEN s ELSE ReadLine(after[k - 1], Conf[c][k])
    IN  after[Len(Conf[c])]

-----------------------------------------------------------------------------
(* The processes.                                                          *)

Alive(i) == phase[i] \in {"check", "remove", "init", "create", "fill", "runs", "cleaned"}

\* The processes whose sockets are bound.
Bound == {i \in Instance : phase[i] \in {"create", "fill", "runs"}}

PidFileOf(i) == settings[i].rale_port
Named(p) == IF p \in DOMAIN pid_files THEN pid_files[p] ELSE "none"
Unlinked(p) == [q \in DOMAIN pid_files \ {p} |-> pid_files[q]]

\* All zero, and then filled by librale_config_set_...: the database path is that of the database
\* settings, which becomes that of the node.
librale_config_create ==
    [node_id |-> 0, name |-> "", ip |-> "", rale_port |-> 0, dstore_port |-> 0,
     db_path |-> "", log_directory |-> ""]

LibraleConfig(s) ==
    [librale_config_create EXCEPT
        !.node_id = s.node_id, !.name = s.node_name, !.ip = s.node_ip, !.rale_port = s.rale_port,
        !.dstore_port = s.dstore_port, !.db_path = s.path, !.log_directory = s.log_directory]

SettingsInit ==
    /\ settings = [i \in Instance |-> Unset]
    /\ librale_cfg = [i \in Instance |-> librale_config_create]
    /\ daemon_mode = [i \in Instance |-> FALSE]
    /\ phase = [i \in Instance |-> "new"]
    /\ \E dead \in StalePids : pid_files = [p \in dead |-> "dead"]
    /\ conf \in DOMAIN Conf
    /\ edits = 0 /\ kills = 0
    /\ unwritten = {}
    /\ read = [i \in Instance |-> "none"]
    /\ moved = FALSE /\ raced = FALSE

Goto(i, p) == phase' = [phase EXCEPT ![i] = p]

\* Started with the options d (--daemon) and v (--verbose).
parse_arguments(i, d, v) ==
    /\ phase[i] = "new"
    /\ IF conf = "none"
       THEN Goto(i, "exited") /\ UNCHANGED <<settings, daemon_mode, read>>
       ELSE /\ settings' = [settings EXCEPT ![i] =
                    read_config(IF v THEN guc_set(@, "raled_log_level", "debug") ELSE @, conf)]
            /\ daemon_mode' = [daemon_mode EXCEPT ![i] = d]
            /\ read' = [read EXCEPT ![i] = conf]
            /\ Goto(i, IF d THEN "check" ELSE "init")
    /\ UNCHANGED <<librale_cfg, pid_files, conf, edits, kills, unwritten, moved, raced>>

\* --check: what is empty gets a value, and the ports are tried, both with TCP.
Completed(s) ==
    [s EXCEPT !.log_directory = IF @ = "" THEN "./log" ELSE @,
              !.path = IF @ = "" THEN "./db1" ELSE @,
              !.communication_socket = IF @ = "" THEN "/tmp/rale_%d.sock" ELSE @]

check_port_availability(p) == p # 0 => \A j \in Bound : librale_cfg[j].dstore_port # p

\* Making a directory, or the look at the socket, may fail too.
run_config_checks(i) ==
    /\ phase[i] = "new" /\ conf # "none"
    /\ LET s == Completed(read_config(settings[i], conf))
       IN  /\ settings' = [settings EXCEPT ![i] = s]
           /\ \/ Goto(i, "failed")
              \/ /\ check_port_availability(s.rale_port) /\ check_port_availability(s.dstore_port)
                 /\ Goto(i, "passed")
    /\ UNCHANGED <<librale_cfg, daemon_mode, pid_files, conf, edits, kills, unwritten, read, moved, raced>>

\* A file that names no process is ignored, one that names a dead process is to be removed.
check_pid_file(i) ==
    /\ phase[i] = "check"
    /\ LET who == Named(PidFileOf(i))
       IN  Goto(i, CASE who \in {"none", "empty"} -> "init"
                     [] who \in Instance /\ Alive(who) -> "exited"
                     [] OTHER -> "remove")
    /\ UNCHANGED <<settings, librale_cfg, daemon_mode, pid_files, conf, edits, kills, unwritten, read, moved, raced>>

remove_stale_pid_file(i) ==
    /\ phase[i] = "remove"
    /\ pid_files' = Unlinked(PidFileOf(i))
    /\ Goto(i, "init")
    /\ UNCHANGED <<settings, librale_cfg, daemon_mode, conf, edits, kills, unwritten, read, moved, raced>>

\* cluster_set_self_id takes an id up to MAX_REASONABLE_NODE_ID; a port of 0 is any free port.
MAX_REASONABLE_NODE_ID == 1000
CanStart(s) ==
    /\ s.node_id \in 1..MAX_REASONABLE_NODE_ID
    /\ s.rale_port # 0 => \A j \in Bound : librale_cfg[j].rale_port # s.rale_port
    /\ s.dstore_port # 0 => \A j \in Bound : librale_cfg[j].dstore_port # s.dstore_port

\* A mutant: a process that cannot start removes the PID file, like one that stops.
InitCleansUp(i) ==
    /\ phase[i] = "init"
    /\ \/ /\ CanStart(settings[i])
          /\ librale_cfg' = [librale_cfg EXCEPT ![i] = LibraleConfig(settings[i])]
          /\ Goto(i, IF daemon_mode[i] THEN "create" ELSE "runs")
          /\ UNCHANGED pid_files
       \/ Goto(i, "exited") /\ pid_files' = Unlinked(PidFileOf(i)) /\ UNCHANGED librale_cfg
    /\ UNCHANGED <<settings, daemon_mode, conf, edits, kills, unwritten, read, moved, raced>>

\* The settings are copied for librale, which binds the two ports.  What comes before the PID file
\* may fail for other reasons too (memory, the thread of raled_init, daemon()): main returns.
initialize_librale(i) ==
    /\ phase[i] = "init"
    /\ \/ /\ CanStart(settings[i])
          /\ librale_cfg' = [librale_cfg EXCEPT ![i] = LibraleConfig(settings[i])]
          /\ Goto(i, IF daemon_mode[i] THEN "create" ELSE "runs")
       \/ Goto(i, "exited") /\ UNCHANGED librale_cfg
    /\ UNCHANGED <<settings, daemon_mode, pid_files, conf, edits, kills, unwritten, read, moved, raced>>

\* The daemon goes on without a PID file.
RunsUnwritten(i) == Goto(i, "runs") /\ unwritten' = unwritten \cup {i}

\* fopen(..., "w") leaves an empty file, which fclose fills; it may fail.
create_pid_file(i) ==
    /\ phase[i] = "create"
    /\ \/ /\ pid_files' = [p \in DOMAIN pid_files \cup {PidFileOf(i)} |->
                              IF p = PidFileOf(i) THEN "empty" ELSE pid_files[p]]
          /\ raced' = (raced \/ \E j \in Instance \ {i} :
                          phase[j] \in {"remove", "cleaned"} /\ PidFileOf(j) = PidFileOf(i))
          /\ Goto(i, "fill")
          /\ UNCHANGED unwritten
       \/ RunsUnwritten(i) /\ UNCHANGED <<pid_files, raced>>
    /\ UNCHANGED <<settings, librale_cfg, daemon_mode, conf, edits, kills, read, moved>>

\* Written through the open file: without effect on the directory if it has been unlinked.  On a
\* full disk nothing is written, which nobody notices.
fill_pid_file(i) ==
    /\ phase[i] = "fill"
    /\ \/ /\ pid_files' = IF Named(PidFileOf(i)) = "none" THEN pid_files ELSE [pid_files EXCEPT ![PidFileOf(i)] = i]
          /\ Goto(i, "runs")
          /\ UNCHANGED unwritten
       \/ RunsUnwritten(i) /\ UNCHANGED pid_files
    /\ UNCHANGED <<settings, librale_cfg, daemon_mode, conf, edits, kills, read, moved, raced>>

\* After a SIGHUP the main loop reads the file again; librale keeps what it was given.
reload(i) ==
    /\ phase[i] = "runs" /\ conf # "none"
    /\ settings' = [settings EXCEPT ![i] = read_config(@, conf)]
    /\ read' = [read EXCEPT ![i] = conf]
    /\ moved' = (moved \/ settings'[i].rale_port # settings[i].rale_port)
    /\ UNCHANGED <<librale_cfg, daemon_mode, phase, pid_files, conf, edits, kills, unwritten, raced>>

\* A requested shutdown: the sockets are closed ...
cleanup_resources(i) ==
    /\ phase[i] = "runs"
    /\ Goto(i, "cleaned")
    /\ UNCHANGED <<settings, librale_cfg, daemon_mode, pid_files, conf, edits, kills, unwritten, read, moved, raced>>

\* ... and the PID file goes, whoever it names, also when a process in the foreground stops.
remove_pid_file(i) ==
    /\ phase[i] = "cleaned"
    /\ pid_files' = Unlinked(PidFileOf(i))
    /\ Goto(i, "stopped")
    /\ UNCHANGED <<settings, librale_cfg, daemon_mode, conf, edits, kills, unwritten, read, moved, raced>>

Kill(i) ==
    /\ Alive(i) /\ kills < MaxKill
    /\ kills' = kills + 1
    /\ Goto(i, "killed")
    /\ UNCHANGED <<settings, librale_cfg, daemon_mode, pid_files, conf, edits, unwritten, read, moved, raced>>

EditConf ==
    /\ edits < MaxEdit
    /\ edits' = edits + 1
    /\ conf' \in (DOMAIN Conf \cup {"none"}) \ {conf}
    /\ UNCHANGED <<settings, librale_cfg, daemon_mode, phase, pid_files, kills, unwritten, read, moved, raced>>

SettingsNext ==
    \/ EditConf
    \/ \E i \in Instance :
        \/ \E d, v \in BOOLEAN : parse_arguments(i, d, v)
        \/ run_config_checks(i) \/ check_pid_file(i) \/ remove_stale_pid_file(i)
        \/ initialize_librale(i) \/ create_pid_file(i) \/ fill_pid_file(i)
        \/ reload(i) \/ cleanup_resources(i) \/ remove_pid_file(i) \/ Kill(i)

SettingsSpec == SettingsInit /\ [][SettingsNext]_settingsVars

-----------------------------------------------------------------------------
(* Properties.                                                             *)

\* The settings of the text c that give n a value it may have.
Valued(c, n) ==
    {k \in DOMAIN Conf[c] :
        /\ Alias(Conf[c][k].key) = n
        /\ guc_table[n].type = "int" => atoi(Conf[c][k].value) \in guc_table[n].min..guc_table[n].max}
ValuedIn == [c \in DOMAIN Conf |-> [n \in DOMAIN guc_table |-> Valued(c, n)]]

Meant(n, value) ==
    CASE guc_table[n].type = "int" -> atoi(value)
      [] guc_table[n].type = "string" -> value
      [] guc_table[n].type = "destination" -> parse_log_destination(value)
      [] guc_table[n].type = "level" -> parse_log_level(value)
      [] guc_table[n].type = "protocol" -> parse_protocol(value)

\* After the file was read, at start or by a reload, every setting has the value of its last valid
\* line, whatever was read before and whatever stands in the lines between: guc_set writes through
\* untyped pointers.  The exception is dstore_port before a valid line for rale_port.
FileTakesEffect ==
    \A i \in {j \in Instance : read[j] # "none"} :
        LET lines == ValuedIn[read[i]]
        IN  \A n \in DOMAIN guc_table : \A k \in lines[n] :
                \/ \E l \in lines[n] : l > k
                \/ n = "dstore_port" /\ \E l \in lines["rale_port"] : l > k
                \/ settings[i][n] = Meant(n, Conf[read[i]][k].value)

\* As long as no reload has moved a port, and no process removed a PID file that another one was
\* creating, a running daemon on a port of its own that could write its PID file still has it, with
\* its own name in it, and a daemon that stopped has left none: whatever others start, fail to start,
\* stop or die, between the look at the file and its creation the ports keep them out.
PidFilesInStep ==
    ~moved =>
        /\ \A i \in Instance :
            ~raced /\ phase[i] = "runs" /\ daemon_mode[i] /\ i \notin unwritten /\ PidFileOf(i) # 0 =>
                Named(PidFileOf(i)) = i
        /\ \A p \in DOMAIN pid_files : pid_files[p] \in Instance => phase[pid_files[p]] # "stopped"

-----------------------------------------------------------------------------
(* The inductive invariant.                                                *)

PerProcess ==
    /\ Instance = DOMAIN settings /\ Instance = DOMAIN librale_cfg /\ Instance = DOMAIN daemon_mode
    /\ Instance = DOMAIN phase /\ Instance = DOMAIN read
    /\ moved \in BOOLEAN /\ raced \in BOOLEAN

\* A process has its ports to itself, and until a reload moves it, it is on the port of its settings.
PortsAreApart ==
    \A i \in Bound :
        /\ \A j \in Bound : librale_cfg[i].rale_port # 0 /\ librale_cfg[i].rale_port = librale_cfg[j].rale_port => i = j
        /\ ~moved => librale_cfg[i].rale_port = PidFileOf(i)

\* A process in the course of writing its PID file, or done with it.
Publishes(i) ==
    (phase[i] = "fill" \/ (phase[i] = "runs" /\ daemon_mode[i] /\ i \notin unwritten)) /\ PidFileOf(i) # 0

\* Its file is there, and nobody is about to remove it.
FilesAreSafe ==
    ~moved /\ ~raced =>
        \A i \in Instance : Publishes(i) =>
            /\ Named(PidFileOf(i)) = IF phase[i] = "fill" THEN "empty" ELSE i
            /\ \A j \in Instance \ {i} : phase[j] \in {"remove", "cleaned"} => PidFileOf(j) # PidFileOf(i)

\* A file names a process that has filled it and has not removed it.
NamesAreTrue ==
    ~moved =>
        \A p \in DOMAIN pid_files : pid_files[p] \in Instance =>
            p = PidFileOf(pid_files[p]) /\ phase[pid_files[p]] \in {"runs", "cleaned", "killed"}

\* Whoever has read a text has come past main()'s first lines, and every setting has a value.
ReadsInStep ==
    /\ conf \in DOMAIN Conf \cup {"none"}
    /\ \A i \in Instance :
        /\ settings[i] = [n \in DOMAIN guc_table |-> settings[i][n]]
        /\ read[i] \in DOMAIN Conf \cup {"none"}
        /\ phase[i] = "new" => read[i] = "none"

SettingsInvariant ==
    PerProcess /\ PortsAreApart /\ FilesAreSafe /\ NamesAreTrue /\ ReadsInStep /\ FileTakesEffect
=============================================================================
