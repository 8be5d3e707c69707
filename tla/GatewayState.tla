---------------------------- MODULE GatewayState ----------------------------
(***************************************************************************)
(* The state that the request handlers of esp32c3/gateway.py share, and    *)
(* the state each handler keeps while it runs.                             *)
(*                                                                         *)
(* gateway.py is a Flask server: every POST runs its handler in a thread   *)
(* of its own (app.run, threaded by default) and no handler takes a lock.  *)
(* Module globals, the files of the two ESP-IDF projects, the processes of *)
(* the machine and the boards are therefore shared between all requests.   *)
(* A handler is a program counter pc[r] that walks through the steps at    *)
(* which the code touches shared state; the steps of different requests    *)
(* interleave freely.                                                      *)
(***************************************************************************)
EXTENDS Naturals

CONSTANTS
  Requests,   (* the POSTs the server gets                                 *)
  Kind,       (* Kind[r]: the route of r                                   *)
  Arduino,    (* Arduino[r]: the "arduino" field of the JSON body          *)
  Port,       (* Port[r]: its "target_port" (the serial device)            *)
  Target,     (* Target[r]: its "target_board"                             *)
  Ports,
  Targets,
  Chip,       (* Chip[p]: the chip of the board plugged into port p        *)
  UsesCr,     (* the requests whose assembly itself names a cr_ function   *)
  Containers, (* may the gateway run in a container, may it run outside    *)
  Faults,     (* what may go wrong with a child process (see FaultKinds)   *)
  None,       (* an absent file, an erased flash, an empty dictionary slot *)
  Empty,      (* the contents of a file just opened for writing            *)
  Torn        (* the contents of a file or flash two writers interleaved   *)
              (* on, or that one writer left half written                  *)

Kinds == {"flash", "job", "monitor", "stop", "stopmonitor", "fullclean",
          "eraseflash", "debug"}
Projects == {"creator", "creatino"}

(* "fail": idf.py exits with a non-zero code.  "file": sed, rm or cat do.  *)
(* "start": a command cannot be started (subprocess raises).  "timeout":   *)
(* it outlives the 300 seconds of do_cmd and do_cmd_output, which kill it  *)
(* and raise, or the 120 seconds a kill is given.  "log": what OpenOCD     *)
(* prints cannot be decoded or written to its log file.                    *)
FaultKinds == {"fail", "file", "start", "timeout", "log"}

(* The configuration each family of boards needs so that it can be         *)
(* debugged, as do_flash_request writes it.                                *)
MemProtTargets == {"esp32c3"}
PmpTargets == {"esp32c6", "esp32h2"}
Options == {"memprot_off", "pmp_off", None}
OptionsFor(t) == IF t \in MemProtTargets THEN "memprot_off"
                 ELSE IF t \in PmpTargets THEN "pmp_off" ELSE None

(* r stands for the assembly of request r, None for a text that is older   *)
(* than every request (or for no text: the checkout has no program.s).     *)
Texts == Requests \cup {None, Empty, Torn}
Programs == [asm : Texts, board : Targets]
Configs == [target : Targets, options : Options]
Images == [asm : Texts, board : Targets, target : Targets, options : Options]

ASSUME GatewayAssumption ==
  /\ Kind \in [Requests -> Kinds]
  /\ Arduino \in [Requests -> BOOLEAN]
  /\ Port \in [Requests -> Ports]
  /\ Target \in [Requests -> Targets]
  /\ Chip \in [Ports -> Targets]
  /\ Targets # {}
  /\ UsesCr \subseteq Requests
  /\ Containers \subseteq BOOLEAN
  /\ Faults \subseteq FaultKinds
  /\ None \notin Requests /\ Empty \notin Requests /\ Torn \notin Requests
  /\ None # Empty /\ None # Torn /\ Empty # Torn
  /\ None \notin Configs \cup Images

VARIABLES
  docker,          (* whether the gateway runs in a container              *)
  arduino,         (* global: the mode the last request asked for          *)
  BUILD_PATH,      (* global: the project the commands run in              *)
  process_holder,  (* global: the debugging processes, by name             *)
  tmp_assembly,    (* contents of tmp_assembly.s                           *)
  program,         (* main/program.s of each project                       *)
  defaults,        (* options in each project's sdkconfig.defaults         *)
  sdkconfig,       (* each project's sdkconfig                             *)
  build,           (* the image in each project's build directory          *)
  monitor_output,  (* the jobs whose output is in monitor_output.txt       *)
  board,           (* what is in the flash of the board at each port       *)
  alive,           (* live processes <<r, name>>: those started for r      *)
  pc,              (* the step each handler is at                          *)
  spawned,         (* handlers blocked on the child process of their step  *)
  error,           (* req_data["error"]                                    *)
  dir,             (* the project a handler passes to what it does now     *)
  held,            (* the assembly creator_build has read                  *)
  name,            (* kill_all_processes: the name looked for              *)
  victims,         (* kill_all_processes: the processes ps listed          *)
  escaped,         (* history: the debuggers that an attempt to list, kill *)
                   (* or log them has failed on                            *)
  printed,         (* a job's answer: the jobs whose output it shows       *)
  thread,          (* the OpenOCD thread of a debug request                *)
  status,          (* "ok" once the handler has told the user of success   *)
  killed           (* history: requests one of whose commands was killed   *)
                   (* from outside                                         *)

globals == <<docker, arduino, BUILD_PATH>>
sources == <<tmp_assembly, program>>
project == <<defaults, sdkconfig, build>>
os      == <<alive, spawned, killed>>
reaping == <<name, victims, escaped>>
answers == <<printed, status>>

vars == <<globals, process_holder, sources, project, monitor_output, board,
          os, pc, error, dir, held, reaping, answers, thread>>

(***************************************************************************)
(* Steps.  The commands are the steps at which a handler runs a child      *)
(* process and waits for it (do_cmd, do_cmd_output, subprocess.run).       *)
(***************************************************************************)
Commands == {"fullclean", "fullclean_cwd", "sed", "set_target", "build",
             "flash", "monitor", "erase_flash", "rm", "gateway_monitor",
             "cat", "rm_output", "gdbgui", "remote_monitor"}
Steps == {"idle", "open_tmp", "write_tmp", "reset", "check_build", "docker",
          "reap", "ps", "kill", "pop", "open_program", "translate",
          "write_program", "mode_test", "configure", "find_sdkconfig",
          "start_openocd", "poll", "gdbinit", "remote_build", "remote_gui",
          "remote_store", "remote_pid", "finish", "done"}

(* Processes that are not the child a handler waits for: the idf.py that   *)
(* gateway_monitor.sh runs, and what a debug request leaves running.       *)
Debuggers == {"openocd", "gdbgui_server"}
Daemons == {"job_monitor"} \cup Debuggers

At(r, step) == pc[r] = step
Goto(r, step) == pc' = [pc EXCEPT ![r] = step]

ProjectFor(mode) == IF mode THEN "creatino" ELSE "creator"

-----------------------------------------------------------------------------
TypeOK ==
  /\ docker \in BOOLEAN
  /\ arduino \in BOOLEAN
  /\ BUILD_PATH \in Projects
  /\ process_holder \in [{"openocd", "gdbgui"} -> Requests \cup {None}]
  /\ tmp_assembly \in Texts
  /\ program \in [Projects -> Programs]
  /\ defaults \in [Projects -> Options]
  /\ sdkconfig \in [Projects -> Configs \cup {None}]
  /\ build \in [Projects -> Images \cup {None}]
  /\ monitor_output \subseteq Requests
  /\ board \in [Ports -> Images \cup {None, Torn}]
  /\ alive \subseteq Requests \X (Commands \cup Daemons)
  /\ pc \in [Requests -> Steps \cup Commands]
  /\ spawned \subseteq Requests
  /\ error \in [Requests -> {"unset", "ok", "bad"}]
  /\ dir \in [Requests -> Projects]
  /\ held \in [Requests -> Texts]
  /\ name \in [Requests -> {"idf.py", "openocd", "gdbgui"}]
  /\ victims \in [Requests -> SUBSET (Requests \X (Commands \cup Daemons))]
  /\ printed \in [Requests -> SUBSET Requests]
  /\ escaped \subseteq Requests \X Debuggers
  /\ thread \in [Requests -> {"off", "popen", "store", "reread", "log", "drop"}]
  /\ status \in [Requests -> {"", "ok"}]
  /\ killed \subseteq Requests
=============================================================================
