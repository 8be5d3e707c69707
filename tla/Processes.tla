----------------------------- MODULE Processes ------------------------------
(***************************************************************************)
(* kill_all_processes of gateway.py, and the loop with which /flash,       *)
(* /monitor and /debug end what process_holder says is running.            *)
(*                                                                         *)
(* kill_all_processes lists the processes whose command line contains a    *)
(* name (ps) and, in a second command, sends SIGKILL to that list: what    *)
(* starts in between is not killed, and the names are matched over the     *)
(* whole machine, whoever started the process.  Either command may fail    *)
(* to start, and the kill may time out; the callers do not look at the     *)
(* result and remove the entry all the same.                               *)
(***************************************************************************)
EXTENDS Commands

IdfCommands == {"fullclean", "fullclean_cwd", "set_target", "build", "flash",
                "monitor", "erase_flash", "gdbgui", "remote_monitor",
                "job_monitor"}

(* The processes whose command line holds the name.  The native GDBGUI is  *)
(* itself an idf.py command.                                               *)
Matching(n) ==
  CASE n = "idf.py" -> {p \in alive : p[2] \in IdfCommands}
    [] n = "openocd" -> {p \in alive : p[2] = "openocd"}
    [] n = "gdbgui" -> {p \in alive : p[2] \in {"gdbgui", "gdbgui_server"}}

(* The requests that lose the command they wait for.                       *)
Bereaved(ps) == {q \in spawned : <<q, pc[q]>> \in ps}

Kill(ps) == /\ alive' = alive \ ps
            /\ killed' = killed \cup Bereaved(ps \cap alive)
            /\ UNCHANGED spawned

(* "if <name> in process_holder": openocd first, then gdbgui; /debug only  *)
(* asks about openocd.                                                     *)
AfterReap(r) == IF name[r] = "openocd" /\ Kind[r] # "debug" THEN "reap"
                ELSE IF Kind[r] = "flash" THEN "open_program"
                ELSE IF Kind[r] = "monitor" THEN "find_sdkconfig"
                ELSE "start_openocd"

NextName(r) == name' = [name EXCEPT ![r] = "gdbgui"]

Reap(r) ==
  /\ At(r, "reap")
  /\ IF process_holder[name[r]] # None
       THEN Goto(r, "ps") /\ UNCHANGED name
       ELSE Goto(r, AfterReap(r)) /\ NextName(r)
  /\ UNCHANGED <<globals, process_holder, sources, project, monitor_output,
                 board, os, error, dir, held, victims, escaped, answers, thread>>

(* What kill_all_processes returns to: /stopmonitor ends, the others       *)
(* remove the entry.                                                       *)
AfterKill(r) == IF Kind[r] = "stopmonitor" THEN "done" ELSE "pop"

(* Without a match kill_all_processes returns 1: /stopmonitor says nothing.*)
ListProcessesOnly(r) ==           \* mutant: the entry is dropped, nothing killed
  /\ At(r, "ps")
  /\ victims' = [victims EXCEPT ![r] = Matching(name[r])]
  /\ Goto(r, AfterKill(r))
  /\ UNCHANGED <<globals, process_holder, sources, project, monitor_output,
                 board, os, error, dir, held, name, escaped, answers, thread>>

ListProcesses(r) ==
  /\ At(r, "ps")
  /\ victims' = [victims EXCEPT ![r] = Matching(name[r])]
  /\ Goto(r, IF Matching(name[r]) # {} THEN "kill" ELSE AfterKill(r))
  /\ UNCHANGED <<globals, process_holder, sources, project, monitor_output,
                 board, os, error, dir, held, name, escaped, answers, thread>>

(* The debuggers of ps that live on.                                       *)
Escape(ps) ==
  escaped' = escaped \cup {p \in ps \cap alive : p[2] \in Debuggers}

(* ps cannot be run: kill_all_processes returns 1 before it has a list.    *)
CannotList(r) ==
  /\ "start" \in Faults
  /\ At(r, "ps")
  /\ Escape(Matching(name[r]))
  /\ Goto(r, AfterKill(r))
  /\ UNCHANGED <<globals, process_holder, sources, project, monitor_output,
                 board, os, error, dir, held, name, victims, answers, thread>>

(* kill -9 succeeds iff every process of the list still exists, and sends  *)
(* the signal to those that do.  The list is not used any more.            *)
KillListed(r) ==
  /\ At(r, "kill")
  /\ Kill(victims[r])
  /\ victims' = [victims EXCEPT ![r] = {}]
  /\ Goto(r, AfterKill(r))
  /\ status' = IF Kind[r] = "stopmonitor" /\ victims[r] \subseteq alive
                  THEN [status EXCEPT ![r] = "ok"] ELSE status
  /\ UNCHANGED <<globals, process_holder, sources, project, monitor_output,
                 board, error, dir, held, name, escaped, printed, thread>>

(* The kill cannot be run and nothing is killed, or it outlives its 120    *)
(* seconds and any part of the list is: kill_all_processes returns 1.      *)
KillRaises(r) ==
  /\ At(r, "kill")
  /\ \E ps \in SUBSET victims[r] :
       /\ "timeout" \in Faults \/ ("start" \in Faults /\ ps = {})
       /\ Kill(ps)
       /\ Escape(victims[r] \ ps)
  /\ victims' = [victims EXCEPT ![r] = {}]
  /\ Goto(r, AfterKill(r))
  /\ UNCHANGED <<globals, process_holder, sources, project, monitor_output,
                 board, error, dir, held, name, answers, thread>>

Pop(r) ==
  /\ At(r, "pop")
  /\ process_holder' = [process_holder EXCEPT ![name[r]] = None]
  /\ Goto(r, AfterReap(r))
  /\ NextName(r)
  /\ UNCHANGED <<globals, sources, project, monitor_output, board, os, error,
                 dir, held, victims, escaped, answers, thread>>
=============================================================================
