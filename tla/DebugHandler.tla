---------------------------- MODULE DebugHandler ----------------------------
(***************************************************************************)
(* POST /debug.  On the machine itself the handler has a thread start      *)
(* OpenOCD, waits until process_holder shows it, and then runs idf.py      *)
(* gdbgui until the session ends.  In a container OpenOCD runs on the      *)
(* host: a gdbgui server is started in the background and idf.py monitor   *)
(* is run until it ends.                                                   *)
(***************************************************************************)
EXTENDS SessionHandlers

(* "os.listdir(route) is False" is never true: a project that was never    *)
(* built is debugged like any other.                                       *)
DebugDocker(r) ==
  /\ At(r, "docker")
  /\ Kind[r] = "debug"
  /\ IF docker THEN \/ Goto(r, "done")
                    \/ Goto(r, "remote_build")
               ELSE Goto(r, "reap")
  /\ UNCHANGED <<globals, process_holder, sources, project, monitor_output,
                 board, os, error, dir, held, reaping, answers, thread>>

StartOpenocd(r) ==
  /\ At(r, "start_openocd")
  /\ thread' = [thread EXCEPT ![r] = "popen"]
  /\ Goto(r, "poll")
  /\ UNCHANGED <<globals, process_holder, sources, project, monitor_output,
                 board, os, error, dir, held, reaping, answers>>

(* while process_holder.get("openocd") is None: time.sleep(1)              *)
Poll(r) ==
  /\ At(r, "poll")
  /\ IF process_holder["openocd"] # None THEN Goto(r, "gdbinit")
                                         ELSE UNCHANGED pc
  /\ UNCHANGED <<globals, process_holder, sources, project, monitor_output,
                 board, os, error, dir, held, reaping, answers, thread>>

(* start_gdbgui opens build/gdbinit/gdbinit of the project and makes its   *)
(* argument list, five seconds before it runs the command.                 *)
FindGdbinit(r) ==
  /\ At(r, "gdbinit")
  /\ dir' = [dir EXCEPT ![r] = BUILD_PATH]
  /\ Goto(r, IF build[BUILD_PATH] # None THEN "gdbgui" ELSE "done")
  /\ UNCHANGED <<globals, process_holder, sources, project, monitor_output,
                 board, os, error, held, reaping, answers, thread>>

(* Only when the command has ended does process_holder get its entry; the  *)
(* else branch then reads an unbound name, so the user reads of an error.  *)
GdbguiExits(r) ==
  /\ At(r, "gdbgui")
  /\ r \in spawned
  /\ alive' = alive \ {Self(r)}
  /\ spawned' = spawned \ {r}
  /\ process_holder' = [process_holder EXCEPT !["gdbgui"] = r]
  /\ Goto(r, "done")
  /\ UNCHANGED <<globals, sources, project, monitor_output, board, killed,
                 error, dir, held, reaping, answers, thread>>

-----------------------------------------------------------------------------
(***************************************************************************)
(* monitor_openocd_output, in the thread of the debug request r.           *)
(***************************************************************************)
ThreadAt(r, step) == thread[r] = step
ThreadGoto(r, step) == thread' = [thread EXCEPT ![r] = step]

ThreadPopen(r) ==
  /\ ThreadAt(r, "popen")
  /\ alive' = alive \cup {<<r, "openocd">>}
  /\ ThreadGoto(r, "store")
  /\ UNCHANGED <<globals, process_holder, sources, project, monitor_output,
                 board, spawned, killed, pc, error, dir, held, reaping, answers>>

ThreadStore(r) ==
  /\ ThreadAt(r, "store")
  /\ process_holder' = [process_holder EXCEPT !["openocd"] = r]
  /\ ThreadGoto(r, "reread")
  /\ UNCHANGED <<globals, sources, project, monitor_output, board, os, pc,
                 error, dir, held, reaping, answers>>

ThreadPopenFails(r) ==
  /\ "start" \in Faults
  /\ ThreadAt(r, "popen")
  /\ ThreadGoto(r, "drop")
  /\ UNCHANGED <<globals, process_holder, sources, project, monitor_output,
                 board, os, pc, error, dir, held, reaping, answers>>

(* proc = process_holder[name]: a KeyError if somebody removed the entry.  *)
(* Otherwise the thread logs what that process prints.                     *)
ThreadReread(r) ==
  /\ ThreadAt(r, "reread")
  /\ ThreadGoto(r, IF process_holder["openocd"] = None THEN "drop" ELSE "log")
  /\ UNCHANGED <<globals, process_holder, sources, project, monitor_output,
                 board, os, pc, error, dir, held, reaping, answers>>

(* The loop ends with the output of OpenOCD, and the wait with OpenOCD.    *)
ThreadLogs(r) ==
  /\ ThreadAt(r, "log")
  /\ <<r, "openocd">> \notin alive
  /\ ThreadGoto(r, "off")
  /\ UNCHANGED <<globals, process_holder, sources, project, monitor_output,
                 board, os, pc, error, dir, held, reaping, answers>>

(* A line that cannot be decoded, or a log file that cannot be written:    *)
(* nobody ends OpenOCD.                                                    *)
ThreadLogFails(r) ==
  /\ "log" \in Faults
  /\ ThreadAt(r, "log")
  /\ Escape({<<r, "openocd">>})
  /\ ThreadGoto(r, "drop")
  /\ UNCHANGED <<globals, process_holder, sources, project, monitor_output,
                 board, os, pc, error, dir, held, name, victims, answers>>

(* The exception handler removes whatever entry there is by now.           *)
ThreadDrop(r) ==
  /\ ThreadAt(r, "drop")
  /\ process_holder' = [process_holder EXCEPT !["openocd"] = None]
  /\ ThreadGoto(r, "off")
  /\ UNCHANGED <<globals, sources, project, monitor_output, board, os, pc,
                 error, dir, held, reaping, answers>>

(* A background process ends by itself (the board is unplugged, ...).      *)
DaemonExits(r) ==
  /\ \E d \in Daemons : /\ <<r, d>> \in alive
                        /\ alive' = alive \ {<<r, d>>}
  /\ UNCHANGED <<globals, process_holder, sources, project, monitor_output,
                 board, spawned, killed, pc, error, dir, held, reaping,
                 answers, thread>>

-----------------------------------------------------------------------------
(***************************************************************************)
(* start_gdbgui_remote, which calls check_build once more.                 *)
(***************************************************************************)
RemoteBuild(r) ==
  /\ At(r, "remote_build")
  /\ BUILD_PATH' = ProjectFor(arduino)
  /\ Goto(r, "remote_gui")
  /\ UNCHANGED <<docker, arduino, process_holder, sources, project, monitor_output,
                 board, os, error, dir, held, reaping, answers, thread>>

(* Popen of the server; both argument lists have been made before it.      *)
RemoteGui(r) ==
  /\ At(r, "remote_gui")
  /\ dir' = [dir EXCEPT ![r] = BUILD_PATH]
  /\ alive' = alive \cup {<<r, "gdbgui_server">>}
  /\ Goto(r, "remote_store")
  /\ UNCHANGED <<globals, process_holder, sources, project, monitor_output,
                 board, spawned, killed, error, held, reaping, answers, thread>>

RemoteStore(r) ==
  /\ At(r, "remote_store")
  /\ process_holder' = [process_holder EXCEPT !["gdbgui"] = r]
  /\ Goto(r, "remote_pid")
  /\ UNCHANGED <<globals, sources, project, monitor_output, board, os, error,
                 dir, held, reaping, answers, thread>>

(* The log line reads process_holder["gdbgui"] again: a KeyError if another*)
(* request has removed the entry.                                          *)
RemotePid(r) ==
  /\ At(r, "remote_pid")
  /\ Goto(r, IF process_holder["gdbgui"] # None THEN "remote_monitor" ELSE "done")
  /\ UNCHANGED <<globals, process_holder, sources, project, monitor_output,
                 board, os, error, dir, held, reaping, answers, thread>>

RemoteGuiFails(r) ==
  /\ "start" \in Faults
  /\ At(r, "remote_gui")
  /\ Goto(r, "done")
  /\ UNCHANGED <<globals, process_holder, sources, project, monitor_output,
                 board, os, error, dir, held, reaping, answers, thread>>

(* "Debug session finished.", whatever the exit code; the server stays.    *)
RemoteMonitorExits(r) ==
  /\ At(r, "remote_monitor")
  /\ r \in spawned
  /\ alive' = alive \ {Self(r)}
  /\ spawned' = spawned \ {r}
  /\ status' = [status EXCEPT ![r] = "ok"]
  /\ Goto(r, "done")
  /\ UNCHANGED <<globals, process_holder, sources, project, monitor_output,
                 board, killed, error, dir, held, reaping, printed, thread>>
=============================================================================
