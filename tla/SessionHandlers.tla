-------------------------- MODULE SessionHandlers ---------------------------
(***************************************************************************)
(* The entry of every route, and the handlers around the flash: POST       *)
(* /monitor, /stop, /stopmonitor, /fullclean and /eraseflash.  Their       *)
(* commands are in Commands and Processes.                                 *)
(***************************************************************************)
EXTENDS FlashHandler

(* Every post_ function but post_erase_flash assigns the global arduino.   *)
(* do_stop_flash_request then reads its local error before assigning it:   *)
(* the exception is all that happens.                                      *)
First(k) == CASE k \in {"flash", "job"} -> "open_tmp"
              [] k \in {"fullclean", "eraseflash", "debug"} -> "reset"
              [] k = "monitor" -> "check_build"
              [] k = "stopmonitor" -> "ps"
              [] k = "stop" -> "done"

Accept(r) ==
  /\ At(r, "idle")
  /\ arduino' = IF Kind[r] = "eraseflash" THEN arduino ELSE Arduino[r]
  /\ Goto(r, First(Kind[r]))
  /\ UNCHANGED <<docker, BUILD_PATH, process_holder, sources, project, monitor_output,
                 board, os, error, dir, held, reaping, answers, thread>>

(* BUILD_PATH = "./creator", which the next step may change again.         *)
Reset(r) ==
  /\ At(r, "reset")
  /\ BUILD_PATH' = "creator"
  /\ Goto(r, "check_build")
  /\ UNCHANGED <<docker, arduino, process_holder, sources, project, monitor_output,
                 board, os, error, dir, held, reaping, answers, thread>>

AfterCheck(k) == CASE k = "flash" -> "reap"
                   [] k = "job" -> "open_program"
                   [] k \in {"monitor", "debug"} -> "docker"
                   [] k = "fullclean" -> "fullclean"
                   [] k = "eraseflash" -> "erase_flash"
                   [] OTHER -> "done"

CheckBuild(r) ==
  /\ At(r, "check_build")
  /\ BUILD_PATH' = ProjectFor(arduino)
  /\ Goto(r, AfterCheck(Kind[r]))
  /\ UNCHANGED <<docker, arduino, process_holder, sources, project, monitor_output,
                 board, os, error, dir, held, reaping, answers, thread>>

(* In a container, an OpenOCD of the host may be using the board: monitor  *)
(* goes on if there is none or if it takes the shutdown command.           *)
MonitorDocker(r) ==
  /\ At(r, "docker")
  /\ Kind[r] = "monitor"
  /\ \/ Goto(r, "reap")
     \/ docker /\ Goto(r, "done")
  /\ UNCHANGED <<globals, process_holder, sources, project, monitor_output,
                 board, os, error, dir, held, reaping, answers, thread>>

(* Monitoring needs an sdkconfig, not a build.                             *)
MonitorSdkconfig(r) ==
  /\ At(r, "find_sdkconfig")
  /\ Kind[r] = "monitor"
  /\ Goto(r, IF sdkconfig[BUILD_PATH] # None THEN "monitor" ELSE "done")
  /\ UNCHANGED <<globals, process_holder, sources, project, monitor_output,
                 board, os, error, dir, held, reaping, answers, thread>>
=============================================================================
