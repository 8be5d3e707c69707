------------------------------ MODULE Commands ------------------------------
(***************************************************************************)
(* The child processes of the gateway: how a handler starts one and waits  *)
(* for it (do_cmd and do_cmd_output of gateway.py), what the tools do to   *)
(* the projects and the boards, and kill_all_processes.                    *)
(*                                                                         *)
(* A command has two steps.  Spawn evaluates the argument list, so this is *)
(* where the global BUILD_PATH is read; the exit applies the effect of the *)
(* tool and returns to the handler.  What other requests do between the    *)
(* two happens while the tool runs.  idf.py itself is not part of the      *)
(* repository: its effects are those the handlers rely on.                 *)
(***************************************************************************)
EXTENDS GatewayState

(* do_cmd_output is used where this is false. *)
UsesDoCmd(r) == \/ Kind[r] \in {"flash", "monitor"}
                \/ Kind[r] = "job" /\ pc[r] \in {"build", "flash"}

(* The debug handler runs its commands with subprocess.run and no timeout; *)
(* gateway_monitor.sh ends after 50 seconds.  How these end is modelled    *)
(* with their handlers.                                                    *)
DoCommands == Commands \ {"gdbgui", "remote_monitor", "gateway_monitor"}

FileCommands == {"sed", "rm", "cat", "rm_output"}

(* The step that follows a command whose result lets the handler go on.    *)
FollowingUncleaned(r) ==          \* mutant: trusts idf.py fullclean, no rm
  CASE At(r, "fullclean") -> IF Kind[r] = "flash" THEN "configure" ELSE "finish"
    [] pc[r] \in {"fullclean_cwd", "set_target"} -> "build"
    [] At(r, "build") -> "flash"
    [] pc[r] \in {"erase_flash", "rm"} -> "finish"
    [] OTHER -> "done"

Following(r) ==
  CASE At(r, "fullclean") -> IF Kind[r] = "flash" THEN "configure" ELSE "rm"
    [] pc[r] \in {"fullclean_cwd", "set_target"} -> "build"
    [] At(r, "sed") -> "set_target"
    [] At(r, "build") -> "flash"
    [] At(r, "flash") -> IF Kind[r] = "flash" THEN "finish"
                                              ELSE "gateway_monitor"
    [] At(r, "gateway_monitor") -> "cat"
    [] At(r, "cat") -> "rm_output"
    [] pc[r] \in {"erase_flash", "rm", "rm_output"} -> "finish"
    [] OTHER -> "done"

(* The calls whose return value the handlers do not look at.               *)
IgnoresResultOfFlash(r) ==        \* mutant: nobody looks at the code of a flash
  \/ pc[r] \in {"sed", "rm", "gateway_monitor", "cat", "rm_output", "flash"}
  \/ At(r, "fullclean") /\ Kind[r] = "fullclean"

IgnoresResult(r) ==
  \/ pc[r] \in {"sed", "rm", "gateway_monitor", "cat", "rm_output"}
  \/ At(r, "fullclean") /\ Kind[r] = "fullclean"

Resume(r, code) ==
  Goto(r, IF code = "ok" \/ IgnoresResult(r) THEN Following(r) ELSE "done")

(* A command that ran to its end: its code goes to req_data["error"].      *)
Return(r, code) == /\ error' = [error EXCEPT ![r] = code]
                   /\ Resume(r, code)

(* subprocess.run raised.  do_cmd_output then fails on result.stdout: the  *)
(* exception ends the handler.  do_cmd catches everything and returns      *)
(* req_data["error"], the code of an EARLIER command; if there has been    *)
(* none, the KeyError ends the handler.                                    *)
Raise(r) ==
  /\ UNCHANGED error
  /\ IF UsesDoCmd(r) /\ error[r] # "unset" THEN Resume(r, error[r])
                                           ELSE Goto(r, "done")

-----------------------------------------------------------------------------
(* Spawn and exit of the command of r's step.                              *)
Self(r) == <<r, pc[r]>>

(* The argument lists that were made at an earlier step.                   *)
ArgsAtHand == {"sed", "gdbgui", "remote_monitor"}

SpawnInCwd(r) ==                  \* mutant: no -C, as the fullclean of /job
  /\ pc[r] \in Commands
  /\ r \notin spawned
  /\ spawned' = spawned \cup {r}
  /\ dir' = [dir EXCEPT ![r] = "."]
  /\ alive' = alive \cup {Self(r)}
  /\ UNCHANGED <<globals, process_holder, sources, project, monitor_output,
                 board, killed, pc, error, held, reaping, answers, thread>>

Spawn(r) ==
  /\ pc[r] \in Commands
  /\ r \notin spawned
  /\ spawned' = spawned \cup {r}
  /\ dir' = [dir EXCEPT ![r] = IF pc[r] \in ArgsAtHand THEN @ ELSE BUILD_PATH]
  /\ IF At(r, "gateway_monitor")
       THEN \* gateway_monitor.sh:13 truncates monitor_output.txt; a script
            \* that still has the same file open goes on writing to it
            /\ alive' = alive \cup {Self(r), <<r, "job_monitor">>}
            /\ monitor_output' =
                 {r} \cup {q \in monitor_output : <<q, "job_monitor">> \in alive}
       ELSE /\ alive' = alive \cup {Self(r)}
            /\ UNCHANGED monitor_output
  /\ UNCHANGED <<globals, process_holder, sources, project, board, killed, pc,
                 error, held, reaping, answers, thread>>

CannotStart(r) ==
  /\ "start" \in Faults
  /\ pc[r] \in Commands
  /\ r \notin spawned
  /\ Raise(r)
  /\ UNCHANGED <<globals, process_holder, sources, project, monitor_output,
                 board, os, dir, held, reaping, answers, thread>>

(* The child of r's step, which must be c, leaves the process table.       *)
Exits(r, c) == /\ At(r, c)
               /\ Self(r) \in alive
               /\ alive' = alive \ {Self(r)}
               /\ spawned' = spawned \ {r}
               /\ UNCHANGED killed

CommandFrame == UNCHANGED <<globals, process_holder, sources, dir, held,
                            reaping, thread, status>>

(***************************************************************************)
(* What the tools do when they succeed.                                    *)
(***************************************************************************)
Configured(r) == [target |-> Target[r], options |-> defaults[dir[r]]]

ImageOf(p) == [asm |-> program[p].asm, board |-> program[p].board,
               target |-> sdkconfig[p].target, options |-> sdkconfig[p].options]

(* Without an sdkconfig, idf.py configures for its default target, a chip  *)
(* the RISC-V sources do not assemble for; an empty program.s has no main. *)
Buildable(p) == sdkconfig[p] # None /\ program[p].asm # Empty

(* esptool refuses a board whose chip is not the one the image is for.     *)
Flashable(r) == Buildable(dir[r]) /\ sdkconfig[dir[r]].target = Chip[Port[r]]

FullClean(r) ==
  /\ Exits(r, "fullclean")
  /\ build' = [build EXCEPT ![dir[r]] = None]
  /\ Return(r, "ok")
  /\ CommandFrame /\ UNCHANGED <<defaults, sdkconfig, monitor_output, board, printed>>

RemoveBuild(r) ==
  /\ Exits(r, "rm")
  /\ build' = [build EXCEPT ![dir[r]] = None]
  /\ Return(r, "ok")
  /\ CommandFrame /\ UNCHANGED <<defaults, sdkconfig, monitor_output, board, printed>>

(* The sed calls for the family of the board, one after the other.         *)
Sed(r) ==
  /\ Exits(r, "sed")
  /\ sdkconfig[dir[r]] # None
  /\ sdkconfig' = [sdkconfig EXCEPT ![dir[r]].options =
                     IF OptionsFor(Target[r]) = None THEN @ ELSE OptionsFor(Target[r])]
  /\ Return(r, "ok")
  /\ CommandFrame /\ UNCHANGED <<defaults, build, monitor_output, board, printed>>

(* set-target cleans the project and makes a new sdkconfig from defaults.  *)
SetTarget(r) ==
  /\ Exits(r, "set_target")
  /\ sdkconfig' = [sdkconfig EXCEPT ![dir[r]] = Configured(r)]
  /\ build' = [build EXCEPT ![dir[r]] = None]
  /\ Return(r, "ok")
  /\ CommandFrame /\ UNCHANGED <<defaults, monitor_output, board, printed>>

Build(r) ==
  /\ Exits(r, "build")
  /\ Buildable(dir[r])
  /\ build' = [build EXCEPT ![dir[r]] = ImageOf(dir[r])]
  /\ Return(r, "ok")
  /\ CommandFrame /\ UNCHANGED <<defaults, sdkconfig, monitor_output, board, printed>>

(* idf.py flash first brings the build up to date.                         *)
Flash(r) ==
  /\ Exits(r, "flash")
  /\ Flashable(r)
  /\ build' = [build EXCEPT ![dir[r]] = ImageOf(dir[r])]
  /\ board' = [board EXCEPT ![Port[r]] = ImageOf(dir[r])]
  /\ Return(r, "ok")
  /\ CommandFrame /\ UNCHANGED <<defaults, sdkconfig, monitor_output, printed>>

EraseFlash(r) ==
  /\ Exits(r, "erase_flash")
  /\ board' = [board EXCEPT ![Port[r]] = None]
  /\ Return(r, "ok")
  /\ CommandFrame /\ UNCHANGED <<project, monitor_output, printed>>

(* monitor ends when the board is unplugged; the fullclean that /job runs  *)
(* has no -C: it cleans ./build, which is no project's build directory.    *)
ReadOnly(r) ==
  /\ \E c \in {"monitor", "fullclean_cwd"} : Exits(r, c)
  /\ Return(r, "ok")
  /\ CommandFrame /\ UNCHANGED <<project, monitor_output, board, printed>>

-----------------------------------------------------------------------------
(***************************************************************************)
(* The other ways a command ends.                                          *)
(***************************************************************************)
CanSucceed(r) == CASE At(r, "build") -> Buildable(dir[r])
                   [] At(r, "flash") -> Flashable(r)
                   [] At(r, "sed") -> sdkconfig[dir[r]] # None
                   [] At(r, "cat") -> monitor_output # {}
                   [] At(r, "rm_output") -> monitor_output # {}
                   [] OTHER -> TRUE

(* A command that does not succeed may have done nothing, all or a part of *)
(* its work (the tools idf.py started may even outlive it).                *)
Whole(ok, v) == IF ok THEN {v} ELSE {}

PartialBuild(r) ==
  CASE pc[r] \in {"fullclean", "rm", "set_target"} -> {None}
    [] pc[r] \in {"build", "flash"} ->
         {None} \cup Whole(Buildable(dir[r]), ImageOf(dir[r]))
    [] OTHER -> {}

PartialBoard(r) ==
  CASE At(r, "flash") -> {Torn} \cup Whole(Flashable(r), ImageOf(dir[r]))
    [] At(r, "erase_flash") -> {Torn, None}
    [] OTHER -> {}

PartialConfig(r) == IF At(r, "set_target") THEN {None, Configured(r)} ELSE {}

Partial(r) ==
  /\ build' \in {build} \cup {[build EXCEPT ![dir[r]] = v] : v \in PartialBuild(r)}
  /\ board' \in {board} \cup {[board EXCEPT ![Port[r]] = v] : v \in PartialBoard(r)}
  /\ sdkconfig' \in {sdkconfig} \cup
                       {[sdkconfig EXCEPT ![dir[r]] = v] : v \in PartialConfig(r)}

Fails(r) ==
  /\ \/ (IF pc[r] \in FileCommands THEN "file" ELSE "fail") \in Faults
     \/ ~CanSucceed(r)
  /\ \E c \in DoCommands : Exits(r, c)
  /\ Partial(r)
  /\ Return(r, "bad")
  /\ printed' = IF At(r, "cat") THEN [printed EXCEPT ![r] = {}] ELSE printed
  /\ CommandFrame /\ UNCHANGED <<defaults, monitor_output>>

(* A command somebody else killed: the handler reads its negative code.    *)
KilledExitUnnoticed(r) ==         \* mutant: only positive codes are errors
  /\ pc[r] \in DoCommands \cup {"gateway_monitor"}
  /\ r \in spawned /\ Self(r) \notin alive
  /\ spawned' = spawned \ {r}
  /\ Partial(r)
  /\ Return(r, "ok")
  /\ CommandFrame
  /\ UNCHANGED <<defaults, monitor_output, alive, killed, printed>>

KilledExit(r) ==
  /\ pc[r] \in DoCommands \cup {"gateway_monitor"}
  /\ r \in spawned /\ Self(r) \notin alive
  /\ spawned' = spawned \ {r}
  /\ Partial(r)
  /\ Return(r, "bad")
  /\ CommandFrame
  /\ UNCHANGED <<defaults, monitor_output, alive, killed, printed>>

TimesOutUnlessMonitor(r) ==       \* mutant: no timeout for idf.py monitor
  /\ "timeout" \in Faults
  /\ \E c \in DoCommands \ {"monitor"} : Exits(r, c)
  /\ Partial(r)
  /\ Raise(r)
  /\ CommandFrame /\ UNCHANGED <<defaults, monitor_output, printed>>

TimesOut(r) ==
  /\ "timeout" \in Faults
  /\ \E c \in DoCommands : Exits(r, c)
  /\ Partial(r)
  /\ Raise(r)
  /\ CommandFrame /\ UNCHANGED <<defaults, monitor_output, printed>>
=============================================================================
