---------------------------- MODULE FlashHandler ----------------------------
(***************************************************************************)
(* POST /flash (do_flash_request) and POST /job (do_job_request, with      *)
(* gateway_monitor.sh): write the assembly to tmp_assembly.s, adapt it     *)
(* into main/program.s (creator_build), configure, build and flash the     *)
(* project; a job then shows what the board prints.  The commands          *)
(* themselves are in Commands.                                             *)
(***************************************************************************)
EXTENDS Processes

(***************************************************************************)
(* tmp_assembly.s.  Opening truncates the file; the text arrives when the  *)
(* file is closed.  Two writers that have the file open together overlay   *)
(* each other, unless the later text is the longer one.                    *)
(***************************************************************************)
Overlay(old, new) == IF old = Empty THEN {new} ELSE {new, Torn}

OpenTmp(r) ==
  /\ At(r, "open_tmp")
  /\ tmp_assembly' = Empty
  /\ Goto(r, "write_tmp")
  /\ UNCHANGED <<globals, process_holder, program, project, monitor_output,
                 board, os, error, dir, held, reaping, answers, thread>>

WriteTmpThenReset(r) ==           \* mutant: /job resets BUILD_PATH as /flash does
  /\ At(r, "write_tmp")
  /\ tmp_assembly' \in Overlay(tmp_assembly, r)
  /\ Goto(r, "reset")
  /\ UNCHANGED <<globals, process_holder, program, project, monitor_output,
                 board, os, error, dir, held, reaping, answers, thread>>

WriteTmp(r) ==
  /\ At(r, "write_tmp")
  /\ tmp_assembly' \in Overlay(tmp_assembly, r)
  /\ Goto(r, IF Kind[r] = "flash" THEN "reset" ELSE "check_build")
  /\ UNCHANGED <<globals, process_holder, program, project, monitor_output,
                 board, os, error, dir, held, reaping, answers, thread>>

(***************************************************************************)
(* creator_build, from the text of tmp_assembly.s to main/program.s.  What *)
(* it does to the text is not modelled here, but that it depends on the    *)
(* target board is: a program carries both.                                *)
(***************************************************************************)
OpenProgram(r) ==
  /\ At(r, "open_program")
  /\ dir' = [dir EXCEPT ![r] = BUILD_PATH]
  /\ program' = [program EXCEPT ![BUILD_PATH] = [asm |-> Empty, board |-> Target[r]]]
  /\ Goto(r, "translate")
  /\ UNCHANGED <<globals, process_holder, tmp_assembly, project,
                 monitor_output, board, os, error, held, reaping, answers,
                 thread>>

(* Does the text itself name a cr_ function?  In a torn text it may or may *)
(* not.  The check looks at the tokens read, before any renaming.          *)
CrCalls(text) == IF text = Torn THEN BOOLEAN ELSE {text \in UsesCr}

(* cr_ functions are refused if BUILD_PATH, read again, says CREATOR mode; *)
(* what has been written of program.s by then stays.                       *)
Refused(r, text) ==
  \/ "fail" \in Faults
  \/ BUILD_PATH = "creator" /\ TRUE \in CrCalls(text)

Accepted(text) == BUILD_PATH = "creatino" \/ FALSE \in CrCalls(text)

TranslateOwn(r) ==                \* mutant: checks the request's text, not the file's
  /\ At(r, "translate")
  /\ Accepted(r)
  /\ held' = [held EXCEPT ![r] = tmp_assembly]
  /\ Goto(r, "write_program")
  /\ UNCHANGED <<globals, process_holder, sources, project, monitor_output,
                 board, os, error, dir, reaping, answers, thread>>

Translate(r) ==
  /\ At(r, "translate")
  /\ Accepted(tmp_assembly)
  /\ held' = [held EXCEPT ![r] = tmp_assembly]
  /\ Goto(r, "write_program")
  /\ UNCHANGED <<globals, process_holder, sources, project, monitor_output,
                 board, os, error, dir, reaping, answers, thread>>

RefuseProgram(r) ==
  /\ At(r, "translate")
  /\ Refused(r, tmp_assembly)
  /\ program' = [program EXCEPT ![dir[r]] = [asm |-> Torn, board |-> Target[r]]]
  /\ Goto(r, "done")
  /\ UNCHANGED <<globals, process_holder, tmp_assembly, project,
                 monitor_output, board, os, error, dir, held, reaping,
                 answers, thread>>

WriteProgram(r) ==
  /\ At(r, "write_program")
  /\ \E text \in Overlay(program[dir[r]].asm, held[r]) :
       program' = [program EXCEPT ![dir[r]] = [asm |-> text, board |-> Target[r]]]
  /\ Goto(r, "mode_test")
  /\ UNCHANGED <<globals, process_holder, tmp_assembly, project,
                 monitor_output, board, os, error, dir, held, reaping,
                 answers, thread>>

(***************************************************************************)
(* "if error == 0 and BUILD_PATH == ./creator", then the configuration of  *)
(* the project.  ACTUAL_TARGET is never assigned, so /flash configures     *)
(* every time.                                                             *)
(***************************************************************************)
ModeTest(r) ==
  /\ At(r, "mode_test")
  /\ Goto(r, IF Kind[r] = "flash"
               THEN IF BUILD_PATH = "creator" THEN "fullclean" ELSE "configure"
               ELSE IF BUILD_PATH = "creator" THEN "fullclean_cwd" ELSE "build")
  /\ UNCHANGED <<globals, process_holder, sources, project, monitor_output,
                 board, os, error, dir, held, reaping, answers, thread>>

(* sdkconfig.defaults is written for the two known families only.          *)
ConfigureOnce(r) ==               \* mutant: keeps a sdkconfig.defaults that exists
  /\ At(r, "configure")
  /\ dir' = [dir EXCEPT ![r] = BUILD_PATH]
  /\ defaults' = IF defaults[BUILD_PATH] # None THEN defaults
                 ELSE [defaults EXCEPT ![BUILD_PATH] = OptionsFor(Target[r])]
  /\ Goto(r, "find_sdkconfig")
  /\ UNCHANGED <<globals, process_holder, sources, sdkconfig, build,
                 monitor_output, board, os, error, held, reaping, answers,
                 thread>>

Configure(r) ==
  /\ At(r, "configure")
  /\ dir' = [dir EXCEPT ![r] = BUILD_PATH]
  /\ defaults' = IF OptionsFor(Target[r]) = None THEN defaults
                 ELSE [defaults EXCEPT ![BUILD_PATH] = OptionsFor(Target[r])]
  /\ Goto(r, "find_sdkconfig")
  /\ UNCHANGED <<globals, process_holder, sources, sdkconfig, build,
                 monitor_output, board, os, error, held, reaping, answers,
                 thread>>

(* An sdkconfig that exists already is patched in place.                   *)
FindSdkconfig(r) ==
  /\ At(r, "find_sdkconfig")
  /\ Kind[r] = "flash"
  /\ Goto(r, IF sdkconfig[dir[r]] # None /\ OptionsFor(Target[r]) # None
               THEN "sed" ELSE "set_target")
  /\ UNCHANGED <<globals, process_holder, sources, project, monitor_output,
                 board, os, error, dir, held, reaping, answers, thread>>

(* The end of a handler that got there without an error: /flash,           *)
(* /eraseflash and /fullclean tell the user so, a job's answer shows the   *)
(* exit code of its last command (0) as "error".                           *)
Finish(r) ==
  /\ At(r, "finish")
  /\ Goto(r, "done")
  /\ status' = IF Kind[r] = "job" /\ error[r] # "ok" THEN status
               ELSE [status EXCEPT ![r] = "ok"]
  /\ UNCHANGED <<globals, process_holder, sources, project, monitor_output,
                 board, os, error, dir, held, reaping, printed, thread>>

-----------------------------------------------------------------------------
(***************************************************************************)
(* A job shows 50 seconds of the board's output.  gateway_monitor.sh runs  *)
(* idf.py monitor and, in the background, sleeps and then sends SIGTERM to *)
(* every process whose command line contains the port, its own included.   *)
(* The handler waits for the background part as well, which holds the      *)
(* pipe, whatever becomes of idf.py.                                       *)
(***************************************************************************)
Using(port) == {p \in alive : Port[p[1]] = port /\ p[2] \in
  {"flash", "monitor", "remote_monitor", "erase_flash", "gateway_monitor",
   "job_monitor"}}

JobMonitorEnds(r) ==
  /\ At(r, "gateway_monitor")
  /\ Self(r) \in alive
  /\ alive' = alive \ Using(Port[r])
  /\ killed' = killed \cup (Bereaved(Using(Port[r])) \ {r})
  /\ spawned' = spawned \ {r}
  /\ Return(r, "bad")
  /\ CommandFrame /\ UNCHANGED <<project, monitor_output, board, printed>>

CatOutput(r) ==
  /\ Exits(r, "cat")
  /\ monitor_output # {}
  /\ printed' = [printed EXCEPT ![r] = monitor_output]
  /\ Return(r, "ok")
  /\ CommandFrame /\ UNCHANGED <<project, monitor_output, board>>

RemoveOutput(r) ==
  /\ Exits(r, "rm_output")
  /\ monitor_output # {}
  /\ monitor_output' = {}
  /\ Return(r, "ok")
  /\ CommandFrame /\ UNCHANGED <<project, board, printed>>
=============================================================================
