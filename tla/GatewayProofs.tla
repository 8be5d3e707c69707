--------------------------- MODULE GatewayProofs ----------------------------
(***************************************************************************)
(* The types, and what holds in every state whoever uses the gateway and   *)
(* how: the projects commands work in, the processes handlers kill.        *)
(***************************************************************************)
EXTENDS Gateway, TLAPS

USE DEF At, Goto, globals, sources, project, os, reaping, answers

(* The step a command leads to is a step.                                  *)
LEMMA FollowingType ==
  ASSUME NEW r \in Requests
  PROVE  Following(r) \in Steps \cup Commands
BY DEF Following, Steps, Commands

LEMMA ResumeType ==
  ASSUME NEW r \in Requests, NEW code, TypeOK, Resume(r, code)
  PROVE  pc' \in [Requests -> Steps \cup Commands]
<1>1. "done" \in Steps
  BY DEF Steps
<1> QED
  BY <1>1, FollowingType DEF Resume, TypeOK

LEMMA ReturnType ==
  ASSUME NEW r \in Requests, NEW code \in {"ok", "bad"}, TypeOK, Return(r, code)
  PROVE  /\ pc' \in [Requests -> Steps \cup Commands]
         /\ error' \in [Requests -> {"unset", "ok", "bad"}]
<1>1. pc' \in [Requests -> Steps \cup Commands]
  BY ResumeType DEF Return
<1>2. error' \in [Requests -> {"unset", "ok", "bad"}]
  BY DEF Return, TypeOK
<1> QED
  BY <1>1, <1>2

LEMMA RaiseType ==
  ASSUME NEW r \in Requests, TypeOK, Raise(r)
  PROVE  /\ pc' \in [Requests -> Steps \cup Commands]
         /\ error' \in [Requests -> {"unset", "ok", "bad"}]
<1>1. "done" \in Steps
  BY DEF Steps
<1>2. error' \in [Requests -> {"unset", "ok", "bad"}]
  BY DEF Raise, TypeOK
<1>3. CASE UsesDoCmd(r) /\ error[r] # "unset"
  BY <1>2, <1>3, ResumeType DEF Raise
<1>4. CASE ~(UsesDoCmd(r) /\ error[r] # "unset")
  BY <1>1, <1>2, <1>4 DEF Raise, TypeOK
<1> QED
  BY <1>3, <1>4

LEMMA AcceptType == ASSUME NEW r \in Requests, TypeOK, Accept(r) PROVE TypeOK'
<1>1. First(Kind[r]) \in Steps \cup Commands
  BY GatewayAssumption DEF First, Steps, Commands, Kinds
<1> QED
  BY <1>1, GatewayAssumption DEF TypeOK, Accept

LEMMA CheckBuildType == ASSUME NEW r \in Requests, TypeOK, CheckBuild(r) PROVE TypeOK'
<1>1. AfterCheck(Kind[r]) \in Steps \cup Commands
  BY GatewayAssumption DEF AfterCheck, Steps, Commands, Kinds
<1> QED
  BY <1>1, GatewayAssumption DEF TypeOK, CheckBuild, ProjectFor, Projects

LEMMA SpawnType == ASSUME NEW r \in Requests, TypeOK, Spawn(r) PROVE TypeOK'
<1>1. /\ Self(r) \in Requests \X (Commands \cup Daemons)
      /\ <<r, "job_monitor">> \in Requests \X (Commands \cup Daemons)
  BY DEF Self, Spawn, Daemons
<1>2. /\ alive' \subseteq Requests \X (Commands \cup Daemons)
      /\ monitor_output' \subseteq Requests
  <2>1. CASE At(r, "gateway_monitor")
    <3>1. alive' = alive \cup {Self(r), <<r, "job_monitor">>}
      BY <2>1 DEF Spawn
    <3>2. monitor_output' \subseteq {r} \cup monitor_output
      BY <2>1 DEF Spawn
    <3> QED
      BY <1>1, <3>1, <3>2 DEF TypeOK
  <2>2. CASE ~At(r, "gateway_monitor")
    <3>1. alive' = alive \cup {Self(r)} /\ monitor_output' = monitor_output
      BY <2>2 DEF Spawn
    <3> QED
      BY <1>1, <3>1 DEF TypeOK
  <2> QED
    BY <2>1, <2>2
<1>3. dir' \in [Requests -> Projects]
  BY DEF Spawn, TypeOK
<1> QED
  BY <1>2, <1>3 DEF TypeOK, Spawn

LEMMA WriteProgramType == ASSUME NEW r \in Requests, TypeOK, WriteProgram(r) PROVE TypeOK'
<1>1. "mode_test" \in Steps
  BY DEF Steps
<1>2. PICK text \in Overlay(program[dir[r]].asm, held[r]) :
        program' = [program EXCEPT ![dir[r]] = [asm |-> text, board |-> Target[r]]]
  BY DEF WriteProgram
<1>3. text \in Texts
  BY DEF Overlay, TypeOK, Texts
<1>4. [asm |-> text, board |-> Target[r]] \in Programs
  BY <1>3, GatewayAssumption DEF Programs
<1>5. program' \in [Projects -> Programs]
  BY <1>2, <1>4 DEF TypeOK
<1> QED
  BY <1>1, <1>5 DEF TypeOK, WriteProgram

LEMMA SourceType ==
  ASSUME NEW r \in Requests, TypeOK,
         OpenTmp(r) \/ WriteTmp(r) \/ OpenProgram(r) \/ Translate(r) \/ RefuseProgram(r)
  PROVE  TypeOK'
<1>1. {"write_tmp", "reset", "check_build", "translate", "write_program", "done"} \subseteq Steps
  BY DEF Steps
<1>2. r \in Texts /\ Empty \in Texts /\ Torn \in Texts
  BY DEF Texts
<1>3. /\ [asm |-> Empty, board |-> Target[r]] \in Programs
      /\ [asm |-> Torn, board |-> Target[r]] \in Programs
  BY <1>2, GatewayAssumption DEF Programs
<1>4. CASE OpenTmp(r)
  BY <1>1, <1>2, <1>4 DEF TypeOK, OpenTmp
<1>5. CASE WriteTmp(r)
  BY <1>1, <1>2, <1>5 DEF TypeOK, WriteTmp, Overlay
<1>6. CASE OpenProgram(r)
  BY <1>1, <1>3, <1>6 DEF TypeOK, OpenProgram
<1>7. CASE Translate(r)
  BY <1>1, <1>7 DEF TypeOK, Translate
<1>8. CASE RefuseProgram(r)
  BY <1>1, <1>3, <1>8 DEF TypeOK, RefuseProgram
<1> QED
  BY <1>4, <1>5, <1>6, <1>7, <1>8

LEMMA HandlerType ==
  ASSUME NEW r \in Requests, TypeOK,
         \/ Reset(r) \/ ModeTest(r) \/ Configure(r) \/ FindSdkconfig(r) \/ Finish(r)
         \/ MonitorDocker(r) \/ MonitorSdkconfig(r)
         \/ DebugDocker(r) \/ StartOpenocd(r) \/ Poll(r) \/ FindGdbinit(r)
         \/ RemoteBuild(r) \/ RemoteGui(r) \/ RemoteGuiFails(r) \/ RemoteStore(r) \/ RemotePid(r)
  PROVE  TypeOK'
<1>1. {"check_build", "configure", "find_sdkconfig", "done", "reap", "remote_build",
       "poll", "gdbinit", "remote_gui", "remote_store", "remote_pid"} \subseteq Steps
  BY DEF Steps
<1>2. {"fullclean", "fullclean_cwd", "build", "sed", "set_target", "monitor", "gdbgui",
       "remote_monitor"} \subseteq Commands
  BY DEF Commands
<1>3. CASE Reset(r)
  BY <1>1, <1>3 DEF TypeOK, Reset, Projects
<1>4. CASE ModeTest(r)
  BY <1>1, <1>2, <1>4 DEF TypeOK, ModeTest
<1>5. CASE Configure(r)
  <2>1. OptionsFor(Target[r]) \in Options
    BY DEF OptionsFor, Options
  <2> QED
    BY <1>1, <1>5, <2>1 DEF TypeOK, Configure
<1>6. CASE FindSdkconfig(r)
  BY <1>2, <1>6 DEF TypeOK, FindSdkconfig
<1>7. CASE Finish(r)
  BY <1>1, <1>7 DEF TypeOK, Finish
<1>8. CASE MonitorDocker(r)
  <2>1. Goto(r, "reap") \/ Goto(r, "done")
    BY <1>8 DEF MonitorDocker
  <2>2. pc' \in [Requests -> Steps \cup Commands]
    BY <1>1, <2>1 DEF TypeOK
  <2> QED
    BY <1>8, <2>2 DEF TypeOK, MonitorDocker
<1>9. CASE MonitorSdkconfig(r)
  BY <1>1, <1>2, <1>9 DEF TypeOK, MonitorSdkconfig
<1>10. CASE DebugDocker(r)
  BY <1>1, <1>10 DEF TypeOK, DebugDocker
<1>11. CASE StartOpenocd(r)
  BY <1>1, <1>11 DEF TypeOK, StartOpenocd
<1>12. CASE Poll(r)
  BY <1>1, <1>12 DEF TypeOK, Poll
<1>13. CASE FindGdbinit(r)
  BY <1>1, <1>2, <1>13 DEF TypeOK, FindGdbinit
<1>14. CASE RemoteBuild(r)
  BY <1>1, <1>14 DEF TypeOK, RemoteBuild, ProjectFor, Projects
<1>15. CASE RemoteGui(r)
  <2>1. <<r, "gdbgui_server">> \in Requests \X (Commands \cup Daemons)
    BY DEF Daemons, Debuggers
  <2> QED
    BY <1>1, <1>15, <2>1 DEF TypeOK, RemoteGui
<1>16. CASE RemoteGuiFails(r)
  BY <1>1, <1>16 DEF TypeOK, RemoteGuiFails
<1>18. CASE RemoteStore(r)
  BY <1>1, <1>18 DEF TypeOK, RemoteStore
<1>17. CASE RemotePid(r)
  BY <1>1, <1>2, <1>17 DEF TypeOK, RemotePid
<1> QED
  BY <1>3, <1>4, <1>5, <1>6, <1>7, <1>8, <1>9, <1>10, <1>11, <1>12, <1>13, <1>14,
     <1>15, <1>16, <1>17, <1>18

(* Only debuggers escape.                                                  *)
LEMMA EscapeType ==
  ASSUME TypeOK, NEW ps, Escape(ps) PROVE escaped' \subseteq Requests \X Debuggers
<1>1. \A p \in alive : p[2] \in Debuggers => p \in Requests \X Debuggers
  BY DEF TypeOK
<1> QED
  BY <1>1 DEF Escape, TypeOK

LEMMA ProcessType ==
  ASSUME NEW r \in Requests, TypeOK,
         Reap(r) \/ ListProcesses(r) \/ CannotList(r) \/ KillListed(r) \/ KillRaises(r) \/ Pop(r)
  PROVE  TypeOK'
<1>1. {"done", "ps", "kill", "pop"} \subseteq Steps
  BY DEF Steps
<1>2. AfterReap(r) \in Steps /\ AfterKill(r) \in Steps
  BY DEF AfterReap, AfterKill, Steps
<1>3. Matching(name[r]) \subseteq Requests \X (Commands \cup Daemons)
  BY DEF Matching, TypeOK
<1>4. CASE Reap(r)
  <2>0. Goto(r, "ps") \/ Goto(r, AfterReap(r))
    BY <1>4 DEF Reap
  <2>1. pc' \in [Requests -> Steps \cup Commands]
    BY <1>1, <1>2, <2>0 DEF TypeOK
  <2>2. name' \in [Requests -> {"idf.py", "openocd", "gdbgui"}]
    BY <1>4 DEF TypeOK, Reap, NextName
  <2> QED
    BY <1>4, <2>1, <2>2 DEF TypeOK, Reap
<1>5. CASE ListProcesses(r)
  BY <1>1, <1>2, <1>3, <1>5 DEF TypeOK, ListProcesses
<1>6. CASE KillListed(r)
  BY <1>1, <1>2, <1>6 DEF TypeOK, KillListed, Kill, Bereaved
<1>7. CASE Pop(r)
  BY <1>1, <1>2, <1>7 DEF TypeOK, Pop, NextName
<1>8. CASE CannotList(r)
  <2>1. escaped' \subseteq Requests \X Debuggers
    BY <1>3, <1>8, EscapeType DEF CannotList
  <2> QED
    BY <1>2, <1>8, <2>1 DEF TypeOK, CannotList
<1>9. CASE KillRaises(r)
  <2>1. PICK ps \in SUBSET victims[r] : Kill(ps) /\ Escape(victims[r] \ ps)
    BY <1>9 DEF KillRaises
  <2>2. escaped' \subseteq Requests \X Debuggers
    BY <2>1, EscapeType
  <2>3. /\ alive' \subseteq alive /\ spawned' = spawned
        /\ killed' \subseteq Requests
    BY <2>1 DEF Kill, Bereaved, TypeOK
  <2>4. victims' \in [Requests -> SUBSET (Requests \X (Commands \cup Daemons))]
    BY <1>9 DEF KillRaises, TypeOK
  <2> QED
    BY <1>2, <1>9, <2>2, <2>3, <2>4 DEF TypeOK, KillRaises
<1> QED
  BY <1>4, <1>5, <1>6, <1>7, <1>8, <1>9

(* The steps of a debug request's thread, the failing one among them.      *)
OpenocdThread(r) == ThreadStep(r) \/ ThreadLogFails(r)

LEMMA ThreadType ==
  ASSUME NEW r \in Requests, TypeOK, OpenocdThread(r)
  PROVE  TypeOK'
<1> USE DEF ThreadAt, ThreadGoto
<1>1. <<r, "openocd">> \in Requests \X (Commands \cup Daemons)
  BY DEF Daemons, Debuggers
<1>2. CASE ThreadPopen(r)
  BY <1>1, <1>2 DEF TypeOK, ThreadPopen
<1>3. CASE ThreadPopenFails(r)
  BY <1>3 DEF TypeOK, ThreadPopenFails
<1>4. CASE ThreadReread(r)
  BY <1>4 DEF TypeOK, ThreadReread
<1>5. CASE ThreadDrop(r)
  BY <1>5 DEF TypeOK, ThreadDrop
<1>6. CASE ThreadStore(r)
  BY <1>6 DEF TypeOK, ThreadStore
<1>7. CASE ThreadLogs(r)
  BY <1>7 DEF TypeOK, ThreadLogs
<1>8. CASE ThreadLogFails(r)
  BY <1>8, EscapeType DEF TypeOK, ThreadLogFails
<1> QED
  BY <1>2, <1>3, <1>4, <1>5, <1>6, <1>7, <1>8 DEF OpenocdThread, ThreadStep

-----------------------------------------------------------------------------
(***************************************************************************)
(* The ends of commands.                                                   *)
(***************************************************************************)

(* What a successful command writes has the right type.                    *)
LEMMA MadeType ==
  ASSUME NEW r \in Requests, TypeOK
  PROVE  /\ Configured(r) \in Configs
         /\ Buildable(dir[r]) => ImageOf(dir[r]) \in Images
<1>1. dir[r] \in Projects /\ Target[r] \in Targets
  BY GatewayAssumption DEF TypeOK
<1>2. defaults[dir[r]] \in Options
  BY <1>1 DEF TypeOK
<1>3. Configured(r) \in Configs
  BY <1>1, <1>2 DEF Configured, Configs
<1>4. ASSUME Buildable(dir[r]) PROVE ImageOf(dir[r]) \in Images
  <2>1. sdkconfig[dir[r]] \in Configs
    BY <1>1, <1>4 DEF TypeOK, Buildable
  <2>2. program[dir[r]] \in Programs
    BY <1>1 DEF TypeOK
  <2> QED
    BY <2>1, <2>2 DEF ImageOf, Images, Configs, Programs
<1> QED
  BY <1>3, <1>4

LEMMA PartialType ==
  ASSUME NEW r \in Requests, TypeOK, Partial(r)
  PROVE  /\ build' \in [Projects -> Images \cup {None}]
         /\ board' \in [Ports -> Images \cup {None, Torn}]
         /\ sdkconfig' \in [Projects -> Configs \cup {None}]
<1>1. Flashable(r) => Buildable(dir[r])
  BY DEF Flashable
<1>2. PartialBuild(r) \subseteq Images \cup {None}
  BY MadeType DEF PartialBuild, Whole
<1>3. PartialBoard(r) \subseteq Images \cup {None, Torn}
  BY <1>1, MadeType DEF PartialBoard, Whole
<1>4. PartialConfig(r) \subseteq Configs \cup {None}
  BY MadeType DEF PartialConfig
<1>5. build' \in [Projects -> Images \cup {None}]
  BY <1>2 DEF Partial, TypeOK
<1>6. board' \in [Ports -> Images \cup {None, Torn}]
  BY <1>3 DEF Partial, TypeOK
<1>7. sdkconfig' \in [Projects -> Configs \cup {None}]
  BY <1>4 DEF Partial, TypeOK
<1> QED
  BY <1>5, <1>6, <1>7

(* A command that ends changes at most the projects, the boards, the       *)
(* output of the jobs and the bookkeeping of processes.                    *)
LEMMA EndType ==
  ASSUME NEW r \in Requests, TypeOK, CommandFrame, defaults' = defaults,
         \/ Raise(r)
         \/ \E code \in {"ok", "bad"} : Return(r, code),
         alive' \subseteq alive, spawned' \subseteq spawned,
         killed' \subseteq Requests, monitor_output' \subseteq Requests,
         printed' \in [Requests -> SUBSET Requests],
         build' \in [Projects -> Images \cup {None}],
         board' \in [Ports -> Images \cup {None, Torn}],
         sdkconfig' \in [Projects -> Configs \cup {None}]
  PROVE  TypeOK'
<1>1. /\ pc' \in [Requests -> Steps \cup Commands]
      /\ error' \in [Requests -> {"unset", "ok", "bad"}]
  BY RaiseType, ReturnType
<1> QED
  BY <1>1 DEF TypeOK, CommandFrame

LEMMA SuccessType ==
  ASSUME NEW r \in Requests, TypeOK,
         \/ FullClean(r) \/ RemoveBuild(r) \/ Sed(r) \/ SetTarget(r) \/ Build(r)
         \/ Flash(r) \/ EraseFlash(r) \/ ReadOnly(r) \/ CatOutput(r) \/ RemoveOutput(r)
  PROVE  TypeOK'
<1> DEFINE Done == /\ CommandFrame /\ defaults' = defaults /\ Return(r, "ok")
                   /\ alive' \subseteq alive /\ spawned' \subseteq spawned
                   /\ killed' = killed
<1>1. Done
  BY DEF FullClean, RemoveBuild, Sed, SetTarget, Build, Flash, EraseFlash, ReadOnly,
         CatOutput, RemoveOutput, Exits
<1>2. /\ monitor_output' \subseteq Requests
      /\ printed' \in [Requests -> SUBSET Requests]
  BY DEF FullClean, RemoveBuild, Sed, SetTarget, Build, Flash, EraseFlash, ReadOnly,
         CatOutput, RemoveOutput, TypeOK
<1>3. build' \in [Projects -> Images \cup {None}]
  BY MadeType
     DEF FullClean, RemoveBuild, Sed, SetTarget, Build, Flash, Flashable, EraseFlash,
         ReadOnly, CatOutput, RemoveOutput, TypeOK
<1>4. board' \in [Ports -> Images \cup {None, Torn}]
  BY MadeType
     DEF FullClean, RemoveBuild, Sed, SetTarget, Build, Flash, Flashable, EraseFlash,
         ReadOnly, CatOutput, RemoveOutput, TypeOK
<1>5. sdkconfig' \in [Projects -> Configs \cup {None}]
  <2>1. ASSUME Sed(r) PROVE sdkconfig' \in [Projects -> Configs \cup {None}]
    <3> DEFINE o == IF OptionsFor(Target[r]) = None THEN sdkconfig[dir[r]].options
                    ELSE OptionsFor(Target[r])
    <3>1. sdkconfig[dir[r]] \in Configs
      BY <2>1 DEF Sed, TypeOK
    <3>2. o \in Options
      BY <3>1 DEF OptionsFor, Options, Configs
    <3>3. [sdkconfig[dir[r]] EXCEPT !.options = o] \in Configs
      BY <3>1, <3>2 DEF Configs
    <3>4. sdkconfig' = [sdkconfig EXCEPT ![dir[r]] = [sdkconfig[dir[r]] EXCEPT !.options = o]]
      BY <2>1, <3>1 DEF Sed, TypeOK
    <3> QED
      BY <3>3, <3>4 DEF TypeOK
  <2> QED
    BY <2>1, MadeType
       DEF FullClean, RemoveBuild, SetTarget, Build, Flash, EraseFlash, ReadOnly,
           CatOutput, RemoveOutput, TypeOK
<1>6. killed' \subseteq Requests
  BY <1>1 DEF TypeOK
<1> QED
  BY <1>1, <1>2, <1>3, <1>4, <1>5, <1>6, EndType

LEMMA FailureType ==
  ASSUME NEW r \in Requests, TypeOK,
         Fails(r) \/ KilledExit(r) \/ TimesOut(r) \/ JobMonitorEnds(r)
  PROVE  TypeOK'
<1>1. /\ CommandFrame /\ defaults' = defaults /\ monitor_output' = monitor_output
      /\ alive' \subseteq alive /\ spawned' \subseteq spawned
      /\ Raise(r) \/ Return(r, "bad")
  BY DEF Fails, KilledExit, TimesOut, JobMonitorEnds, Exits
<1>2. killed' \subseteq Requests
  BY DEF Fails, KilledExit, TimesOut, JobMonitorEnds, Exits, Bereaved, TypeOK
<1>3. printed' \in [Requests -> SUBSET Requests]
  BY DEF Fails, KilledExit, TimesOut, JobMonitorEnds, TypeOK
<1>4. /\ build' \in [Projects -> Images \cup {None}]
      /\ board' \in [Ports -> Images \cup {None, Torn}]
      /\ sdkconfig' \in [Projects -> Configs \cup {None}]
  BY PartialType DEF Fails, KilledExit, TimesOut, JobMonitorEnds, TypeOK
<1>5. monitor_output' \subseteq Requests
  BY <1>1 DEF TypeOK
<1> QED
  BY <1>1, <1>2, <1>3, <1>4, <1>5, EndType

LEMMA OtherEndType ==
  ASSUME NEW r \in Requests, TypeOK,
         CannotStart(r) \/ GdbguiExits(r) \/ RemoteMonitorExits(r) \/ DaemonExits(r)
  PROVE  TypeOK'
<1>1. "done" \in Steps
  BY DEF Steps
<1>2. CASE CannotStart(r)
  BY <1>2, RaiseType DEF TypeOK, CannotStart
<1>3. CASE GdbguiExits(r)
  BY <1>1, <1>3 DEF TypeOK, GdbguiExits
<1>4. CASE RemoteMonitorExits(r)
  BY <1>1, <1>4 DEF TypeOK, RemoteMonitorExits
<1>5. CASE DaemonExits(r)
  BY <1>5 DEF TypeOK, DaemonExits
<1> QED
  BY <1>2, <1>3, <1>4, <1>5

-----------------------------------------------------------------------------
LEMMA InitType == Init => TypeOK
<1> SUFFICES ASSUME Init PROVE TypeOK
  OBVIOUS
<1>1. "idle" \in Steps
  BY DEF Steps
<1>2. None \in Texts /\ None \in Options
  BY DEF Texts, Options
<1>3. \A t \in Targets : OptionsFor(t) \in Options
  BY DEF OptionsFor, Options
<1>4. /\ program \in [Projects -> Programs]
      /\ defaults \in [Projects -> Options]
      /\ sdkconfig \in [Projects -> Configs \cup {None}]
      /\ build \in [Projects -> Images \cup {None}]
  <2>1. (CHOOSE t \in Targets : TRUE) \in Targets
    BY GatewayAssumption
  <2>2. \A t \in Targets : /\ [asm |-> None, board |-> t] \in Programs
                           /\ OldConfig(t) \in Configs
                           /\ OldImage(t) \in Images
    BY <1>2, <1>3 DEF Programs, OldConfig, OldImage, Configs, Images
  <2>3. CASE /\ defaults = [p \in Projects |-> None]
             /\ sdkconfig = [p \in Projects |-> None]
             /\ build = [p \in Projects |-> None]
             /\ program = [p \in Projects |-> [asm |-> None, board |-> CHOOSE t \in Targets : TRUE]]
    BY <1>2, <2>1, <2>2, <2>3
  <2>4. ASSUME NEW t \in Targets,
               defaults = [p \in Projects |-> OptionsFor(t)],
               sdkconfig = [p \in Projects |-> OldConfig(t)],
               build = [p \in Projects |-> OldImage(t)],
               program = [p \in Projects |-> [asm |-> None, board |-> t]]
        PROVE  /\ program \in [Projects -> Programs]
               /\ defaults \in [Projects -> Options]
               /\ sdkconfig \in [Projects -> Configs \cup {None}]
               /\ build \in [Projects -> Images \cup {None}]
    BY <1>3, <2>2, <2>4
  <2> QED
    BY <2>3, <2>4 DEF Init
<1>5. /\ docker \in BOOLEAN /\ BUILD_PATH \in Projects
      /\ dir \in [Requests -> Projects]
  BY GatewayAssumption DEF Init, Projects
<1>6. name \in [Requests -> {"idf.py", "openocd", "gdbgui"}]
  BY DEF Init
<1> QED
  BY <1>1, <1>2, <1>4, <1>5, <1>6 DEF Init, TypeOK

(* Everything the handlers share keeps its type, whatever the requests do. *)
THEOREM TypeCorrect == Spec => []TypeOK
<1>1. TypeOK /\ [Next]_vars => TypeOK'
  <2> SUFFICES ASSUME TypeOK, [Next]_vars PROVE TypeOK'
    OBVIOUS
  <2>1. ASSUME NEW r \in Requests, Accept(r) \/ Work(r) PROVE TypeOK'
    <3>0. CASE Accept(r)
      BY <3>0, AcceptType
    <3>1. CASE HandlerStep(r)
      BY <3>1, CheckBuildType, SpawnType, WriteProgramType, SourceType,
         HandlerType, ProcessType, FailureType, OtherEndType DEF HandlerStep
    <3>2. CASE OpenocdThread(r)
      BY <3>2, ThreadType
    <3>3. CASE CommandEnds(r)
      BY <3>3, SuccessType, FailureType, OtherEndType DEF CommandEnds
    <3>4. CASE TimesOut(r) \/ JobMonitorEnds(r)
      BY <3>4, FailureType
    <3> QED
      BY <2>1, <3>0, <3>1, <3>2, <3>3, <3>4 DEF Work, OpenocdThread
  <2>2. CASE UNCHANGED vars
    BY <2>2 DEF vars, TypeOK
  <2> QED
    BY <2>1, <2>2 DEF Next, Terminating
<1> QED
  BY <1>1, InitType, PTL DEF Spec
-----------------------------------------------------------------------------
(***************************************************************************)
(* What the mode global guarantees when all users share a mode.            *)
(*                                                                         *)
(* Among users of the CREATOR mode no assembly that names a cr_ function   *)
(* gets into the CREATOR project, although requests overwrite each other's *)
(* tmp_assembly.s: what creator_build checks is the text it has read, and  *)
(* that text is what it writes.  A request in CREATino mode would break    *)
(* this: it may change BUILD_PATH after the project was chosen and before  *)
(* the check.  The names creator_build itself adds are not checked.        *)
(*                                                                         *)
(* The two parts behind it are about RightProject, in either mode.         *)
(***************************************************************************)

AllCreator == \A r \in Requests : Arduino[r] = FALSE

CrInv ==
  /\ arduino = FALSE
  /\ BUILD_PATH = "creator"
  /\ \A r \in Requests : At(r, "write_program") => held[r] \notin UsesCr
  /\ NoCrInCreator

LEMMA NoText == None \notin UsesCr /\ Empty \notin UsesCr /\ Torn \notin UsesCr
BY GatewayAssumption

(* A step that writes no program and does not begin to.                    *)
LEMMA ElsewhereCr ==
  ASSUME NEW r \in Requests, TypeOK, CrInv,
         arduino' = FALSE, BUILD_PATH' = "creator", UNCHANGED <<program, held>>,
         pc' = pc \/ \E s : s # "write_program" /\ Goto(r, s)
  PROVE  CrInv'
<1>1. \A q \in Requests : pc'[q] = "write_program" => pc[q] = "write_program"
  BY DEF TypeOK
<1> QED
  BY <1>1 DEF CrInv, NoCrInCreator

LEMMA OpenProgramCr ==
  ASSUME NEW r \in Requests, TypeOK, CrInv, OpenProgram(r) PROVE CrInv'
<1>1. program'["creator"].asm = Empty
  BY DEF OpenProgram, CrInv, TypeOK, Projects
<1>2. \A q \in Requests : pc'[q] = "write_program" => pc[q] = "write_program"
  BY DEF OpenProgram, TypeOK
<1> QED
  BY <1>1, <1>2, NoText DEF OpenProgram, CrInv, NoCrInCreator

LEMMA TranslateCr ==
  ASSUME NEW r \in Requests, TypeOK, CrInv, Translate(r) PROVE CrInv'
<1>1. tmp_assembly \notin UsesCr
  BY NoText DEF Translate, Accepted, CrCalls, CrInv
<1>2. \A q \in Requests : pc'[q] = "write_program" /\ q # r => pc[q] = "write_program"
  BY DEF Translate, TypeOK
<1>3. \A q \in Requests : held'[q] = IF q = r THEN tmp_assembly ELSE held[q]
  BY DEF Translate, TypeOK
<1> QED
  BY <1>1, <1>2, <1>3 DEF Translate, CrInv, NoCrInCreator

LEMMA RefuseProgramCr ==
  ASSUME NEW r \in Requests, TypeOK, CrInv, RefuseProgram(r) PROVE CrInv'
<1>1. program'["creator"].asm \in {program["creator"].asm, Torn}
  BY DEF RefuseProgram, TypeOK, Projects
<1>2. \A q \in Requests : pc'[q] = "write_program" => pc[q] = "write_program"
  BY DEF RefuseProgram, TypeOK
<1> QED
  BY <1>1, <1>2, NoText DEF RefuseProgram, CrInv, NoCrInCreator

LEMMA WriteProgramCr ==
  ASSUME NEW r \in Requests, TypeOK, CrInv, WriteProgram(r) PROVE CrInv'
<1>1. PICK text \in Overlay(program[dir[r]].asm, held[r]) :
        program' = [program EXCEPT ![dir[r]] = [asm |-> text, board |-> Target[r]]]
  BY DEF WriteProgram
<1>2. text \notin UsesCr
  BY <1>1, NoText DEF Overlay, WriteProgram, CrInv
<1>3. program'["creator"].asm \in {program["creator"].asm, text}
  BY <1>1 DEF TypeOK, Projects
<1>4. \A q \in Requests : pc'[q] = "write_program" => pc[q] = "write_program"
  BY DEF WriteProgram, TypeOK
<1> QED
  BY <1>2, <1>3, <1>4 DEF WriteProgram, CrInv, NoCrInCreator

LEMMA StatementCr ==
  ASSUME NEW r \in Requests, AllCreator, TypeOK, CrInv,
         \/ Accept(r) \/ Reset(r) \/ CheckBuild(r) \/ OpenTmp(r) \/ WriteTmp(r)
         \/ ModeTest(r) \/ Configure(r) \/ FindSdkconfig(r) \/ Finish(r)
         \/ MonitorDocker(r) \/ MonitorSdkconfig(r)
         \/ DebugDocker(r) \/ StartOpenocd(r) \/ Poll(r) \/ FindGdbinit(r)
         \/ RemoteBuild(r) \/ RemoteGui(r) \/ RemoteGuiFails(r) \/ RemoteStore(r) \/ RemotePid(r)
         \/ Spawn(r) \/ OpenocdThread(r)
  PROVE  CrInv'
<1>1. UNCHANGED <<program, held>>
  BY DEF Accept, Reset, CheckBuild, OpenTmp, WriteTmp, ModeTest, Configure, FindSdkconfig,
         Finish, MonitorDocker, MonitorSdkconfig, DebugDocker, StartOpenocd, Poll, FindGdbinit,
         RemoteBuild, RemoteGui, RemoteGuiFails, RemoteStore, RemotePid, Spawn, OpenocdThread,
         ThreadStep, ThreadStore, ThreadLogs, ThreadLogFails, ThreadPopen,
         ThreadPopenFails, ThreadReread, ThreadDrop
<1>2. arduino' = FALSE /\ BUILD_PATH' = "creator"
  BY DEF Accept, Reset, CheckBuild, OpenTmp, WriteTmp, ModeTest, Configure, FindSdkconfig,
         Finish, MonitorDocker, MonitorSdkconfig, DebugDocker, StartOpenocd, Poll, FindGdbinit,
         RemoteBuild, RemoteGui, RemoteGuiFails, RemoteStore, RemotePid, Spawn, OpenocdThread,
         ThreadStep, ThreadStore, ThreadLogs, ThreadLogFails, ThreadPopen,
         ThreadPopenFails, ThreadReread, ThreadDrop, AllCreator, CrInv, ProjectFor
<1>3. pc' = pc \/ \E s : s # "write_program" /\ Goto(r, s)
  <2>1. CASE Accept(r)
    BY <2>1, GatewayAssumption DEF Accept, First, Kinds
  <2>2. CASE CheckBuild(r)
    BY <2>2 DEF CheckBuild, AfterCheck
  <2>3. CASE MonitorDocker(r) \/ DebugDocker(r)
    BY <2>3 DEF MonitorDocker, DebugDocker
  <2>4. CASE \/ Reset(r) \/ OpenTmp(r) \/ WriteTmp(r) \/ ModeTest(r) \/ Configure(r)
             \/ FindSdkconfig(r) \/ Finish(r) \/ MonitorSdkconfig(r) \/ StartOpenocd(r)
    BY <2>4 DEF Reset, OpenTmp, WriteTmp, ModeTest, Configure, FindSdkconfig, Finish,
                MonitorSdkconfig, StartOpenocd
  <2>5. CASE \/ Poll(r) \/ FindGdbinit(r) \/ RemoteBuild(r) \/ RemoteGui(r)
             \/ RemoteGuiFails(r) \/ RemoteStore(r) \/ RemotePid(r) \/ Spawn(r) \/ OpenocdThread(r)
    BY <2>5 DEF Poll, FindGdbinit, RemoteBuild, RemoteGui, RemoteGuiFails, RemoteStore,
       RemotePid, Spawn,
                OpenocdThread, ThreadStep, ThreadStore, ThreadLogs, ThreadLogFails, ThreadPopen,
                ThreadPopenFails, ThreadReread, ThreadDrop
  <2> QED
    BY <2>1, <2>2, <2>3, <2>4, <2>5
<1> QED
  BY <1>1, <1>2, <1>3, ElsewhereCr

LEMMA ProcessCr ==
  ASSUME NEW r \in Requests, TypeOK, CrInv,
         Reap(r) \/ ListProcesses(r) \/ CannotList(r) \/ KillListed(r) \/ KillRaises(r) \/ Pop(r)
  PROVE  CrInv'
<1>1. UNCHANGED <<globals, program, held>>
  BY DEF Reap, ListProcesses, CannotList, KillListed, KillRaises, AfterKill, Pop
<1>2. \E s \in {"ps", "kill", "pop", "done", AfterReap(r)} : Goto(r, s)
  BY DEF Reap, ListProcesses, CannotList, KillListed, KillRaises, AfterKill, Pop
<1>3. AfterReap(r) # "write_program"
  BY DEF AfterReap
<1> QED
  BY <1>1, <1>2, <1>3, ElsewhereCr DEF CrInv

LEMMA CommandCr ==
  ASSUME NEW r \in Requests, TypeOK, CrInv,
         \/ CommandEnds(r) \/ CannotStart(r) \/ KilledExit(r) \/ TimesOut(r)
         \/ JobMonitorEnds(r)
  PROVE  CrInv'
<1> DEFINE Over == \/ Raise(r) \/ \E code \in {"ok", "bad"} : Return(r, code)
                   \/ Goto(r, "done") \/ pc' = pc
<1>1. UNCHANGED <<globals, program, held>> /\ Over
  <2>1. CASE \/ FullClean(r) \/ RemoveBuild(r) \/ Sed(r) \/ SetTarget(r) \/ Build(r)
             \/ Flash(r) \/ EraseFlash(r) \/ ReadOnly(r) \/ CatOutput(r) \/ RemoveOutput(r)
    BY <2>1 DEF FullClean, RemoveBuild, Sed, SetTarget, Build, Flash, EraseFlash, ReadOnly,
                CatOutput, RemoveOutput, CommandFrame
  <2>2. CASE \/ Fails(r) \/ CannotStart(r) \/ KilledExit(r) \/ TimesOut(r) \/ JobMonitorEnds(r)
    BY <2>2 DEF Fails, CannotStart, KilledExit, TimesOut, JobMonitorEnds, CommandFrame
  <2>3. CASE GdbguiExits(r) \/ RemoteMonitorExits(r) \/ DaemonExits(r)
    BY <2>3 DEF GdbguiExits, RemoteMonitorExits, DaemonExits
  <2> QED
    BY <2>1, <2>2, <2>3 DEF CommandEnds
<1>2. pc' = pc \/ \E s \in {Following(r), "done"} : Goto(r, s)
  BY <1>1 DEF Raise, Return, Resume
<1>3. Following(r) # "write_program"
  BY DEF Following
<1> QED
  BY <1>1, <1>2, <1>3, ElsewhereCr DEF CrInv

LEMMA NextCr == AllCreator /\ TypeOK /\ CrInv /\ [Next]_vars => CrInv'
<1> SUFFICES ASSUME AllCreator, TypeOK, CrInv, [Next]_vars PROVE CrInv'
  OBVIOUS
<1>1. ASSUME NEW r \in Requests, Accept(r) \/ Work(r) PROVE CrInv'
  <2>1. CASE Accept(r) \/ OpenocdThread(r)
    BY <2>1, StatementCr
  <2>2. CASE HandlerStep(r)
    BY <2>2, StatementCr, OpenProgramCr, TranslateCr, RefuseProgramCr, WriteProgramCr,
       ProcessCr, CommandCr DEF HandlerStep
  <2>3. CASE CommandEnds(r) \/ TimesOut(r) \/ JobMonitorEnds(r)
    BY <2>3, CommandCr
  <2> QED
    BY <1>1, <2>1, <2>2, <2>3 DEF Work, OpenocdThread
<1>2. CASE UNCHANGED vars
  BY <1>2 DEF vars, CrInv, NoCrInCreator
<1> QED
  BY <1>1, <1>2 DEF Next, Terminating

LEMMA InitCr == Init => CrInv
<1> SUFFICES ASSUME Init PROVE CrInv
  OBVIOUS
<1>1. program["creator"].asm = None
  <2>1. \E t : program = [p \in Projects |-> [asm |-> None, board |-> t]]
    BY Zenon DEF Init
  <2> QED
    BY <2>1 DEF Projects
<1>2. \A r \in Requests : pc[r] # "write_program"
  BY DEF Init
<1> QED
  BY <1>1, <1>2, NoText DEF Init, CrInv, NoCrInCreator

(* While everybody uses the CREATOR mode, main/program.s of the CREATOR    *)
(* project never comes from an assembly that itself names a cr_ function   *)
(* (creator_build).                                                        *)
THEOREM NoCrInCreatorMode == ASSUME AllCreator PROVE Spec => []NoCrInCreator
<1>1. Init => CrInv
  BY InitCr
<1>2. TypeOK /\ CrInv /\ [Next]_vars => CrInv'
  BY NextCr
<1>3. CrInv => NoCrInCreator
  BY DEF CrInv
<1> QED
  BY <1>1, <1>2, <1>3, TypeCorrect, PTL DEF Spec

-----------------------------------------------------------------------------
(***************************************************************************)
(* RightProject.  Among users of the CREATOR mode the path is never        *)
(* anything else.                                                          *)
(***************************************************************************)
LEMMA EndKeepsPath ==
  ASSUME NEW r \in Requests, TypeOK,
         \/ CommandEnds(r) \/ CannotStart(r) \/ KilledExit(r) \/ TimesOut(r)
         \/ JobMonitorEnds(r)
  PROVE  /\ UNCHANGED <<globals, dir>>
         /\ spawned' \subseteq spawned
         /\ \/ pc' = pc
            \/ /\ pc[r] \in Commands /\ r \notin spawned'
               /\ \E s \in {Following(r), "done"} : Goto(r, s)
<1>1. CASE \/ FullClean(r) \/ RemoveBuild(r) \/ Sed(r) \/ SetTarget(r) \/ Build(r)
           \/ Flash(r) \/ EraseFlash(r) \/ ReadOnly(r) \/ CatOutput(r) \/ RemoveOutput(r)
  <2>1. UNCHANGED <<globals, dir>> /\ Return(r, "ok")
    BY <1>1 DEF FullClean, RemoveBuild, Sed, SetTarget, Build, Flash, EraseFlash, ReadOnly,
                CatOutput, RemoveOutput, CommandFrame
  <2>2. spawned' = spawned \ {r} /\ pc[r] \in Commands
    BY <1>1 DEF FullClean, RemoveBuild, Sed, SetTarget, Build, Flash, EraseFlash, ReadOnly,
                CatOutput, RemoveOutput, Exits, Commands
  <2> QED
    BY <2>1, <2>2 DEF Return, Resume
<1>2. CASE Fails(r) \/ CannotStart(r) \/ KilledExit(r) \/ TimesOut(r) \/ JobMonitorEnds(r)
  <2>1. UNCHANGED <<globals, dir>> /\ (Return(r, "bad") \/ Raise(r))
    BY <1>2 DEF Fails, CannotStart, KilledExit, TimesOut, JobMonitorEnds, CommandFrame
  <2>2. spawned' \subseteq spawned \ {r} /\ pc[r] \in Commands
    BY <1>2 DEF Fails, CannotStart, KilledExit, TimesOut, JobMonitorEnds, Exits, Commands,
                DoCommands
  <2> QED
    BY <2>1, <2>2 DEF Return, Raise, Resume
<1>3. CASE GdbguiExits(r) \/ RemoteMonitorExits(r) \/ DaemonExits(r)
  BY <1>3 DEF GdbguiExits, RemoteMonitorExits, DaemonExits, Commands
<1> QED
  BY <1>1, <1>2, <1>3 DEF CommandEnds

LEMMA NextDirCr ==
  ASSUME AllCreator, TypeOK, CrInv, \A q \in Requests : dir[q] = "creator", [Next]_vars
  PROVE  \A q \in Requests : dir'[q] = "creator"
<1> DEFINE Kept == dir' = dir
           Set  == \E r \in Requests : dir' = [dir EXCEPT ![r] = BUILD_PATH]
<1>1. ASSUME NEW r \in Requests, Accept(r) \/ Work(r) PROVE Kept \/ Set
  <2>1. CASE \/ OpenProgram(r) \/ Configure(r) \/ FindGdbinit(r) \/ RemoteGui(r)
    BY <2>1 DEF OpenProgram, Configure, FindGdbinit, RemoteGui
  <2>2. CASE Spawn(r)
    BY <2>2 DEF Spawn, TypeOK
  <2>3. CASE \/ Accept(r) \/ Reset(r) \/ CheckBuild(r) \/ OpenTmp(r) \/ WriteTmp(r)
             \/ Translate(r) \/ RefuseProgram(r) \/ WriteProgram(r) \/ ModeTest(r)
             \/ FindSdkconfig(r) \/ Finish(r) \/ Reap(r) \/ ListProcesses(r) \/ CannotList(r)
             \/ KillListed(r) \/ KillRaises(r) \/ Pop(r)
    BY <2>3 DEF Accept, Reset, CheckBuild, OpenTmp, WriteTmp, Translate, RefuseProgram,
                WriteProgram, ModeTest, FindSdkconfig, Finish, Reap, ListProcesses,
                CannotList, KillListed, KillRaises, AfterKill, Pop
  <2>4. CASE \/ MonitorDocker(r) \/ MonitorSdkconfig(r) \/ DebugDocker(r) \/ StartOpenocd(r)
             \/ Poll(r) \/ RemoteBuild(r) \/ RemoteGuiFails(r) \/ RemoteStore(r) \/ RemotePid(r)
             \/ CannotStart(r) \/ OpenocdThread(r)
    BY <2>4 DEF MonitorDocker, MonitorSdkconfig, DebugDocker, StartOpenocd, Poll, RemoteBuild,
                RemoteGuiFails, RemoteStore, RemotePid, CannotStart, OpenocdThread, ThreadStep,
                ThreadStore, ThreadLogs, ThreadLogFails, ThreadPopen,
                ThreadPopenFails, ThreadReread, ThreadDrop
  <2>5. CASE \/ KilledExit(r) \/ CommandEnds(r) \/ TimesOut(r) \/ JobMonitorEnds(r)
    BY <2>5, EndKeepsPath
  <2> QED
    BY <1>1, <2>1, <2>2, <2>3, <2>4, <2>5 DEF Work, OpenocdThread, HandlerStep
<1>2. UNCHANGED vars => Kept
  BY DEF vars
<1>3. Kept \/ Set
  BY <1>1, <1>2 DEF Next, Terminating
<1> QED
  BY <1>3 DEF TypeOK, CrInv

(* Among users of the CREATOR mode every command that works in a project   *)
(* works in the CREATOR project, whatever routes they use (do_cmd,         *)
(* check_build).                                                           *)
THEOREM RightProjectInCreator == ASSUME AllCreator PROVE Spec => []RightProject
<1> DEFINE Inv == CrInv /\ \A q \in Requests : dir[q] = "creator"
<1>1. Init => Inv
  BY InitCr DEF Init
<1>2. TypeOK /\ Inv /\ [Next]_vars => Inv'
  BY NextCr, NextDirCr
<1>3. TypeOK /\ Inv => RightProject
  BY DEF AllCreator, RightProject, ProjectFor, TypeOK
<1> HIDE DEF Inv
<1> QED
  BY <1>1, <1>2, <1>3, TypeCorrect, PTL DEF Spec

-----------------------------------------------------------------------------
(***************************************************************************)
(* In CREATino mode it depends on the routes: /flash, /fullclean and       *)
(* /debug put the path back to the CREATOR project for a moment.  In a lab *)
(* that uses none of these, a handler that is past check_build keeps       *)
(* BUILD_PATH at the CREATino project for everybody.                       *)
(***************************************************************************)
LabKinds == {"job", "monitor", "stop", "stopmonitor"}

Lab == \A r \in Requests : Arduino[r] = TRUE /\ Kind[r] \in LabKinds

LabJobSteps == {"idle", "open_tmp", "write_tmp", "check_build", "open_program", "translate",
             "write_program", "mode_test", "fullclean_cwd", "build", "flash",
             "gateway_monitor", "cat", "rm_output", "finish", "done"}
MonitorSteps == {"idle", "check_build", "docker", "reap", "ps", "kill", "pop",
                 "find_sdkconfig", "monitor", "done"}

LabSteps(k) == CASE k = "job" -> LabJobSteps
                 [] k = "monitor" -> MonitorSteps
                 [] k = "stopmonitor" -> {"idle", "ps", "kill", "done"}
                 [] OTHER -> {"idle", "done"}

(* A handler that need not have been through check_build.                  *)
Early(r) == \/ pc[r] \in {"idle", "open_tmp", "write_tmp", "check_build", "done"}
            \/ Kind[r] \notin {"job", "monitor"}

LabInv ==
  /\ \A r \in Requests : pc[r] \in LabSteps(Kind[r])
  /\ \A r \in Requests : At(r, "idle") \/ arduino = TRUE
  /\ \A r \in Requests : Early(r) \/ BUILD_PATH = "creatino"
  /\ \A r \in spawned : pc[r] \in Commands /\ dir[r] = "creatino"

(* One handler of the lab goes from one step to the next.                  *)
LEMMA LabWalk ==
  ASSUME NEW r \in Requests, NEW s \in LabSteps(Kind[r]), TypeOK, LabInv, Goto(r, s),
         arduino' = TRUE,
         BUILD_PATH' \in {BUILD_PATH, "creatino"},
         s \in {"idle", "open_tmp", "write_tmp", "check_build", "done"}
           \/ Kind[r] \notin {"job", "monitor"} \/ BUILD_PATH' = "creatino",
         dir' \in {dir, [dir EXCEPT ![r] = "creatino"]},
         spawned' \subseteq spawned, r \notin spawned'
  PROVE  LabInv'
<1>1. pc'[r] = s /\ \A q \in Requests \ {r} : pc'[q] = pc[q] /\ dir'[q] = dir[q]
  BY DEF TypeOK
<1>2. \A q \in spawned' : q \in Requests \ {r}
  BY DEF TypeOK
<1> QED
  BY <1>1, <1>2 DEF LabInv, Early

LEMMA LabStatement ==
  ASSUME NEW r \in Requests, Lab, TypeOK, LabInv,
         \/ OpenTmp(r) \/ WriteTmp(r) \/ CheckBuild(r) \/ OpenProgram(r) \/ Translate(r)
         \/ RefuseProgram(r) \/ WriteProgram(r) \/ ModeTest(r) \/ Finish(r)
         \/ FindSdkconfig(r) \/ MonitorDocker(r) \/ MonitorSdkconfig(r)
         \/ Reap(r) \/ ListProcesses(r) \/ CannotList(r) \/ KillListed(r) \/ KillRaises(r)
         \/ Pop(r)
  PROVE  LabInv'
<1> DEFINE Known == {"open_tmp", "write_tmp", "check_build", "open_program", "translate",
                     "write_program", "mode_test", "finish", "find_sdkconfig", "docker",
                     "reap", "ps", "kill", "pop"}
           Soon == {"idle", "open_tmp", "write_tmp", "check_build", "done"}
<1>1. Kind[r] \in LabKinds /\ pc[r] \in LabSteps(Kind[r])
  BY DEF Lab, LabInv
<1>2. pc[r] \in Known /\ UNCHANGED <<arduino, spawned>>
  BY DEF OpenTmp, WriteTmp, CheckBuild, OpenProgram, Translate, RefuseProgram, WriteProgram,
         ModeTest, Finish, FindSdkconfig, MonitorDocker, MonitorSdkconfig, Reap,
         ListProcesses, CannotList, KillListed, KillRaises, AfterKill, Kill, Pop
<1>3. arduino' = TRUE /\ r \notin spawned'
  BY <1>2 DEF LabInv, Commands
<1>4. CASE CheckBuild(r)
  <2>1. pc[r] = "check_build" /\ Kind[r] \in {"job", "monitor"}
    BY <1>1, <1>4 DEF CheckBuild, LabSteps, LabKinds
  <2>2. AfterCheck(Kind[r]) \in LabSteps(Kind[r])
    BY <2>1 DEF AfterCheck, LabSteps, LabJobSteps, MonitorSteps
  <2>3. BUILD_PATH' = "creatino"
    BY <1>2, <1>3, <1>4 DEF CheckBuild, ProjectFor
  <2> QED
    BY <1>3, <1>4, <2>2, <2>3, LabWalk DEF CheckBuild
<1>5. CASE OpenTmp(r) \/ WriteTmp(r)
  <2>1. Kind[r] = "job"
    BY <1>1, <1>5 DEF OpenTmp, WriteTmp, LabSteps, LabKinds, MonitorSteps
  <2>2. \E s \in {"write_tmp", "check_build"} : Goto(r, s)
    BY <1>5, <2>1 DEF OpenTmp, WriteTmp
  <2>3. UNCHANGED <<BUILD_PATH, dir>>
    BY <1>5 DEF OpenTmp, WriteTmp
  <2>4. {"write_tmp", "check_build"} \subseteq LabSteps(Kind[r])
    BY <2>1 DEF LabSteps, LabJobSteps
  <2> QED
    BY <1>2, <1>3, <2>2, <2>3, <2>4, LabWalk
<1>6. CASE ~(CheckBuild(r) \/ OpenTmp(r) \/ WriteTmp(r))
  <2>1. pc[r] \notin Soon
    BY <1>2, <1>6 DEF OpenTmp, WriteTmp, CheckBuild, OpenProgram, Translate, RefuseProgram,
         WriteProgram, ModeTest, Finish, FindSdkconfig, MonitorDocker, MonitorSdkconfig, Reap,
         ListProcesses, CannotList, KillListed, KillRaises, AfterKill, Pop
  <2>2. Kind[r] \notin {"job", "monitor"} \/ BUILD_PATH = "creatino"
    BY <2>1 DEF LabInv, Early
  <2>3. BUILD_PATH' = BUILD_PATH /\ dir' \in {dir, [dir EXCEPT ![r] = BUILD_PATH]}
    BY <1>6 DEF OpenProgram, Translate, RefuseProgram, WriteProgram, ModeTest, Finish,
         FindSdkconfig, MonitorDocker, MonitorSdkconfig, Reap, ListProcesses, CannotList,
         KillListed, KillRaises, AfterKill, Pop
  <2>4. OpenProgram(r) => Kind[r] = "job"
    BY <1>1 DEF OpenProgram, LabSteps, LabKinds, MonitorSteps
  <2>5. dir' \in {dir, [dir EXCEPT ![r] = "creatino"]}
    BY <1>6, <2>2, <2>3, <2>4 DEF Translate, RefuseProgram, WriteProgram, ModeTest, Finish,
         FindSdkconfig, MonitorDocker, MonitorSdkconfig, Reap, ListProcesses, CannotList,
         KillListed, KillRaises, AfterKill, Pop
  <2>6. \E s \in LabSteps(Kind[r]) : Goto(r, s)
    <3>1. CASE OpenProgram(r) \/ Translate(r) \/ RefuseProgram(r) \/ WriteProgram(r)
               \/ ModeTest(r) \/ Finish(r)
      <4>1. Kind[r] = "job"
        BY <1>1, <3>1 DEF OpenProgram, Translate, RefuseProgram, WriteProgram, ModeTest,
             Finish, LabSteps, LabKinds, MonitorSteps
      <4>2. \E s \in LabJobSteps : Goto(r, s)
        BY <3>1, <4>1 DEF OpenProgram, Translate, RefuseProgram, WriteProgram, ModeTest,
             Finish, LabJobSteps
      <4> QED
        BY <4>1, <4>2 DEF LabSteps
    <3>2. CASE MonitorDocker(r) \/ MonitorSdkconfig(r)
      BY <3>2 DEF MonitorDocker, MonitorSdkconfig, LabSteps, MonitorSteps
    <3>3. CASE FindSdkconfig(r)
      BY <1>1, <3>3 DEF FindSdkconfig, LabKinds
    <3>4. CASE Reap(r) \/ Pop(r)
      <4>1. Kind[r] = "monitor"
        BY <1>1, <3>4 DEF Reap, Pop, LabSteps, LabKinds, LabJobSteps
      <4>2. Goto(r, "ps") \/ Goto(r, AfterReap(r))
        BY <3>4 DEF Reap, Pop
      <4>3. AfterReap(r) \in {"reap", "find_sdkconfig"}
        BY <4>1 DEF AfterReap
      <4> QED
        BY <4>1, <4>2, <4>3 DEF LabSteps, MonitorSteps
    <3>5. CASE ListProcesses(r) \/ CannotList(r) \/ KillListed(r) \/ KillRaises(r)
      <4>1. Kind[r] \in {"monitor", "stopmonitor"}
        BY <1>1, <3>5 DEF ListProcesses, CannotList, KillListed, KillRaises, AfterKill, LabSteps,
           LabKinds, LabJobSteps
      <4>2. CASE Kind[r] = "monitor"
        BY <3>5, <4>2 DEF ListProcesses, CannotList, KillListed, KillRaises, AfterKill, LabSteps,
           MonitorSteps
      <4> QED
        BY <3>5, <4>1, <4>2 DEF ListProcesses, CannotList, KillListed, KillRaises, AfterKill,
           LabSteps
    <3> QED
      BY <1>6, <3>1, <3>2, <3>3, <3>4, <3>5
  <2> QED
    BY <1>2, <1>3, <2>2, <2>3, <2>5, <2>6, LabWalk
<1> QED
  BY <1>4, <1>5, <1>6

LEMMA LabAccept ==
  ASSUME NEW r \in Requests, Lab, TypeOK, LabInv, Accept(r) PROVE LabInv'
<1>1. Kind[r] \in LabKinds /\ Arduino[r] = TRUE
  BY DEF Lab
<1>2. First(Kind[r]) \in LabSteps(Kind[r])
  BY <1>1 DEF First, LabKinds, LabSteps, LabJobSteps, MonitorSteps
<1>3. First(Kind[r]) \in {"open_tmp", "check_build", "done"} \/ Kind[r] \notin {"job", "monitor"}
  BY <1>1 DEF First, LabKinds
<1>4. r \notin spawned' /\ arduino' = TRUE
  BY <1>1 DEF Accept, LabInv, Commands, LabKinds
<1> QED
  BY <1>2, <1>3, <1>4, LabWalk DEF Accept

(* The path a command gets is the one check_build has left.                *)
LEMMA LabSpawn ==
  ASSUME NEW r \in Requests, Lab, TypeOK, LabInv, Spawn(r) PROVE LabInv'
<1>1. Kind[r] \in {"job", "monitor"} /\ pc[r] \notin ArgsAtHand /\ pc[r] \in Commands
  BY DEF Spawn, Commands, LabInv, Lab, LabKinds, LabSteps, LabJobSteps, MonitorSteps, ArgsAtHand
<1>2. BUILD_PATH = "creatino"
  BY <1>1 DEF LabInv, Early, Commands
<1>3. /\ UNCHANGED <<pc, arduino, BUILD_PATH>> /\ spawned' = spawned \cup {r}
      /\ dir' = [dir EXCEPT ![r] = "creatino"]
  BY <1>1, <1>2 DEF Spawn
<1> QED
  BY <1>1, <1>2, <1>3 DEF LabInv, Early, TypeOK

LEMMA LabEnd ==
  ASSUME NEW r \in Requests, Lab, TypeOK, LabInv,
         \/ CommandEnds(r) \/ CannotStart(r) \/ KilledExit(r) \/ TimesOut(r)
         \/ JobMonitorEnds(r)
  PROVE  LabInv'
<1>1. UNCHANGED <<globals, dir>> /\ spawned' \subseteq spawned
  BY EndKeepsPath
<1>2. CASE pc' = pc
  BY <1>1, <1>2 DEF LabInv, Early
<1>3. CASE /\ pc[r] \in Commands /\ r \notin spawned'
           /\ \E s \in {Following(r), "done"} : Goto(r, s)
  <2>1. PICK s \in {Following(r), "done"} : Goto(r, s)
    BY <1>3
  <2>2. Kind[r] \in {"job", "monitor"}
    BY <1>3 DEF Commands, LabInv, Lab, LabKinds, LabSteps
  <2>3. s \in LabSteps(Kind[r])
    <3>1. CASE Kind[r] = "job"
      <4>1. pc[r] \in {"fullclean_cwd", "build", "flash", "gateway_monitor", "cat", "rm_output"}
        BY <1>3, <3>1 DEF Commands, LabInv, LabSteps, LabJobSteps
      <4>2. Following(r) \in LabJobSteps
        BY <3>1, <4>1 DEF Following, LabJobSteps
      <4> QED
        BY <2>1, <3>1, <4>2 DEF LabSteps, LabJobSteps
    <3>2. CASE Kind[r] = "monitor"
      <4>1. pc[r] = "monitor"
        BY <1>3, <3>2 DEF Commands, LabInv, LabSteps, MonitorSteps
      <4>2. Following(r) \in MonitorSteps
        BY <4>1 DEF Following, MonitorSteps
      <4> QED
        BY <2>1, <3>2, <4>2 DEF LabSteps, MonitorSteps
    <3> QED
      BY <2>2, <3>1, <3>2
  <2>4. arduino' = TRUE /\ BUILD_PATH' = "creatino"
    BY <1>1, <1>3, <2>2 DEF LabInv, Early, Commands
  <2> QED
    BY <1>1, <1>3, <2>1, <2>3, <2>4, LabWalk
<1> QED
  BY <1>2, <1>3, EndKeepsPath

LEMMA LabNext == Lab /\ TypeOK /\ LabInv /\ [Next]_vars => LabInv'
<1> SUFFICES ASSUME Lab, TypeOK, LabInv, [Next]_vars PROVE LabInv'
  OBVIOUS
<1>1. ASSUME NEW r \in Requests, Accept(r) \/ Work(r) PROVE LabInv'
  <2>0. Kind[r] \in LabKinds /\ pc[r] \in LabSteps(Kind[r])
    BY DEF Lab, LabInv
  <2>1. CASE Accept(r)
    BY <2>1, LabAccept
  <2>2. CASE \/ Reset(r) \/ Configure(r) \/ DebugDocker(r) \/ StartOpenocd(r) \/ Poll(r)
             \/ FindGdbinit(r) \/ RemoteBuild(r) \/ RemoteGui(r) \/ RemoteGuiFails(r)
             \/ RemoteStore(r)
             \/ RemotePid(r)
    \* no handler of the lab gets to these
    <3>1. \/ Kind[r] = "debug"
          \/ pc[r] \in {"reset", "configure", "start_openocd", "poll", "gdbinit",
                        "remote_build", "remote_gui", "remote_store", "remote_pid"}
      BY <2>2 DEF Reset, Configure, DebugDocker, StartOpenocd, Poll, FindGdbinit, RemoteBuild,
                  RemoteGui, RemoteGuiFails, RemoteStore, RemotePid
    <3> QED
      BY <2>0, <3>1 DEF LabKinds, LabSteps, LabJobSteps, MonitorSteps
  <2>3. CASE HandlerStep(r) /\ ~Spawn(r) /\ ~CannotStart(r) /\ ~KilledExit(r)
    BY <2>2, <2>3, LabStatement DEF HandlerStep
  <2>4. CASE Spawn(r)
    BY <2>4, LabSpawn
  <2>5. CASE \/ CommandEnds(r) \/ CannotStart(r) \/ KilledExit(r) \/ TimesOut(r)
             \/ JobMonitorEnds(r)
    BY <2>5, LabEnd
  <2>6. CASE OpenocdThread(r)
    <3>1. UNCHANGED <<globals, pc, dir, spawned>>
      BY <2>6 DEF OpenocdThread, ThreadStep, ThreadStore, ThreadLogs, ThreadLogFails,
         ThreadPopen, ThreadPopenFails, ThreadReread, ThreadDrop
    <3> QED
      BY <3>1 DEF LabInv, Early
  <2> QED
    BY <1>1, <2>1, <2>3, <2>4, <2>5, <2>6 DEF Work, OpenocdThread
<1>2. CASE UNCHANGED vars
  BY <1>2 DEF vars, LabInv, Early
<1> QED
  BY <1>1, <1>2 DEF Next, Terminating

(* In a lab that uses the CREATino mode with jobs, monitors and stops only,*)
(* no command works in the project of the other mode (do_job_request,      *)
(* do_monitor_request).                                                    *)
THEOREM RightProjectInLab == ASSUME Lab PROVE Spec => []RightProject
<1>1. Init => LabInv
  BY DEF Init, LabInv, Early, LabSteps, LabJobSteps, MonitorSteps
<1>2. TypeOK /\ LabInv /\ [Next]_vars => LabInv'
  BY LabNext
<1>3. TypeOK /\ LabInv => RightProject
  BY DEF Lab, LabInv, RightProject, ProjectFor, TypeOK
<1> QED
  BY <1>1, <1>2, <1>3, TypeCorrect, PTL DEF Spec
-----------------------------------------------------------------------------
(***************************************************************************)
(* What holds of the processes that handlers kill, of their own and of     *)
(* others.                                                                 *)
(*                                                                         *)
(* A flash or an erase one of whose commands somebody else killed is never *)
(* reported as done.  KilledInv is inductive together with TypeOK.  Most   *)
(* actions are one of three kinds of steps, and a lemma says what each     *)
(* kind preserves:                                                         *)
(*   walk    a handler that has no child process goes on,                  *)
(*   end     a handler loses its child process and goes on,                *)
(*   daemon  only background processes come or go.                         *)
(*                                                                         *)
(* The last part is about the debuggers: DebuggersTracked.                 *)
(***************************************************************************)

LEMMA NextStep ==
  ASSUME NEW r \in Requests, NEW s \in Steps \cup Commands, TypeOK, KilledInv,
         s \in StepsOf(Kind[r]), Goto(r, s)
  PROVE  /\ \A q \in Requests : pc'[q] \in StepsOf(Kind[q])
         /\ pc'[r] = s
         /\ \A q \in Requests \ {r} : pc'[q] = pc[q]
BY DEF TypeOK, KilledInv

(* The steps at which a handler has a child process are commands.          *)
LEMMA WalkStep ==
  ASSUME NEW r \in Requests, NEW s \in Steps \cup Commands, TypeOK, KilledInv,
         s \in StepsOf(Kind[r]), Goto(r, s), pc[r] # "done", r \notin spawned,
         UNCHANGED <<os, victims, status>>
  PROVE  KilledInv'
<1>1. r \in killed => ~Reporting(r)
  BY DEF KilledInv
<1>2. \A q \in Requests : q # r => pc'[q] = pc[q]
  BY NextStep
<1>3. \A q \in killed : q \in Requests
  BY DEF TypeOK
<1>4. \A q \in spawned : q \in Requests
  BY DEF TypeOK
<1>5. \A q \in Requests : pc'[q] \in StepsOf(Kind[q])
  BY NextStep
<1>6. Reporting(r) => status[r] # "ok"
  BY DEF KilledInv
<1>7. \A q \in spawned' : pc'[q] \in Commands
  BY <1>2, <1>4 DEF KilledInv
<1>8. UNCHANGED <<alive, spawned, killed, victims, status>>
  OBVIOUS
<1>9. ASSUME NEW q \in killed, Reporting(q)
      PROVE  /\ status'[q] = ""
             /\ \/ pc'[q] = "done"
                \/ q \in spawned' /\ <<q, pc'[q]>> \notin alive' /\ pc'[q] \in IdfCommands
  <2>1. q \in Requests /\ pc'[q] = pc[q]
    BY <1>1, <1>2, <1>3, <1>9
  <2>2. /\ status[q] = ""
        /\ \/ pc[q] = "done"
           \/ q \in spawned /\ <<q, pc[q]>> \notin alive /\ pc[q] \in IdfCommands
    BY <1>9 DEF KilledInv, Self
  <2> QED
    BY <1>8, <2>1, <2>2
<1> QED
  BY <1>2, <1>5, <1>6, <1>7, <1>8, <1>9 DEF KilledInv, Reporting, Self

LEMMA EndStep ==
  ASSUME NEW r \in Requests, NEW s \in Steps \cup Commands, TypeOK, KilledInv,
         s \in StepsOf(Kind[r]), Goto(r, s), pc[r] # "done",
         Self(r) \in alive \/ s = "done" \/ ~(Reporting(r) /\ r \in killed),
         alive' \subseteq alive, spawned' = spawned \ {r}, killed' = killed,
         UNCHANGED <<victims, status>>
  PROVE  KilledInv'
<1>1. r \in killed /\ Reporting(r) => s = "done"
  BY DEF KilledInv
<1>2. \A q \in Requests : q # r => pc'[q] = pc[q]
  BY NextStep
<1>3. \A q \in killed : q \in Requests
  BY DEF TypeOK
<1>4. \A q \in spawned : q \in Requests
  BY DEF TypeOK
<1>5. /\ \A q \in Requests : pc'[q] \in StepsOf(Kind[q])
      /\ pc'[r] = s
  BY NextStep
<1>6. Reporting(r) => status[r] # "ok"
  BY DEF KilledInv
<1> QED
  BY <1>1, <1>2, <1>3, <1>4, <1>5, <1>6 DEF KilledInv, Self, Reporting

LEMMA DaemonStep ==
  ASSUME NEW r \in Requests, TypeOK, KilledInv,
         NEW d \in Daemons, alive' \subseteq alive \cup {<<r, d>>},
         UNCHANGED <<pc, spawned, killed, victims, status>>
  PROVE  KilledInv'
<1>1. \A q \in spawned : pc[q] \notin Daemons
  BY DEF KilledInv, Commands, Daemons, Debuggers
<1> QED
  BY <1>1 DEF KilledInv, Self, Reporting

-----------------------------------------------------------------------------
(* Where the handlers of /flash and /eraseflash go after a command.        *)
LEMMA FollowingStep ==
  ASSUME NEW r \in Requests, TypeOK, KilledInv, pc[r] \in Commands
  PROVE  Following(r) \in StepsOf(Kind[r]) /\ "done" \in StepsOf(Kind[r])
<1>1. "done" \in StepsOf(Kind[r])
  BY DEF StepsOf, Steps
<1>2. CASE Kind[r] = "flash"
  <2>1. pc[r] \in {"fullclean", "sed", "set_target", "build", "flash"}
    BY <1>2 DEF KilledInv, StepsOf, Commands
  <2> QED
    BY <1>2, <2>1 DEF Following, StepsOf
<1>3. CASE Kind[r] = "eraseflash"
  <2>1. pc[r] = "erase_flash"
    BY <1>3 DEF KilledInv, StepsOf, Commands
  <2> QED
    BY <1>3, <2>1 DEF Following, StepsOf
<1>4. CASE ~Reporting(r)
  <2>1. StepsOf(Kind[r]) = Steps \cup Commands
    BY <1>4 DEF StepsOf, Reporting
  <2> QED
    BY <1>1, <2>1, FollowingType
<1> QED
  BY <1>1, <1>2, <1>3, <1>4 DEF Reporting

(* However a command ends, the handler goes on from there or is done.      *)
LEMMA ResumeStep ==
  ASSUME NEW r \in Requests, TypeOK, KilledInv, pc[r] \in Commands,
         \/ Raise(r)
         \/ \E code \in {"ok", "bad"} : Return(r, code)
  PROVE  \E s \in {Following(r), "done"} : Goto(r, s)
BY DEF Raise, Return, Resume

LEMMA CommandStep ==
  ASSUME NEW r \in Requests, TypeOK, KilledInv, pc[r] \in Commands, Self(r) \in alive,
         Raise(r) \/ \E code \in {"ok", "bad"} : Return(r, code),
         alive' \subseteq alive, spawned' = spawned \ {r}, killed' = killed,
         UNCHANGED <<victims, status>>
  PROVE  KilledInv'
<1>1. PICK s \in {Following(r), "done"} : Goto(r, s)
  BY ResumeStep
<1>2. s \in StepsOf(Kind[r]) /\ s \in Steps \cup Commands
  BY FollowingStep, FollowingType DEF Steps
<1>3. pc[r] # "done"
  BY DEF Commands
<1> QED
  BY <1>1, <1>2, <1>3, EndStep

LEMMA CommandEndsKilled ==
  ASSUME NEW r \in Requests, TypeOK, KilledInv, CommandEnds(r) \/ TimesOut(r)
  PROVE  KilledInv'
<1>1. CASE \/ FullClean(r) \/ RemoveBuild(r) \/ Sed(r) \/ SetTarget(r) \/ Build(r)
           \/ Flash(r) \/ EraseFlash(r) \/ ReadOnly(r) \/ CatOutput(r) \/ RemoveOutput(r)
           \/ Fails(r) \/ TimesOut(r)
  <2>1. \E c \in Commands : Exits(r, c)
    BY <1>1 DEF FullClean, RemoveBuild, Sed, SetTarget, Build, Flash, EraseFlash, ReadOnly,
         CatOutput, RemoveOutput, Fails, TimesOut, DoCommands, Commands
  <2>2. /\ pc[r] \in Commands /\ Self(r) \in alive
        /\ alive' \subseteq alive /\ spawned' = spawned \ {r} /\ killed' = killed
    BY <2>1 DEF Exits
  <2>3. /\ Raise(r) \/ \E code \in {"ok", "bad"} : Return(r, code)
        /\ CommandFrame /\ victims' = victims /\ status' = status
    BY <1>1 DEF FullClean, RemoveBuild, Sed, SetTarget, Build, Flash, EraseFlash, ReadOnly,
         CatOutput, RemoveOutput, Fails, TimesOut, CommandFrame
  <2> QED
    BY <2>2, <2>3, CommandStep
<1>2. CASE GdbguiExits(r)
  <2>1. "done" \in Steps /\ "done" \in StepsOf(Kind[r])
    BY DEF Steps, StepsOf
  <2> QED
    BY <1>2, <2>1, EndStep DEF GdbguiExits
<1>3. CASE RemoteMonitorExits(r)
  <2>1. ~Reporting(r)
    BY <1>3 DEF RemoteMonitorExits, KilledInv, StepsOf, Reporting
  <2>2. "done" \in Steps /\ "done" \in StepsOf(Kind[r])
    BY DEF Steps, StepsOf
  <2>3. /\ \A q \in Requests : pc'[q] \in StepsOf(Kind[q])
        /\ \A q \in Requests \ {r} : pc'[q] = pc[q] /\ status'[q] = status[q]
    BY <1>3, <2>2, NextStep DEF RemoteMonitorExits, TypeOK
  <2> QED
    BY <1>3, <2>1, <2>3 DEF RemoteMonitorExits, KilledInv, Reporting, Self, TypeOK
<1>4. CASE DaemonExits(r)
  BY <1>4, DaemonStep DEF DaemonExits
<1> QED
  BY <1>1, <1>2, <1>3, <1>4 DEF CommandEnds

LEMMA KilledExitKilled ==
  ASSUME NEW r \in Requests, TypeOK, KilledInv, KilledExit(r)
  PROVE  KilledInv'
<1>1. /\ pc[r] \in Commands /\ pc[r] # "done"
      /\ alive' \subseteq alive /\ spawned' = spawned \ {r} /\ killed' = killed
      /\ UNCHANGED <<victims, status>>
  BY DEF KilledExit, CommandFrame, Commands, DoCommands
<1>2. PICK s \in {Following(r), "done"} : Goto(r, s) /\ (s = "done" \/ IgnoresResult(r))
  BY DEF KilledExit, Return, Resume
<1>3. s \in StepsOf(Kind[r]) /\ s \in Steps \cup Commands
  BY <1>1, FollowingStep, FollowingType DEF Steps
<1>4. CASE s = "done"
  BY <1>1, <1>2, <1>3, <1>4, EndStep
<1>5. CASE IgnoresResult(r)
  \* a killed /flash or /eraseflash is not at a command whose result is ignored
  <2>1. ~(Reporting(r) /\ r \in killed)
    BY <1>5 DEF IgnoresResult, KilledInv, Reporting, IdfCommands
  <2> QED
    BY <1>1, <1>2, <1>3, <2>1, EndStep
<1> QED
  BY <1>2, <1>4, <1>5

-----------------------------------------------------------------------------
(* The statements that leave processes and answers alone.                  *)
LEMMA StatementKilled ==
  ASSUME NEW r \in Requests, TypeOK, KilledInv,
         \/ Accept(r) \/ Reset(r) \/ CheckBuild(r)
         \/ OpenTmp(r) \/ WriteTmp(r)
         \/ OpenProgram(r) \/ Translate(r) \/ RefuseProgram(r) \/ WriteProgram(r)
         \/ ModeTest(r) \/ Configure(r) \/ FindSdkconfig(r)
         \/ Reap(r) \/ Pop(r)
         \/ MonitorDocker(r) \/ MonitorSdkconfig(r)
         \/ DebugDocker(r) \/ StartOpenocd(r) \/ Poll(r) \/ FindGdbinit(r)
         \/ RemoteBuild(r) \/ RemoteGuiFails(r) \/ RemoteStore(r) \/ RemotePid(r)
  PROVE  KilledInv'
<1>1. UNCHANGED <<os, victims, status>>
  BY DEF Accept, Reset, CheckBuild, OpenTmp, WriteTmp, OpenProgram, Translate, RefuseProgram,
         WriteProgram, ModeTest, Configure, FindSdkconfig, Reap, Pop, MonitorDocker,
         MonitorSdkconfig, DebugDocker, StartOpenocd, Poll, FindGdbinit, RemoteBuild,
         RemoteGuiFails, RemoteStore, RemotePid
<1>2. pc[r] \in Steps /\ pc[r] # "done"
  BY DEF Accept, Reset, CheckBuild, OpenTmp, WriteTmp, OpenProgram, Translate, RefuseProgram,
         WriteProgram, ModeTest, Configure, FindSdkconfig, Reap, Pop, MonitorDocker,
         MonitorSdkconfig, DebugDocker, StartOpenocd, Poll, FindGdbinit, RemoteBuild,
         RemoteGuiFails, RemoteStore, RemotePid, Steps
<1>3. r \notin spawned
  BY <1>2 DEF KilledInv, Steps, Commands
<1>4. pc[r] \in StepsOf(Kind[r])
  BY DEF KilledInv
<1>5. pc' = pc \/ \E s \in Steps \cup Commands : s \in StepsOf(Kind[r]) /\ Goto(r, s)
  <2>1. CASE Accept(r) \/ CheckBuild(r)
    BY <1>4, <2>1, GatewayAssumption
       DEF Accept, CheckBuild, First, AfterCheck, StepsOf, Steps, Commands, Kinds
  <2>2. CASE \/ Reset(r) \/ OpenTmp(r) \/ WriteTmp(r) \/ OpenProgram(r) \/ Translate(r)
             \/ RefuseProgram(r) \/ WriteProgram(r) \/ ModeTest(r)
    BY <1>4, <2>2
       DEF Reset, OpenTmp, WriteTmp, OpenProgram, Translate, RefuseProgram, WriteProgram,
           ModeTest, StepsOf, Steps, Commands
  <2>3. CASE \/ Configure(r) \/ FindSdkconfig(r) \/ MonitorSdkconfig(r)
             \/ RemoteGuiFails(r) \/ RemoteStore(r)
    BY <1>4, <2>3
       DEF Configure, FindSdkconfig, MonitorSdkconfig, RemoteGuiFails, RemoteStore, StepsOf,
          Steps, Commands
  <2>4. CASE Reap(r) \/ Pop(r)
    <3>1. Goto(r, "ps") \/ Goto(r, AfterReap(r))
      BY <2>4 DEF Reap, Pop
    <3>2. pc[r] \in {"reap", "pop"}
      BY <2>4 DEF Reap, Pop
    <3> QED
      BY <1>4, <3>1, <3>2 DEF AfterReap, StepsOf, Steps, Commands
  <2>5. CASE MonitorDocker(r) \/ DebugDocker(r)
    <3>1. \E s \in {"reap", "done", "remote_build"} : Goto(r, s)
      BY <2>5 DEF MonitorDocker, DebugDocker
    <3>2. pc[r] = "docker"
      BY <2>5 DEF MonitorDocker, DebugDocker
    <3> QED
      BY <1>4, <3>1, <3>2 DEF StepsOf, Steps, Commands
  <2>6. CASE StartOpenocd(r) \/ Poll(r) \/ FindGdbinit(r) \/ RemoteBuild(r) \/ RemotePid(r)
    BY <1>4, <2>6
       DEF StartOpenocd, Poll, FindGdbinit, RemoteBuild, RemotePid, StepsOf, Steps, Commands
  <2> QED
    BY <2>1, <2>2, <2>3, <2>4, <2>5, <2>6
<1>6. CASE pc' = pc
  BY <1>1, <1>6 DEF KilledInv, Self
<1> QED
  BY <1>1, <1>2, <1>3, <1>5, <1>6, WalkStep

LEMMA SpawnKilled ==
  ASSUME NEW r \in Requests, TypeOK, KilledInv, Spawn(r) PROVE KilledInv'
<1>1. ~(r \in killed /\ Reporting(r))
  BY DEF Spawn, KilledInv, Commands
<1>2. \A p \in alive' : p[1] # r => p \in alive
  BY DEF Spawn, Self
<1>3. spawned' = spawned \cup {r} /\ pc[r] \in Commands
  BY DEF Spawn
<1>4. UNCHANGED <<pc, killed, victims, status>>
  BY DEF Spawn
<1> QED
  BY <1>1, <1>2, <1>3, <1>4 DEF KilledInv, Self, Reporting

LEMMA CannotStartKilled ==
  ASSUME NEW r \in Requests, TypeOK, KilledInv, CannotStart(r) PROVE KilledInv'
<1>1. /\ pc[r] \in Commands /\ pc[r] # "done" /\ r \notin spawned
      /\ UNCHANGED <<os, victims, status>>
  BY DEF CannotStart, Commands
<1>2. PICK s \in {Following(r), "done"} : Goto(r, s)
  BY <1>1, ResumeStep DEF CannotStart
<1>3. s \in StepsOf(Kind[r]) /\ s \in Steps \cup Commands
  BY <1>1, FollowingStep, FollowingType DEF Steps
<1> QED
  BY <1>1, <1>2, <1>3, WalkStep

(* Success is said by a handler that lost no command.                      *)
LEMMA FinishKilled ==
  ASSUME NEW r \in Requests, TypeOK, KilledInv, Finish(r) PROVE KilledInv'
<1>1. r \notin spawned /\ (r \in killed => ~Reporting(r))
  BY DEF Finish, KilledInv, Commands
<1>2. "done" \in Steps /\ "done" \in StepsOf(Kind[r])
  BY DEF Steps, StepsOf
<1>3. /\ \A q \in Requests : pc'[q] \in StepsOf(Kind[q])
      /\ pc'[r] = "done"
      /\ \A q \in Requests \ {r} : pc'[q] = pc[q] /\ status'[q] = status[q]
  BY <1>2, NextStep DEF Finish, TypeOK
<1>4. UNCHANGED <<alive, spawned, killed, victims>>
  BY DEF Finish
<1> QED
  BY <1>1, <1>3, <1>4 DEF KilledInv, Reporting, Self, TypeOK

LEMMA RemoteGuiKilled ==
  ASSUME NEW r \in Requests, TypeOK, KilledInv, RemoteGui(r) PROVE KilledInv'
<1>1. ~Reporting(r) /\ r \notin spawned
  BY DEF RemoteGui, KilledInv, StepsOf, Reporting, Commands
<1>2. "remote_store" \in Steps /\ "remote_store" \in StepsOf(Kind[r])
  BY <1>1 DEF Steps, StepsOf, Reporting
<1>3. /\ \A q \in Requests : pc'[q] \in StepsOf(Kind[q])
      /\ \A q \in Requests \ {r} : pc'[q] = pc[q]
  BY <1>2, NextStep DEF RemoteGui
<1>4. /\ UNCHANGED <<spawned, killed, victims, status>>
      /\ \A p \in alive' : p[1] # r => p \in alive
  BY DEF RemoteGui
<1> QED
  BY <1>1, <1>3, <1>4 DEF KilledInv, Reporting, Self, TypeOK

-----------------------------------------------------------------------------
(* What ps lists can be killed: no command whose failure a handler of      *)
(* /flash or /eraseflash would not notice.                                 *)
LEMMA ListProcessesKilled ==
  ASSUME NEW r \in Requests, TypeOK, KilledInv, ListProcesses(r) \/ CannotList(r)
  PROVE  KilledInv'
<1>1. r \notin spawned /\ (r \in killed => ~Reporting(r)) /\ (Reporting(r) => status[r] # "ok")
  BY DEF ListProcesses, CannotList, KilledInv, Commands
<1>2. \A p \in Matching(name[r]) : p[2] \in Killable
  <2>1. name[r] \in {"idf.py", "openocd", "gdbgui"}
    BY DEF TypeOK
  <2> QED
    BY <2>1 DEF Matching, Killable, IdfCommands
<1>3. \E s \in {"kill", "done", "pop"} : Goto(r, s)
  BY DEF ListProcesses, CannotList, AfterKill
<1>4. {"kill", "done", "pop"} \subseteq StepsOf(Kind[r]) /\ {"kill", "done", "pop"} \subseteq Steps
  BY DEF ListProcesses, CannotList, KilledInv, StepsOf, Steps
<1>5. /\ \A q \in Requests : pc'[q] \in StepsOf(Kind[q])
      /\ \A q \in Requests \ {r} : pc'[q] = pc[q]
  BY <1>3, <1>4, NextStep
<1>6. \A q \in Requests : \A p \in victims'[q] : p[2] \in Killable
  <2>1. CASE ListProcesses(r)
    <3>1. victims'[r] = Matching(name[r]) /\ \A q \in Requests \ {r} : victims'[q] = victims[q]
      BY <2>1 DEF ListProcesses, TypeOK
    <3> QED
      BY <1>2, <3>1 DEF KilledInv
  <2>2. CASE CannotList(r)
    BY <2>2 DEF CannotList, KilledInv
  <2> QED
    BY <2>1, <2>2
<1>7. UNCHANGED <<os, status>>
  BY DEF ListProcesses, CannotList
<1> QED
  BY <1>1, <1>5, <1>6, <1>7 DEF KilledInv, Reporting, Self, TypeOK

(* A handler whose child is killed still waits for it, at a command whose  *)
(* result it will look at.                                                 *)
LEMMA BereavedStep ==
  ASSUME NEW ps, \A p \in ps : p[2] \in Killable \cup {"gateway_monitor"},
         NEW q \in Bereaved(ps), Reporting(q), TypeOK, KilledInv
  PROVE  q \in spawned /\ <<q, pc[q]>> \in ps /\ pc[q] \in IdfCommands /\ status[q] = ""
<1>1. q \in spawned /\ <<q, pc[q]>> \in ps /\ q \in Requests
  BY DEF Bereaved, TypeOK
<1>2. pc[q] \in Killable \cup {"gateway_monitor"} /\ pc[q] \in Commands
  BY <1>1 DEF KilledInv
<1>3. pc[q] \in IdfCommands
  BY <1>1, <1>2 DEF Killable, Commands, KilledInv, StepsOf, Reporting
<1>4. status[q] = ""
  BY <1>1, <1>2 DEF KilledInv, Commands, TypeOK
<1> QED
  BY <1>1, <1>3, <1>4

(* Whatever part of the list it is that a handler kills.                   *)
LEMMA KillListedKilled ==
  ASSUME NEW r \in Requests, TypeOK, KilledInv, KillListed(r) \/ KillRaises(r)
  PROVE  KilledInv'
<1>1. r \notin spawned /\ (r \in killed => ~Reporting(r)) /\ (Reporting(r) => status[r] # "ok")
  BY DEF KillListed, KillRaises, KilledInv, Commands
<1>0. PICK listed \in SUBSET victims[r] : Kill(listed)
  BY DEF KillListed, KillRaises
<1> DEFINE ps == listed \cap alive
<1>2. /\ alive' \subseteq alive \ ps
      /\ killed' = killed \cup Bereaved(ps) /\ spawned' = spawned
  BY <1>0 DEF Kill
<1>3. \A p \in ps : p[2] \in Killable
  BY DEF KilledInv
<1>4. \E s \in {"done", "pop"} : Goto(r, s)
  BY DEF KillListed, KillRaises, AfterKill
<1>5. {"done", "pop"} \subseteq StepsOf(Kind[r]) /\ {"done", "pop"} \subseteq Steps
  BY DEF KillListed, KillRaises, KilledInv, StepsOf, Steps
<1>6. /\ \A q \in Requests : pc'[q] \in StepsOf(Kind[q])
      /\ \A q \in Requests \ {r} : pc'[q] = pc[q]
  BY <1>4, <1>5, NextStep
<1>7. \A q \in Requests : \A p \in victims'[q] : p[2] \in Killable
  <2>1. \A q \in Requests : victims'[q] = victims[q] \/ victims'[q] = {}
    BY DEF KillListed, KillRaises, TypeOK
  <2> QED
    BY <2>1 DEF KilledInv
<1>8. \A q \in Requests : Reporting(q) => status'[q] = status[q]
  BY DEF KillListed, KillRaises, Reporting, TypeOK
<1>9. \A q \in Bereaved(ps) : Reporting(q) =>
        q \in spawned /\ <<q, pc[q]>> \in ps /\ pc[q] \in IdfCommands /\ status[q] = ""
  BY <1>3, BereavedStep
<1>10. ASSUME NEW q \in killed', Reporting(q)
       PROVE  /\ status'[q] = ""
              /\ \/ pc'[q] = "done"
                 \/ q \in spawned' /\ <<q, pc'[q]>> \notin alive' /\ pc'[q] \in IdfCommands
  <2>1. CASE q \in Bereaved(ps)
    <3>1. q \in spawned /\ <<q, pc[q]>> \in ps /\ pc[q] \in IdfCommands /\ status[q] = ""
      BY <1>9, <1>10, <2>1
    <3>2. q \in Requests /\ q # r
      BY <1>1, <3>1 DEF TypeOK
    <3>3. pc'[q] = pc[q] /\ status'[q] = status[q]
      BY <1>6, <1>8, <1>10, <3>2
    <3> HIDE DEF ps
    <3> QED
      BY <1>2, <3>1, <3>3
  <2>2. CASE q \in killed
    <3>1. q \in Requests /\ q # r
      BY <1>1, <1>10, <2>2 DEF TypeOK
    <3> QED
      BY <1>2, <1>6, <1>8, <1>10, <2>2, <3>1 DEF KilledInv, Self
  <2> QED
    BY <1>2, <1>10, <2>1, <2>2
<1>11. \A q \in spawned' : pc'[q] \in Commands
  BY <1>1, <1>2, <1>6 DEF KilledInv, TypeOK
<1>12. \A q \in Requests : Reporting(q) /\ status'[q] = "ok" => pc'[q] = "done"
  BY <1>1, <1>6, <1>8 DEF KilledInv
<1> QED
  BY <1>6, <1>7, <1>10, <1>11, <1>12 DEF KilledInv, Reporting, Self

(* The end of a job's script kills whatever else uses the port.            *)
LEMMA JobMonitorEndsKilled ==
  ASSUME NEW r \in Requests, TypeOK, KilledInv, JobMonitorEnds(r) PROVE KilledInv'
<1> DEFINE ps == Using(Port[r])
<1>1. ~Reporting(r)
  BY DEF JobMonitorEnds, KilledInv, StepsOf, Reporting
<1>2. /\ alive' = alive \ ps /\ spawned' = spawned \ {r}
      /\ killed' = killed \cup (Bereaved(ps) \ {r})
      /\ UNCHANGED <<victims, status>>
  BY DEF JobMonitorEnds, CommandFrame
<1>3. \A p \in ps : p[2] \in Killable \cup {"gateway_monitor"}
  BY DEF Using, Killable, IdfCommands
<1>4. pc[r] \in Commands
  BY DEF JobMonitorEnds, Commands
<1>5. PICK s \in {Following(r), "done"} : Goto(r, s)
  BY <1>4, ResumeStep DEF JobMonitorEnds
<1>6. s \in StepsOf(Kind[r]) /\ s \in Steps \cup Commands
  BY <1>4, FollowingStep, FollowingType DEF Steps
<1>7. /\ \A q \in Requests : pc'[q] \in StepsOf(Kind[q])
      /\ \A q \in Requests \ {r} : pc'[q] = pc[q]
  BY <1>5, <1>6, NextStep
<1>8. \A q \in Bereaved(ps) : Reporting(q) =>
        q \in spawned /\ <<q, pc[q]>> \in ps /\ pc[q] \in IdfCommands /\ status[q] = ""
  BY <1>3, BereavedStep
<1>9. ASSUME NEW q \in killed', Reporting(q)
      PROVE  /\ status'[q] = ""
             /\ \/ pc'[q] = "done"
                \/ q \in spawned' /\ <<q, pc'[q]>> \notin alive' /\ pc'[q] \in IdfCommands
  <2>1. q # r
    BY <1>1, <1>9
  <2>2. CASE q \in Bereaved(ps)
    BY <1>2, <1>7, <1>8, <1>9, <2>1, <2>2 DEF TypeOK
  <2>3. CASE q \in killed
    <3>1. q \in Requests
      BY <2>3 DEF TypeOK
    <3> QED
      BY <1>2, <1>7, <1>9, <2>1, <2>3, <3>1 DEF KilledInv, Self
  <2> QED
    BY <1>2, <1>9, <2>2, <2>3
<1>10. \A q \in spawned' : pc'[q] \in Commands
  BY <1>2, <1>7 DEF KilledInv, TypeOK
<1>11. \A q \in Requests : Reporting(q) /\ status'[q] = "ok" => pc'[q] = "done"
  BY <1>1, <1>2, <1>7 DEF KilledInv
<1>12. \A q \in Requests : \A p \in victims'[q] : p[2] \in Killable
  BY <1>2 DEF KilledInv
<1> QED
  BY <1>7, <1>9, <1>10, <1>11, <1>12 DEF KilledInv, Reporting, Self

-----------------------------------------------------------------------------
LEMMA ThreadKilled ==
  ASSUME NEW r \in Requests, TypeOK, KilledInv, OpenocdThread(r) PROVE KilledInv'
<1>1. /\ alive' \subseteq alive \cup {<<r, "openocd">>}
      /\ UNCHANGED <<pc, spawned, killed, victims, status>>
  BY DEF OpenocdThread, ThreadStep, ThreadStore, ThreadLogs, ThreadLogFails, ThreadPopen,
     ThreadPopenFails, ThreadReread, ThreadDrop
<1> QED
  BY <1>1, DaemonStep DEF Daemons, Debuggers

LEMMA InitKilled == Init => KilledInv
<1> SUFFICES ASSUME Init PROVE KilledInv
  OBVIOUS
<1>1. \A k : "idle" \in StepsOf(k)
  BY DEF StepsOf, Steps
<1> QED
  BY <1>1 DEF Init, KilledInv, Reporting

LEMMA NextKilled == TypeOK /\ KilledInv /\ [Next]_vars => KilledInv'
<1> SUFFICES ASSUME TypeOK, KilledInv, [Next]_vars PROVE KilledInv'
  OBVIOUS
<1>1. ASSUME NEW r \in Requests, Accept(r) \/ Work(r) PROVE KilledInv'
  <2>0. CASE Accept(r)
    BY <2>0, StatementKilled
  <2>1. CASE HandlerStep(r)
    BY <2>1, StatementKilled, FinishKilled, ListProcessesKilled, KillListedKilled,
       RemoteGuiKilled, SpawnKilled, CannotStartKilled, KilledExitKilled DEF HandlerStep
  <2>2. CASE OpenocdThread(r)
    BY <2>2, ThreadKilled
  <2>3. CASE CommandEnds(r) \/ TimesOut(r)
    BY <2>3, CommandEndsKilled
  <2>4. CASE JobMonitorEnds(r)
    BY <2>4, JobMonitorEndsKilled
  <2> QED
    BY <1>1, <2>0, <2>1, <2>2, <2>3, <2>4 DEF Work, OpenocdThread
<1>2. CASE UNCHANGED vars
  BY <1>2 DEF vars, KilledInv, Self
<1> QED
  BY <1>1, <1>2 DEF Next, Terminating

(* The strengthening holds in every state (do_flash_request,               *)
(* do_eraseflash_request, kill_all_processes, gateway_monitor.sh).         *)
THEOREM KilledInvariant == Spec => []KilledInv
BY InitKilled, NextKilled, TypeCorrect, PTL DEF Spec

(* A /flash or /eraseflash that lost a command to a stop button or to the  *)
(* end of a job on its port is never reported as done.                     *)
THEOREM KilledNotReported == Spec => []KilledNeverReported
<1>1. TypeOK /\ KilledInv => KilledNeverReported
  BY DEF TypeOK, KilledInv, KilledNeverReported, Reporting
<1> QED
  BY <1>1, TypeCorrect, KilledInvariant, PTL

-----------------------------------------------------------------------------
(***************************************************************************)
(* DebuggersTracked, when at most one debugging session is asked for.      *)
(* kill_all_processes and the pop after it are three steps, and a debugger *)
(* that started between them would lose its entry.  None does: a handler   *)
(* only gets to those steps if there is an entry, there only is one if the *)
(* session has stored its debugger, and it starts each of them once.  What *)
(* is left are the debuggers an exception has let go: Running leaves them  *)
(* out, and what may then run without its entry is exactly they.           *)
(***************************************************************************)
OneSession == \A q, r \in Requests : Kind[q] = "debug" /\ Kind[r] = "debug" => q = r

Names == {"openocd", "gdbgui"}
Running(n) == \E p \in alive \ escaped : Runs(p, n)

(* Where a debug request has not yet stored n but still may.               *)
Ahead(n) ==
  CASE n = "openocd" -> {"idle", "reset", "check_build", "docker", "reap", "ps", "kill", "pop",
                         "start_openocd"}
    [] OTHER -> {"idle", "reset", "check_build", "docker", "remote_build", "remote_gui",
                 "remote_store"}
Begun(n) == \A r \in Requests : Kind[r] = "debug" =>
              pc[r] \notin Ahead(n) /\ (n = "openocd" => thread[r] \notin {"popen", "store"})

DebugOnly == {"start_openocd", "poll", "gdbinit", "gdbgui", "remote_build", "remote_gui",
              "remote_store", "remote_pid", "remote_monitor"}
DebugSteps == DebugOnly \cup {"idle", "reset", "check_build", "docker", "reap", "ps", "kill",
                              "pop", "done"}

(* The routes that may be at step s, as far as it matters here.            *)
MayBeAt(k, s) ==
  /\ s \in {"reap", "pop"} => k \in {"flash", "monitor", "debug"}
  /\ s \in {"ps", "kill"} => k \in {"flash", "monitor", "debug", "stopmonitor"}
  /\ s \in DebugOnly => k = "debug"
  /\ k = "debug" => s \in DebugSteps

TrackInv ==
  /\ \A r \in Requests : MayBeAt(Kind[r], pc[r])
  /\ \A r \in Requests : Kind[r] # "stopmonitor" => name[r] \in Names
  /\ \A r \in Requests : thread[r] # "off" => /\ Kind[r] = "debug"
                                              /\ pc[r] \notin Ahead("openocd")
  /\ \A r \in Requests : thread[r] = "drop" => ~Running("openocd")
  /\ \A p \in alive : p[2] \in Debuggers => Kind[p[1]] = "debug"
  /\ \A n \in Names : process_holder[n] # None => Begun(n)
  /\ \A n \in Names, p \in alive : Runs(p, n) => Begun(n) \/ Starting(p)
  /\ \A r \in Requests : Kind[r] # "stopmonitor" =>
       /\ pc[r] \in {"ps", "kill", "pop"} => Begun(name[r])
       /\ At(r, "kill") => \A p \in alive \ escaped : Runs(p, name[r]) => p \in victims[r]
       /\ At(r, "pop") => ~Running(name[r])
  /\ DebuggersTracked

(* A handler goes on, outside the loop that ends debuggers, and no         *)
(* debugger starts.                                                        *)
LEMMA TrackWalk ==
  ASSUME NEW r \in Requests, NEW s, TypeOK, TrackInv, Goto(r, s),
         MayBeAt(Kind[r], s), s \in {"ps", "kill", "pop"} => Kind[r] = "stopmonitor",
         \A n \in Names : Kind[r] = "debug" /\ s \in Ahead(n) => pc[r] \in Ahead(n),
         pc[r] # "remote_store",
         \A p \in alive' : p \in alive \/ p[2] \notin Debuggers,
         \A q \in Requests : Kind[q] # "stopmonitor" =>
           name'[q] = name[q] \/ (name'[q] \in Names /\ q = r),
         UNCHANGED <<process_holder, thread, victims, escaped>>
  PROVE  TrackInv'
<1>1. pc'[r] = s /\ \A q \in Requests \ {r} : pc'[q] = pc[q]
  BY DEF TypeOK
<1>2. /\ \A n \in Names : \A p \in alive' : Runs(p, n) => p \in alive
      /\ escaped' = escaped
  BY DEF Names, Runs, Debuggers
<1>3. \A n \in Names : Running(n)' => Running(n)
  BY <1>2 DEF Running, Runs
<1>4. \A n \in Names : Begun(n) => Begun(n)'
  BY <1>1 DEF Begun, Ahead
<1>5. \A q \in Requests : Kind[q] # "stopmonitor" => name[q] \in Names /\ name'[q] \in Names
  BY DEF TrackInv
<1>6. \A q \in Requests : thread[q] # "off" => Kind[q] = "debug" /\ pc'[q] \notin Ahead("openocd")
  BY <1>1 DEF TrackInv, Names
<1>12. \A p \in alive : Starting(p) => Starting(p)'
  BY <1>1 DEF Starting, ThreadAt, TypeOK
<1>7. DebuggersTracked'
  <2> SUFFICES ASSUME NEW n \in Names, NEW p \in alive', Runs(p, n)
               PROVE  process_holder[n] # None \/ Starting(p)' \/ p \in escaped
    BY <1>2 DEF DebuggersTracked, Names, Runs
  <2>1. p \in alive
    BY <1>2
  <2>2. process_holder[n] # None \/ Starting(p) \/ p \in escaped
    BY <2>1 DEF TrackInv, DebuggersTracked, Names
  <2> QED
    BY <1>12, <2>1, <2>2
<1>8. ASSUME NEW q \in Requests, Kind[q] # "stopmonitor"
      PROVE  /\ pc'[q] \in {"ps", "kill", "pop"} => Begun(name[q])'
             /\ pc'[q] = "kill" => \A p \in alive' \ escaped : Runs(p, name'[q]) => p \in victims'[q]
             /\ pc'[q] = "pop" => ~Running(name[q])'
  <2>1. CASE q = r
    BY <1>1, <1>8, <2>1
  <2>2. CASE q # r
    <3>1. pc'[q] = pc[q] /\ name'[q] = name[q] /\ name[q] \in Names
      BY <1>1, <1>5, <1>8, <2>2
    <3>2. /\ pc[q] \in {"ps", "kill", "pop"} => Begun(name[q])
          /\ pc[q] = "kill" => \A p \in alive \ escaped : Runs(p, name[q]) => p \in victims[q]
          /\ pc[q] = "pop" => ~Running(name[q])
      BY <1>8 DEF TrackInv
    <3>3. Begun(name[q]) => Begun(name[q])'
      BY <1>4, <3>1 DEF Begun
    <3>4. Running(name[q])' => Running(name[q])
      BY <1>2, <3>1 DEF Running, Runs
    <3> QED
      BY <1>2, <3>1, <3>2, <3>3, <3>4
  <2> QED
    BY <2>1, <2>2
<1>9. \A q \in Requests : MayBeAt(Kind[q], pc'[q])
  BY <1>1 DEF TrackInv
<1>10. \A q \in Requests : thread'[q] = "drop" => ~Running("openocd")'
  BY <1>3 DEF TrackInv, Names
<1>11. /\ \A p \in alive' : p[2] \in Debuggers => Kind[p[1]] = "debug"
       /\ \A n \in Names : process_holder'[n] # None => Begun(n)'
  BY <1>4 DEF TrackInv
<1>13. \A n \in Names, p \in alive' : Runs(p, n) => Begun(n)' \/ Starting(p)'
  <2> SUFFICES ASSUME NEW n \in Names, NEW p \in alive', Runs(p, n)
               PROVE  Begun(n)' \/ Starting(p)'
    OBVIOUS
  <2>1. p \in alive /\ (Begun(n) \/ Starting(p))
    BY <1>2 DEF TrackInv
  <2> QED
    BY <1>4, <1>12, <2>1
<1> QED
  BY <1>2, <1>5, <1>6, <1>7, <1>8, <1>9, <1>10, <1>11, <1>13 DEF TrackInv, Runs

(* The handlers stay where they are, and so do the debuggers.              *)
LEMMA TrackStill ==
  ASSUME TypeOK, TrackInv,
         \A p \in alive' : p \in alive \/ p[2] \notin Debuggers,
         UNCHANGED <<pc, name, process_holder, thread, victims, escaped>>
  PROVE  TrackInv'
<1>1. \A n \in Names : \A p \in alive' : Runs(p, n) => p \in alive
  BY DEF Names, Runs, Debuggers
<1>2. /\ \A n \in Names : (Running(n)' => Running(n)) /\ (Begun(n)' <=> Begun(n))
      /\ \A p \in alive : Starting(p)' <=> Starting(p)
  BY <1>1 DEF Running, Runs, Begun, Ahead, Starting, ThreadAt
<1>3. DebuggersTracked'
  <2> SUFFICES ASSUME NEW n \in Names, NEW p \in alive', Runs(p, n)
               PROVE  process_holder[n] # None \/ Starting(p)' \/ p \in escaped
    BY DEF DebuggersTracked, Names, Runs
  <2> QED
    BY <1>1, <1>2 DEF TrackInv, DebuggersTracked, Names
<1>4. \A q \in Requests : thread[q] = "drop" => ~Running("openocd")'
  BY <1>2 DEF TrackInv, Names
<1>5. /\ \A p \in alive' : p[2] \in Debuggers => Kind[p[1]] = "debug"
      /\ \A n \in Names : process_holder[n] # None => Begun(n)'
      /\ \A n \in Names, p \in alive' : Runs(p, n) => Begun(n)' \/ Starting(p)'
  BY <1>1, <1>2 DEF TrackInv
<1>6. ASSUME NEW q \in Requests, Kind[q] # "stopmonitor"
      PROVE  /\ pc[q] \in {"ps", "kill", "pop"} => Begun(name[q])'
             /\ pc[q] = "kill" => \A p \in alive' \ escaped : Runs(p, name[q]) => p \in victims[q]
             /\ pc[q] = "pop" => ~Running(name[q])'
  <2>1. name[q] \in Names
    BY <1>6 DEF TrackInv
  <2> QED
    BY <1>1, <1>2, <1>6, <2>1 DEF TrackInv
<1> QED
  BY <1>3, <1>4, <1>5, <1>6 DEF TrackInv, Running, Begun, Ahead, Runs

LEMMA StatementTrack ==
  ASSUME NEW r \in Requests, TypeOK, TrackInv,
         \/ Accept(r) \/ Reset(r) \/ CheckBuild(r) \/ OpenTmp(r) \/ WriteTmp(r)
         \/ OpenProgram(r) \/ Translate(r) \/ RefuseProgram(r) \/ WriteProgram(r)
         \/ ModeTest(r) \/ Configure(r) \/ FindSdkconfig(r) \/ Finish(r)
         \/ MonitorDocker(r) \/ MonitorSdkconfig(r) \/ DebugDocker(r)
         \/ FindGdbinit(r) \/ RemoteBuild(r) \/ RemoteGuiFails(r) \/ RemotePid(r)
  PROVE  TrackInv'
<1>1. /\ UNCHANGED <<process_holder, thread, victims, name, alive, escaped>>
      /\ pc[r] # "remote_store"
  BY DEF Accept, Reset, CheckBuild, OpenTmp, WriteTmp, OpenProgram, Translate, RefuseProgram,
         WriteProgram, ModeTest, Configure, FindSdkconfig, Finish, MonitorDocker,
         MonitorSdkconfig, DebugDocker, FindGdbinit, RemoteBuild, RemoteGuiFails, RemotePid
<1>2. MayBeAt(Kind[r], pc[r])
  BY DEF TrackInv
<1> DEFINE Fits(s) == /\ MayBeAt(Kind[r], s)
                      /\ s \in {"ps", "kill", "pop"} => Kind[r] = "stopmonitor"
                      /\ \A n \in Names :
                           Kind[r] = "debug" /\ s \in Ahead(n) => pc[r] \in Ahead(n)
<1>3. \E s : Fits(s) /\ Goto(r, s)
  <2>1. CASE Accept(r)
    <3>1. Fits(First(Kind[r]))
      BY <2>1, GatewayAssumption DEF Accept, First, Kinds, MayBeAt, DebugOnly, DebugSteps,
         Names, Ahead
    <3> QED
      BY <2>1, <3>1 DEF Accept
  <2>2. CASE CheckBuild(r)
    <3>1. Fits(AfterCheck(Kind[r]))
      BY <2>2 DEF CheckBuild, AfterCheck, MayBeAt, DebugOnly, DebugSteps, Names, Ahead
    <3> QED
      BY <2>2, <3>1 DEF CheckBuild
  <2>3. CASE \/ Reset(r) \/ OpenTmp(r) \/ WriteTmp(r) \/ OpenProgram(r) \/ Translate(r)
             \/ RefuseProgram(r) \/ WriteProgram(r) \/ ModeTest(r) \/ Configure(r)
             \/ FindSdkconfig(r) \/ Finish(r) \/ MonitorSdkconfig(r)
    <3>1. \E s \in {"check_build", "write_tmp", "reset", "translate", "write_program", "done",
                    "mode_test", "fullclean", "configure", "fullclean_cwd", "build",
                    "find_sdkconfig", "sed", "set_target", "monitor"} : Goto(r, s)
      BY <2>3 DEF Reset, OpenTmp, WriteTmp, OpenProgram, Translate, RefuseProgram, WriteProgram,
                  ModeTest, Configure, FindSdkconfig, Finish, MonitorSdkconfig
    <3>2. Kind[r] = "debug" => Reset(r)
      BY <1>2, <2>3 DEF OpenTmp, WriteTmp, OpenProgram, Translate, RefuseProgram,
         WriteProgram, ModeTest, Configure, FindSdkconfig, Finish, MonitorSdkconfig, MayBeAt,
         DebugOnly, DebugSteps
    <3>3. CASE Kind[r] = "debug"
      <4>1. Goto(r, "check_build") /\ pc[r] = "reset"
        BY <3>2, <3>3 DEF Reset
      <4>2. Fits("check_build")
        BY <1>2, <4>1 DEF MayBeAt, DebugOnly, DebugSteps, Names, Ahead
      <4> QED
        BY <4>1, <4>2
    <3>4. CASE Kind[r] # "debug"
      BY <3>1, <3>4 DEF MayBeAt, DebugOnly
    <3> QED
      BY <3>3, <3>4
  <2>4. CASE MonitorDocker(r) \/ DebugDocker(r)
    <3>1. \E s \in {"reap", "done", "remote_build"} :
             Goto(r, s) /\ (s = "remote_build" => Kind[r] = "debug")
      BY <2>4 DEF MonitorDocker, DebugDocker
    <3>2. pc[r] = "docker" /\ Kind[r] \in {"monitor", "debug"}
      BY <2>4 DEF MonitorDocker, DebugDocker
    <3> QED
      BY <3>1, <3>2 DEF MayBeAt, DebugOnly, DebugSteps, Names, Ahead
  <2>5. CASE FindGdbinit(r) \/ RemoteBuild(r) \/ RemoteGuiFails(r) \/ RemotePid(r)
    <3>1. \/ pc[r] = "gdbinit" /\ \E s \in {"gdbgui", "done"} : Goto(r, s)
          \/ pc[r] = "remote_build" /\ Goto(r, "remote_gui")
          \/ pc[r] = "remote_gui" /\ Goto(r, "done")
          \/ pc[r] = "remote_pid" /\ \E s \in {"remote_monitor", "done"} : Goto(r, s)
      BY <2>5 DEF FindGdbinit, RemoteBuild, RemoteGuiFails, RemotePid
    <3> QED
      BY <1>2, <3>1 DEF MayBeAt, DebugOnly, DebugSteps, Names, Ahead
  <2> QED
    BY <2>1, <2>2, <2>3, <2>4, <2>5
<1>4. PICK s : Fits(s) /\ Goto(r, s)
  BY <1>3
<1>12. name' = name
  BY <1>1
<1>5. \A q \in Requests : Kind[q] # "stopmonitor" =>
        name'[q] = name[q] \/ (name'[q] \in Names /\ q = r)
  BY <1>12
<1>6. \A p \in alive' : p \in alive \/ p[2] \notin Debuggers
  BY <1>1
<1>7. UNCHANGED <<process_holder, thread, victims, escaped>> /\ pc[r] # "remote_store"
  BY <1>1
<1>8. \A n \in Names : Kind[r] = "debug" /\ s \in Ahead(n) => pc[r] \in Ahead(n)
  BY <1>4
<1>9. MayBeAt(Kind[r], s)
  BY <1>4
<1>11. s \in {"ps", "kill", "pop"} => Kind[r] = "stopmonitor"
  BY <1>4
<1>10. Goto(r, s)
  BY <1>4
<1> QED
  BY <1>5, <1>6, <1>7, <1>8, <1>9, <1>10, <1>11, TrackWalk

LEMMA FollowingWhere ==
  ASSUME NEW r
  PROVE  Following(r) \in {"configure", "finish", "rm", "build", "set_target", "flash",
                           "gateway_monitor", "cat", "rm_output", "done"}
BY DEF Following

(* However a command ends, it starts no debugger and ends none but its own *)
(* processes.                                                              *)
LEMMA EndTrack ==
  ASSUME NEW r \in Requests, TypeOK, TrackInv, ~GdbguiExits(r),
         \/ CommandEnds(r) \/ CannotStart(r) \/ KilledExit(r) \/ TimesOut(r)
         \/ JobMonitorEnds(r)
  PROVE  TrackInv'
<1> DEFINE Over == pc[r] \in Commands /\ \E s \in {Following(r), "done"} : Goto(r, s)
<1>1. /\ UNCHANGED <<process_holder, thread, victims, name, escaped>>
      /\ alive' \subseteq alive
      /\ pc' = pc \/ Over
  <2>1. CASE \/ FullClean(r) \/ RemoveBuild(r) \/ Sed(r) \/ SetTarget(r) \/ Build(r)
             \/ Flash(r) \/ EraseFlash(r) \/ ReadOnly(r) \/ CatOutput(r) \/ RemoveOutput(r)
    <3>1. UNCHANGED <<process_holder, thread, victims, name, escaped>> /\ Return(r, "ok")
      BY <2>1 DEF FullClean, RemoveBuild, Sed, SetTarget, Build, Flash, EraseFlash, ReadOnly,
                  CatOutput, RemoveOutput, CommandFrame
    <3>2. alive' \subseteq alive /\ pc[r] \in Commands
      BY <2>1 DEF FullClean, RemoveBuild, Sed, SetTarget, Build, Flash, EraseFlash, ReadOnly,
                  CatOutput, RemoveOutput, Exits, Commands
    <3> QED
      BY <3>1, <3>2 DEF Return, Resume
  <2>2. CASE Fails(r) \/ CannotStart(r) \/ KilledExit(r) \/ TimesOut(r) \/ JobMonitorEnds(r)
    <3>1. UNCHANGED <<process_holder, thread, victims, name, escaped>> /\ (Return(r, "bad") \/ Raise(r))
      BY <2>2 DEF Fails, CannotStart, KilledExit, TimesOut, JobMonitorEnds, CommandFrame
    <3>2. alive' \subseteq alive /\ pc[r] \in Commands
      BY <2>2 DEF Fails, CannotStart, KilledExit, TimesOut, JobMonitorEnds, Exits, Commands,
                  DoCommands
    <3> QED
      BY <3>1, <3>2 DEF Return, Raise, Resume
  <2>3. CASE RemoteMonitorExits(r) \/ DaemonExits(r)
    BY <2>3 DEF RemoteMonitorExits, DaemonExits, Commands
  <2> QED
    BY <2>1, <2>2, <2>3 DEF CommandEnds
<1>2. \A p \in alive' : p \in alive \/ p[2] \notin Debuggers
  BY <1>1
<1>3. CASE pc' = pc
  BY <1>1, <1>2, <1>3, TrackStill
<1>4. CASE Over
  <2>1. PICK s \in {Following(r), "done"} : Goto(r, s)
    BY <1>4
  <2>2. Kind[r] = "debug" => pc[r] \in {"gdbgui", "remote_monitor"}
    BY <1>4 DEF TrackInv, MayBeAt, DebugSteps, DebugOnly, Commands
  <2>3. Kind[r] = "debug" => s = "done"
    BY <2>1, <2>2 DEF Following
  <2>4. s \in {"configure", "finish", "rm", "build", "set_target", "flash", "gateway_monitor",
               "cat", "rm_output", "done"}
    BY <2>1, FollowingWhere
  <2>5. MayBeAt(Kind[r], s) /\ s \notin {"ps", "kill", "pop"}
    BY <2>3, <2>4 DEF MayBeAt, DebugOnly, DebugSteps
  <2>6. \A n \in Names : Kind[r] = "debug" /\ s \in Ahead(n) => pc[r] \in Ahead(n)
    BY <2>3 DEF Ahead, Names
  <2>7. /\ name' = name /\ UNCHANGED <<process_holder, thread, victims, escaped>>
        /\ pc[r] # "remote_store"
    BY <1>1, <1>4 DEF Commands
  <2> QED
    BY <1>2, <2>1, <2>5, <2>6, <2>7, TrackWalk
<1> QED
  BY <1>1, <1>3, <1>4

(* The children a handler waits for are no debuggers of process_holder.    *)
LEMMA SpawnTrack ==
  ASSUME NEW r \in Requests, TypeOK, TrackInv, Spawn(r) PROVE TrackInv'
<1>1. pc[r] \in Commands /\ Self(r)[2] = pc[r]
  BY DEF Spawn, Self
<1>2. alive' \subseteq alive \cup {Self(r), <<r, "job_monitor">>}
  BY DEF Spawn
<1>3. \A p \in alive' : p \in alive \/ p[2] \notin Debuggers
  BY <1>1, <1>2 DEF Commands, Debuggers
<1>4. UNCHANGED <<pc, name, process_holder, thread, victims, escaped>>
  BY DEF Spawn
<1> QED
  BY <1>3, <1>4, TrackStill

-----------------------------------------------------------------------------
(* The loop that ends debuggers: from one to the next, or out of it.       *)
LEMMA OnwardTrack ==
  ASSUME NEW r \in Requests, TypeOK, TrackInv, pc[r] \in {"reap", "pop"},
         Kind[r] \in {"flash", "monitor", "debug"}, Goto(r, AfterReap(r)), NextName(r),
         UNCHANGED <<process_holder, thread, victims, alive, escaped>>
  PROVE  TrackInv'
<1>1. AfterReap(r) \in {"reap", "open_program", "find_sdkconfig", "start_openocd"}
  BY DEF AfterReap
<1>2. AfterReap(r) = "start_openocd" <=> Kind[r] = "debug"
  BY DEF AfterReap
<1>3. MayBeAt(Kind[r], AfterReap(r))
  BY <1>1, <1>2 DEF MayBeAt, DebugOnly, DebugSteps
<1>4. \A n \in Names : Kind[r] = "debug" /\ AfterReap(r) \in Ahead(n) => pc[r] \in Ahead(n)
  BY <1>2 DEF Ahead, Names
<1>5. \A q \in Requests : name'[q] = name[q] \/ (name'[q] \in Names /\ q = r)
  BY DEF NextName, TypeOK, Names
<1>6. \A p \in alive' : p \in alive
  OBVIOUS
<1>7. AfterReap(r) \notin {"ps", "kill", "pop"}
  BY <1>1
<1> QED
  BY <1>3, <1>4, <1>5, <1>6, <1>7, TrackWalk

(* On the way from the entry in process_holder to the kill.                *)
LEMMA LoopStep ==
  ASSUME NEW r \in Requests, TypeOK, TrackInv, pc[r] \in {"reap", "ps", "kill"},
         NEW s \in {"ps", "kill", "pop", "done"}, Goto(r, s), MayBeAt(Kind[r], s),
         alive' \subseteq alive, escaped \subseteq escaped',
         UNCHANGED <<process_holder, thread, name>>,
         \A q \in Requests \ {r} : victims'[q] = victims[q],
         Kind[r] # "stopmonitor" =>
           /\ Begun(name[r])
           /\ s = "kill" => \A p \in alive' \ escaped' : Runs(p, name[r]) => p \in victims'[r]
           /\ s = "pop" => \A p \in alive' \ escaped' : ~Runs(p, name[r])
  PROVE  TrackInv'
<1>1. pc'[r] = s /\ \A q \in Requests \ {r} : pc'[q] = pc[q]
  BY DEF TypeOK
<1>2. /\ \A n \in Names : (Running(n)' => Running(n)) /\ (Begun(n) => Begun(n)')
      /\ \A p \in alive : Starting(p) => Starting(p)'
  <2>1. \A n \in Names : Running(n)' => Running(n)
    BY DEF Running, Runs
  <2>2. \A n \in Names : Begun(n) => Begun(n)'
    BY <1>1 DEF Begun, Ahead, Names
  <2>3. \A p \in alive : Starting(p) => Starting(p)'
    BY <1>1 DEF Starting, ThreadAt, TypeOK
  <2> QED
    BY <2>1, <2>2, <2>3
<1>3. DebuggersTracked'
  <2> SUFFICES ASSUME NEW n \in Names, NEW p \in alive', Runs(p, n)
               PROVE  process_holder[n] # None \/ Starting(p)' \/ p \in escaped'
    BY DEF DebuggersTracked, Names, Runs
  <2> QED
    BY <1>2 DEF TrackInv, DebuggersTracked, Names
<1>4. \A q \in Requests : thread[q] # "off" => Kind[q] = "debug" /\ pc'[q] \notin Ahead("openocd")
  BY <1>1 DEF TrackInv, Ahead
<1>5. ASSUME NEW q \in Requests, Kind[q] # "stopmonitor"
      PROVE  /\ pc'[q] \in {"ps", "kill", "pop"} => Begun(name[q])'
             /\ pc'[q] = "kill" => \A p \in alive' \ escaped' : Runs(p, name[q]) => p \in victims'[q]
             /\ pc'[q] = "pop" => ~Running(name[q])'
  <2>1. name[q] \in Names
    BY <1>5 DEF TrackInv
  <2>2. (Begun(name[q]) => Begun(name[q])') /\ (Running(name[q])' => Running(name[q]))
    BY <1>2, <2>1
  <2>3. CASE q = r
    BY <1>1, <1>5, <2>2, <2>3 DEF Running, Runs
  <2>4. CASE q # r
    BY <1>1, <1>5, <2>2, <2>4 DEF TrackInv
  <2> QED
    BY <2>3, <2>4
<1>6. /\ \A p \in alive' : p[2] \in Debuggers => Kind[p[1]] = "debug"
      /\ \A n \in Names : process_holder[n] # None => Begun(n)'
      /\ \A n \in Names, p \in alive' : Runs(p, n) => Begun(n)' \/ Starting(p)'
  BY <1>2 DEF TrackInv
<1>7. \A q \in Requests : thread[q] = "drop" => ~Running("openocd")'
  BY <1>2 DEF TrackInv, Names
<1>8. \A q \in Requests : MayBeAt(Kind[q], pc'[q])
  BY <1>1 DEF TrackInv
<1> QED
  BY <1>3, <1>4, <1>5, <1>6, <1>7, <1>8 DEF TrackInv, Runs

LEMMA ReapTrack ==
  ASSUME NEW r \in Requests, TypeOK, TrackInv, Reap(r) PROVE TrackInv'
<1>1. pc[r] = "reap" /\ Kind[r] \in {"flash", "monitor", "debug"} /\ name[r] \in Names
  BY DEF Reap, TrackInv, MayBeAt
<1>2. UNCHANGED <<process_holder, thread, victims, alive, escaped>>
  BY DEF Reap
<1>3. CASE process_holder[name[r]] # None
  <2>1. Begun(name[r])
    BY <1>1, <1>3 DEF TrackInv
  <2>2. Goto(r, "ps") /\ name' = name
    BY <1>3 DEF Reap
  <2>3. MayBeAt(Kind[r], "ps")
    BY <1>1 DEF MayBeAt, DebugOnly, DebugSteps
  <2> QED
    BY <1>1, <1>2, <2>1, <2>2, <2>3, LoopStep
<1>4. CASE process_holder[name[r]] = None
  <2>1. Goto(r, AfterReap(r)) /\ NextName(r)
    BY <1>4 DEF Reap
  <2> QED
    BY <1>1, <1>2, <2>1, OnwardTrack
<1> QED
  BY <1>3, <1>4

(* ps lists every debugger of that name; the list may be empty.  If it     *)
(* cannot be run, they all escape.                                         *)
LEMMA ListProcessesTrack ==
  ASSUME NEW r \in Requests, TypeOK, TrackInv, ListProcesses(r) \/ CannotList(r)
  PROVE  TrackInv'
<1>1. pc[r] = "ps" /\ Kind[r] \in {"flash", "monitor", "debug", "stopmonitor"}
  BY DEF ListProcesses, CannotList, TrackInv, MayBeAt
<1>2. UNCHANGED <<process_holder, thread, name, alive>> /\ escaped \subseteq escaped'
  BY DEF ListProcesses, CannotList, Escape
<1>3. Kind[r] # "stopmonitor" => name[r] \in Names /\ Begun(name[r])
  BY <1>1 DEF TrackInv
<1>4. name[r] \in Names =>
        \A p \in alive : Runs(p, name[r]) => p \in Matching(name[r]) /\ p[2] \in Debuggers
  BY DEF Names, Runs, Matching, Debuggers
<1>5. PICK s \in {"kill", "pop", "done"} :
        /\ Goto(r, s)
        /\ s = "kill" => victims' = [victims EXCEPT ![r] = Matching(name[r])]
        /\ s = "pop" => Matching(name[r]) = {} \/ Escape(Matching(name[r]))
        /\ s = "pop" => Kind[r] # "stopmonitor"
        /\ s = "done" => Kind[r] = "stopmonitor"
  BY DEF ListProcesses, CannotList, AfterKill
<1>6. MayBeAt(Kind[r], s)
  BY <1>1, <1>5 DEF MayBeAt, DebugOnly, DebugSteps
<1>7. Kind[r] # "stopmonitor" =>
        /\ s = "kill" => \A p \in alive' \ escaped' : Runs(p, name[r]) => p \in victims'[r]
        /\ s = "pop" => \A p \in alive' \ escaped' : ~Runs(p, name[r])
  <2>1. s = "kill" => victims'[r] = Matching(name[r])
    BY <1>5 DEF TypeOK
  <2>2. s = "pop" => \A p \in alive \ escaped' : p[2] \in Debuggers => p \notin Matching(name[r])
    BY <1>5 DEF Escape
  <2> QED
    BY <1>2, <1>3, <1>4, <2>1, <2>2
<1>8. \A q \in Requests \ {r} : victims'[q] = victims[q]
  BY DEF ListProcesses, CannotList, TypeOK
<1> QED
  BY <1>1, <1>2, <1>3, <1>5, <1>6, <1>7, <1>8, LoopStep

(* Of the listed debuggers none is left but those that escape the kill.    *)
LEMMA KillListedTrack ==
  ASSUME NEW r \in Requests, TypeOK, TrackInv, KillListed(r) \/ KillRaises(r)
  PROVE  TrackInv'
<1>1. pc[r] = "kill" /\ Kind[r] \in {"flash", "monitor", "debug", "stopmonitor"}
  BY DEF KillListed, KillRaises, TrackInv, MayBeAt
<1>2. /\ UNCHANGED <<process_holder, thread, name>>
      /\ \A q \in Requests \ {r} : victims'[q] = victims[q]
  BY DEF KillListed, KillRaises, TypeOK
<1>3. PICK ps \in SUBSET victims[r] :
        /\ alive' = alive \ ps
        /\ escaped \subseteq escaped'
        /\ \A p \in (victims[r] \ ps) \cap alive : p[2] \in Debuggers => p \in escaped'
  BY DEF KillListed, KillRaises, Kill, Escape
<1>4. \E s \in {"pop", "done"} : Goto(r, s) /\ (s = "pop" <=> Kind[r] # "stopmonitor")
  BY DEF KillListed, KillRaises, AfterKill
<1>5. PICK s \in {"pop", "done"} : Goto(r, s) /\ (s = "pop" <=> Kind[r] # "stopmonitor")
  BY <1>4
<1>6. MayBeAt(Kind[r], s)
  BY <1>1, <1>5 DEF MayBeAt, DebugOnly, DebugSteps
<1>7. Kind[r] # "stopmonitor" =>
        /\ name[r] \in Names /\ Begun(name[r])
        /\ \A p \in alive \ escaped : Runs(p, name[r]) => p \in victims[r]
  BY <1>1 DEF TrackInv
<1>8. \A n \in Names, p \in alive : Runs(p, n) => p[2] \in Debuggers
  BY DEF Names, Runs, Debuggers
<1>9. Kind[r] # "stopmonitor" => \A p \in alive' \ escaped' : ~Runs(p, name[r])
  BY <1>3, <1>7, <1>8
<1>10. alive' \subseteq alive /\ escaped \subseteq escaped'
  BY <1>3
<1>11. s \in {"ps", "kill", "pop", "done"} /\ s # "kill"
  BY <1>5
<1> QED
  BY <1>1, <1>2, <1>5, <1>6, <1>7, <1>9, <1>10, <1>11, LoopStep

(* The entry goes when the debuggers of that name have gone.               *)
LEMMA PopTrack ==
  ASSUME NEW r \in Requests, TypeOK, TrackInv, Pop(r) PROVE TrackInv'
<1>1. /\ pc[r] = "pop" /\ Kind[r] \in {"flash", "monitor", "debug"}
      /\ name[r] \in Names /\ ~Running(name[r])
  BY DEF Pop, TrackInv, MayBeAt
<1>2. /\ UNCHANGED <<thread, victims, alive, escaped>>
      /\ process_holder' = [process_holder EXCEPT ![name[r]] = None]
      /\ Goto(r, AfterReap(r)) /\ NextName(r)
  BY DEF Pop
<1>3. pc'[r] = AfterReap(r) /\ \A q \in Requests \ {r} : pc'[q] = pc[q]
  BY <1>2 DEF TypeOK
<1>4. /\ AfterReap(r) \in {"reap", "open_program", "find_sdkconfig", "start_openocd"}
      /\ AfterReap(r) = "start_openocd" <=> Kind[r] = "debug"
  BY <1>1 DEF AfterReap
<1>5. MayBeAt(Kind[r], AfterReap(r))
  BY <1>1, <1>4 DEF MayBeAt, DebugOnly, DebugSteps
<1>6. /\ \A n \in Names : (Running(n)' <=> Running(n)) /\ (Begun(n) => Begun(n)')
      /\ \A p \in alive : Starting(p) => Starting(p)'
  <2>1. \A n \in Names : Running(n)' <=> Running(n)
    BY <1>2 DEF Running, Runs
  <2>2. \A n \in Names : Begun(n) => Begun(n)'
    BY <1>1, <1>2, <1>3, <1>4 DEF Begun, Ahead, Names
  <2>3. \A p \in alive : Starting(p) => Starting(p)'
    BY <1>1, <1>2, <1>3 DEF Starting, ThreadAt, TypeOK
  <2> QED
    BY <2>1, <2>2, <2>3
<1>7. \A n \in Names : process_holder'[n] \in {process_holder[n], None}
  BY <1>1, <1>2 DEF TypeOK, Names
<1>8. \A n \in Names : n # name[r] => process_holder'[n] = process_holder[n]
  BY <1>2 DEF TypeOK, Names
<1>9. DebuggersTracked'
  <2> SUFFICES ASSUME NEW n \in Names, NEW p \in alive, Runs(p, n)
               PROVE  process_holder'[n] # None \/ Starting(p)' \/ p \in escaped
    BY <1>2 DEF DebuggersTracked, Names, Runs
  <2>1. CASE n = name[r]
    BY <1>1, <2>1 DEF Running
  <2>2. CASE n # name[r]
    BY <1>6, <1>8, <2>2 DEF TrackInv, DebuggersTracked, Names
  <2> QED
    BY <2>1, <2>2
<1>10. \A q \in Requests : thread[q] # "off" => Kind[q] = "debug" /\ pc'[q] \notin Ahead("openocd")
  BY <1>1, <1>3 DEF TrackInv, Ahead
<1>11. \A q \in Requests : name'[q] = (IF q = r THEN "gdbgui" ELSE name[q])
  BY <1>2 DEF NextName, TypeOK
<1>13. /\ \A q \in Requests : MayBeAt(Kind[q], pc'[q])
       /\ \A q \in Requests : Kind[q] # "stopmonitor" => name'[q] \in Names
  BY <1>3, <1>5, <1>11 DEF TrackInv, Names
<1>14. /\ \A q \in Requests : thread[q] = "drop" => ~Running("openocd")'
       /\ \A p \in alive : p[2] \in Debuggers => Kind[p[1]] = "debug"
       /\ \A n \in Names : process_holder'[n] # None => Begun(n)'
       /\ \A n \in Names, p \in alive : Runs(p, n) => Begun(n)' \/ Starting(p)'
  BY <1>6, <1>7 DEF TrackInv, Names
<1>15. ASSUME NEW q \in Requests, Kind[q] # "stopmonitor"
       PROVE  /\ pc'[q] \in {"ps", "kill", "pop"} => Begun(name[q])'
              /\ pc'[q] = "kill" => \A p \in alive \ escaped : Runs(p, name'[q]) => p \in victims[q]
              /\ pc'[q] = "pop" => ~Running(name[q])'
  <2>1. CASE q = r
    BY <1>3, <1>4, <2>1
  <2>2. CASE q # r
    <3>1. name[q] \in Names /\ name'[q] = name[q] /\ pc'[q] = pc[q]
      BY <1>3, <1>11, <1>15, <2>2 DEF TrackInv
    <3>2. (Begun(name[q]) => Begun(name[q])') /\ (Running(name[q])' <=> Running(name[q]))
      BY <1>6, <3>1
    <3> QED
      BY <1>15, <3>1, <3>2 DEF TrackInv
  <2> QED
    BY <2>1, <2>2
<1> QED
  BY <1>2, <1>9, <1>10, <1>13, <1>14, <1>15 DEF TrackInv, Running, Begun, Runs

-----------------------------------------------------------------------------
(* The steps of the session itself.                                        *)
LEMMA StartOpenocdTrack ==
  ASSUME NEW r \in Requests, TypeOK, TrackInv, StartOpenocd(r) PROVE TrackInv'
<1>1. pc[r] = "start_openocd" /\ Kind[r] = "debug" /\ thread[r] = "off"
  <2>1. pc[r] = "start_openocd" /\ Kind[r] = "debug"
    BY DEF StartOpenocd, TrackInv, MayBeAt, DebugOnly
  <2> QED
    BY <2>1 DEF TrackInv, Ahead
<1>2. /\ UNCHANGED <<process_holder, name, victims, alive, escaped>>
      /\ pc'[r] = "poll" /\ thread'[r] = "popen"
      /\ \A q \in Requests \ {r} : pc'[q] = pc[q] /\ thread'[q] = thread[q]
  BY DEF StartOpenocd, TypeOK
<1>3. ~Begun("openocd")
  BY <1>1 DEF Begun, Ahead
<1>4. process_holder["openocd"] = None
  BY <1>3 DEF TrackInv, Names
<1>5. /\ Begun("gdbgui") => Begun("gdbgui")'
      /\ \A n \in Names : Running(n)' <=> Running(n)
      /\ \A p \in alive : Starting(p) => Starting(p)'
  <2>1. Begun("gdbgui") => Begun("gdbgui")'
    BY <1>2 DEF Begun, Ahead
  <2>2. \A n \in Names : Running(n)' <=> Running(n)
    BY <1>2 DEF Running, Runs
  <2>3. \A p \in alive : Starting(p) => Starting(p)'
    BY <1>1, <1>2 DEF Starting, ThreadAt, TypeOK
  <2> QED
    BY <2>1, <2>2, <2>3
<1>6. DebuggersTracked'
  BY <1>2, <1>5 DEF TrackInv, DebuggersTracked, Runs
<1>7. ASSUME NEW q \in Requests, Kind[q] # "stopmonitor"
      PROVE  /\ pc'[q] \in {"ps", "kill", "pop"} => Begun(name[q])'
             /\ pc'[q] = "kill" => \A p \in alive \ escaped : Runs(p, name[q]) => p \in victims[q]
             /\ pc'[q] = "pop" => ~Running(name[q])'
  <2>1. CASE pc'[q] \in {"ps", "kill", "pop"}
    <3>1. q # r /\ pc'[q] = pc[q] /\ name[q] \in Names
      BY <1>2, <1>7, <2>1 DEF TrackInv
    <3>2. Begun(name[q])
      BY <1>7, <2>1, <3>1 DEF TrackInv
    <3>3. name[q] = "gdbgui" /\ name'[q] = name[q]
      BY <1>2, <1>3, <3>1, <3>2 DEF Names
    <3> QED
      BY <1>5, <1>7, <3>1, <3>2, <3>3 DEF TrackInv, Names
  <2> QED
    BY <2>1
<1>8. /\ \A n \in Names : process_holder'[n] # None => Begun(n)'
      /\ \A p \in alive : p[2] \in Debuggers => Kind[p[1]] = "debug"
      /\ \A n \in Names, p \in alive : Runs(p, n) => Begun(n)' \/ Starting(p)'
  BY <1>2, <1>3, <1>4, <1>5 DEF TrackInv, Names
<1>9. \A q \in Requests : thread'[q] = "drop" => ~Running("openocd")'
  BY <1>2, <1>5 DEF TrackInv, Names
<1>10. /\ \A q \in Requests : MayBeAt(Kind[q], pc'[q])
       /\ \A q \in Requests : thread'[q] # "off" => /\ Kind[q] = "debug"
                                                    /\ pc'[q] \notin Ahead("openocd")
  BY <1>1, <1>2 DEF TrackInv, MayBeAt, DebugOnly, DebugSteps, Ahead
<1> QED
  BY <1>2, <1>6, <1>7, <1>8, <1>9, <1>10 DEF TrackInv, Runs

LEMMA PollTrack ==
  ASSUME NEW r \in Requests, TypeOK, TrackInv, Poll(r) PROVE TrackInv'
<1>1. /\ UNCHANGED <<process_holder, name, victims, alive, thread, escaped>>
      /\ pc[r] = "poll"
  BY DEF Poll
<1>2. CASE Goto(r, "gdbinit")
  <2>1. Kind[r] = "debug"
    BY <1>1 DEF TrackInv, MayBeAt, DebugOnly
  <2>2. MayBeAt(Kind[r], "gdbinit")
    BY <2>1 DEF MayBeAt, DebugOnly, DebugSteps
  <2>3. \A n \in Names : "gdbinit" \notin Ahead(n)
    BY DEF Ahead, Names
  <2>4. name' = name
    BY <1>1
  <2> QED
    BY <1>1, <1>2, <2>2, <2>3, <2>4, TrackWalk
<1>3. CASE pc' = pc
  BY <1>1, <1>3, TrackStill
<1> QED
  BY <1>2, <1>3 DEF Poll

(* The session is the only one to run a debugger.                          *)
LEMMA OnlyOne ==
  ASSUME NEW r \in Requests, OneSession, TypeOK, TrackInv, Kind[r] = "debug"
  PROVE  /\ \A q \in Requests : Kind[q] = "debug" => q = r
         /\ \A p \in alive : p[2] \in Debuggers => p = <<r, p[2]>>
<1>1. \A q \in Requests : Kind[q] = "debug" => q = r
  BY DEF OneSession
<1>2. \A p \in alive : p[1] \in Requests /\ p = <<p[1], p[2]>>
  <2>1. \A p \in Requests \X (Commands \cup Daemons) : p[1] \in Requests /\ p = <<p[1], p[2]>>
    OBVIOUS
  <2> QED
    BY <2>1 DEF TypeOK
<1> QED
  BY <1>1, <1>2 DEF TrackInv

(* The thread starts OpenOCD once, and removes the entry only of one that  *)
(* is not there or has escaped.                                            *)
LEMMA ThreadTrack ==
  ASSUME NEW r \in Requests, OneSession, TypeOK, TrackInv, OpenocdThread(r)
  PROVE  TrackInv'
<1> USE DEF ThreadAt, ThreadGoto
<1>1. thread[r] # "off" /\ UNCHANGED <<pc, name, victims>>
  BY DEF OpenocdThread, ThreadStep, ThreadPopen, ThreadPopenFails, ThreadStore, ThreadReread,
         ThreadLogs, ThreadLogFails, ThreadDrop
<1>2. Kind[r] = "debug" /\ pc[r] \notin Ahead("openocd")
  BY <1>1 DEF TrackInv
<1>3. /\ \A q \in Requests : Kind[q] = "debug" => q = r
      /\ \A p \in alive : p[2] \in Debuggers => p = <<r, p[2]>>
  BY <1>2, OnlyOne
<1>4. \A q \in Requests \ {r} : thread'[q] = thread[q]
  BY DEF OpenocdThread, ThreadStep, ThreadPopen, ThreadPopenFails, ThreadStore, ThreadReread,
         ThreadLogs, ThreadLogFails, ThreadDrop, TypeOK
<1>5. Begun("openocd") <=> thread[r] \notin {"popen", "store"}
  BY <1>2, <1>3 DEF Begun
<1>6. Begun("openocd")' <=> thread'[r] \notin {"popen", "store"}
  BY <1>1, <1>2, <1>3 DEF Begun, Ahead
<1>7. /\ Begun("gdbgui")' <=> Begun("gdbgui")
      /\ process_holder'["gdbgui"] = process_holder["gdbgui"]
  BY <1>1 DEF Begun, Ahead, OpenocdThread, ThreadStep, ThreadPopen, ThreadPopenFails,
     ThreadStore, ThreadReread, ThreadLogs, ThreadLogFails, ThreadDrop, TypeOK
<1>8. /\ escaped \subseteq escaped'
      /\ alive' = alive \/ (thread[r] = "popen" /\ alive' = alive \cup {<<r, "openocd">>})
  BY DEF OpenocdThread, ThreadStep, ThreadPopen, ThreadPopenFails, ThreadStore, ThreadReread,
         ThreadLogs, ThreadLogFails, ThreadDrop, Escape
\* the only OpenOCD there may be is its own, and that one only after Popen
<1>9. \A p \in alive : Runs(p, "openocd") => p = <<r, "openocd">> /\ thread[r] # "popen"
  <2> SUFFICES ASSUME NEW p \in alive, Runs(p, "openocd")
               PROVE  p = <<r, "openocd">> /\ thread[r] # "popen"
    OBVIOUS
  <2>1. p = <<r, "openocd">>
    BY <1>3 DEF Runs, Debuggers
  <2>2. Begun("openocd") \/ Starting(p)
    BY DEF TrackInv, Names
  <2> QED
    BY <1>5, <2>1, <2>2 DEF Starting
<1>10. \A p \in alive' : Runs(p, "gdbgui") => p \in alive /\ (Starting(p)' <=> Starting(p))
  BY <1>1, <1>8 DEF Runs, Starting
<1>11. \A p \in alive' : Runs(p, "openocd") => p = <<r, "openocd">>
  BY <1>8, <1>9
<1>12. ASSUME thread[r] # "popen", thread[r] # "store", process_holder["openocd"] = None
       PROVE  ~Running("openocd")
  <2> SUFFICES ASSUME NEW p \in alive \ escaped, Runs(p, "openocd") PROVE FALSE
    BY DEF Running
  <2>1. Starting(p)
    BY <1>12 DEF TrackInv, DebuggersTracked
  <2> QED
    BY <1>9, <1>12, <2>1 DEF Starting
<1>13. thread'[r] = "drop" => ~Running("openocd")'
  <2>1. CASE ThreadPopenFails(r)
    <3>1. alive' = alive /\ thread[r] = "popen"
      BY <2>1 DEF ThreadPopenFails
    <3> QED
      BY <1>9, <3>1 DEF Running, Runs
  <2>2. CASE ThreadReread(r)
    <3>1. /\ thread'[r] = "drop" => process_holder["openocd"] = None
          /\ thread[r] = "reread" /\ alive' = alive /\ escaped' = escaped
      BY <2>2 DEF ThreadReread, TypeOK
    <3> QED
      BY <1>12, <3>1 DEF Running, Runs
  <2>3. CASE ThreadLogFails(r)
    <3>1. alive' = alive /\ (<<r, "openocd">> \in alive => <<r, "openocd">> \in escaped')
      BY <2>3 DEF ThreadLogFails, Escape, Debuggers
    <3> QED
      BY <1>11, <3>1 DEF Running
  <2>4. CASE ThreadPopen(r) \/ ThreadDrop(r) \/ ThreadStore(r) \/ ThreadLogs(r)
    BY <2>4 DEF ThreadPopen, ThreadDrop, ThreadStore, ThreadLogs, TypeOK
  <2> QED
    BY <2>1, <2>2, <2>3, <2>4 DEF OpenocdThread, ThreadStep
<1>14. \A p \in alive' : Runs(p, "openocd") =>
         process_holder'["openocd"] # None \/ Starting(p)' \/ p \in escaped'
  <2> SUFFICES ASSUME NEW p \in alive', Runs(p, "openocd")
               PROVE  process_holder'["openocd"] # None \/ Starting(p)' \/ p \in escaped'
    OBVIOUS
  <2>1. p = <<r, "openocd">>
    BY <1>11
  <2>2. CASE ThreadPopen(r)
    BY <2>1, <2>2 DEF ThreadPopen, Starting, TypeOK
  <2>3. CASE ThreadStore(r)
    BY <2>3, GatewayAssumption DEF ThreadStore, TypeOK
  <2>4. CASE ThreadDrop(r)
    <3>1. thread[r] = "drop" /\ alive' = alive /\ escaped' = escaped
      BY <2>4 DEF ThreadDrop
    <3>2. ~Running("openocd")
      BY <3>1 DEF TrackInv
    <3> QED
      BY <3>1, <3>2 DEF Running
  <2>5. CASE \/ ThreadPopenFails(r) \/ ThreadReread(r) \/ ThreadLogs(r) \/ ThreadLogFails(r)
    <3>1. /\ alive' = alive /\ process_holder' = process_holder
          /\ thread[r] # "store"
      BY <2>5 DEF ThreadPopenFails, ThreadReread, ThreadLogs, ThreadLogFails
    <3>2. ~Starting(p)
      BY <2>1, <3>1 DEF Starting
    <3> QED
      BY <1>8, <3>1, <3>2 DEF TrackInv, DebuggersTracked
  <2> QED
    BY <2>2, <2>3, <2>4, <2>5 DEF OpenocdThread, ThreadStep
<1>15. DebuggersTracked'
  <2>1. \A p \in alive' : Runs(p, "gdbgui") =>
          process_holder'["gdbgui"] # None \/ Starting(p)' \/ p \in escaped'
    BY <1>7, <1>8, <1>10 DEF TrackInv, DebuggersTracked
  <2> QED
    BY <1>14, <2>1 DEF DebuggersTracked, Runs
<1>16. /\ \A n \in Names : process_holder'[n] # None => Begun(n)'
       /\ \A n \in Names, p \in alive' : Runs(p, n) => Begun(n)' \/ Starting(p)'
  <2>1. process_holder'["openocd"] # None => Begun("openocd")'
    <3>1. CASE ThreadStore(r)
      BY <1>6, <3>1 DEF ThreadStore, TypeOK
    <3>2. CASE ThreadDrop(r)
      BY <3>2 DEF ThreadDrop, TypeOK
    <3>3. CASE ThreadPopen(r) \/ ThreadPopenFails(r) \/ ThreadReread(r) \/ ThreadLogs(r)
               \/ ThreadLogFails(r)
      <4>1. process_holder' = process_holder
        BY <3>3 DEF ThreadPopen, ThreadPopenFails, ThreadReread, ThreadLogs, ThreadLogFails
      <4>2. thread[r] \notin {"popen", "store"} => thread'[r] \notin {"popen", "store"}
        BY <3>3 DEF ThreadPopen, ThreadPopenFails, ThreadReread, ThreadLogs, ThreadLogFails, TypeOK
      <4> QED
        BY <1>5, <1>6, <4>1, <4>2 DEF TrackInv, Names
    <3> QED
      BY <3>1, <3>2, <3>3 DEF OpenocdThread, ThreadStep
  <2>2. \A p \in alive' : Runs(p, "openocd") => Begun("openocd")' \/ Starting(p)'
    <3> SUFFICES ASSUME NEW p \in alive', Runs(p, "openocd"), thread'[r] \in {"popen", "store"}
                 PROVE  Starting(p)'
      BY <1>6
    <3>1. thread'[r] = "store"
      <4>1. CASE thread'[r] = "popen"
        BY <4>1 DEF OpenocdThread, ThreadStep, ThreadPopen, ThreadPopenFails, ThreadStore,
           ThreadReread, ThreadLogs, ThreadLogFails, ThreadDrop, TypeOK
      <4> QED
        BY <4>1
    <3> QED
      BY <1>11, <3>1 DEF Starting
  <2>3. \A p \in alive' : Runs(p, "gdbgui") => Begun("gdbgui")' \/ Starting(p)'
    BY <1>7, <1>10 DEF TrackInv, Names
  <2>4. process_holder'["gdbgui"] # None => Begun("gdbgui")'
    BY <1>7 DEF TrackInv, Names
  <2> QED
    BY <2>1, <2>2, <2>3, <2>4 DEF Names
<1>17. ASSUME NEW q \in Requests, Kind[q] # "stopmonitor"
       PROVE  /\ pc[q] \in {"ps", "kill", "pop"} => Begun(name[q])'
              /\ pc[q] = "kill" =>
                   \A p \in alive' \ escaped' : Runs(p, name[q]) => p \in victims[q]
              /\ pc[q] = "pop" => ~Running(name[q])'
  <2> SUFFICES ASSUME pc[q] \in {"ps", "kill", "pop"}
               PROVE  /\ Begun(name[q])'
                      /\ pc[q] = "kill" =>
                           \A p \in alive' \ escaped' : Runs(p, name[q]) => p \in victims[q]
                      /\ pc[q] = "pop" => ~Running(name[q])'
    OBVIOUS
  <2>1. name[q] \in Names /\ Begun(name[q]) /\ name'[q] = name[q]
    BY <1>1, <1>17 DEF TrackInv
  <2>2. Begun(name[q])'
    <3>1. thread[r] \notin {"popen", "store"} => thread'[r] \notin {"popen", "store"}
      BY DEF OpenocdThread, ThreadStep, ThreadPopen, ThreadPopenFails, ThreadStore,
         ThreadReread, ThreadLogs, ThreadLogFails, ThreadDrop, TypeOK
    <3>2. CASE name[q] = "openocd"
      BY <1>5, <1>6, <2>1, <3>1, <3>2
    <3>3. CASE name[q] = "gdbgui"
      BY <1>7, <2>1, <3>3
    <3> QED
      BY <2>1, <3>2, <3>3 DEF Names
  <2>3. \A p \in alive' \ escaped' : Runs(p, name[q]) => p \in alive \ escaped
    <3>1. CASE name[q] = "openocd"
      BY <1>5, <1>8, <2>1, <3>1
    <3>2. CASE name[q] = "gdbgui"
      BY <1>8, <1>10, <3>2
    <3> QED
      BY <2>1, <3>1, <3>2 DEF Names
  <2> QED
    BY <1>17, <2>1, <2>2, <2>3 DEF TrackInv, Running, Runs
<1>18. /\ \A q \in Requests : thread'[q] # "off" => /\ Kind[q] = "debug"
                                                    /\ pc[q] \notin Ahead("openocd")
       /\ \A q \in Requests : thread'[q] = "drop" => ~Running("openocd")'
  <2>1. \A q \in Requests : thread[q] # "off" => q = r
    BY <1>3 DEF TrackInv
  <2> QED
    BY <1>2, <1>4, <1>13, <2>1
<1>19. \A p \in alive' : p[2] \in Debuggers => Kind[p[1]] = "debug"
  BY <1>2, <1>8 DEF TrackInv
<1> QED
  BY <1>1, <1>15, <1>16, <1>17, <1>18, <1>19 DEF TrackInv, Runs

(* The gdbgui server starts before its entry is made.                      *)
LEMMA RemoteGuiTrack ==
  ASSUME NEW r \in Requests, OneSession, TypeOK, TrackInv, RemoteGui(r)
  PROVE  TrackInv'
<1>1. /\ pc[r] = "remote_gui" /\ Kind[r] = "debug"
      /\ UNCHANGED <<name, victims, thread, process_holder, escaped>>
      /\ alive' = alive \cup {<<r, "gdbgui_server">>}
  BY DEF RemoteGui, TrackInv, MayBeAt, DebugOnly
<1>2. \A p \in alive : p[2] \in Debuggers => p = <<r, p[2]>>
  BY <1>1, OnlyOne
<1>3. pc'[r] = "remote_store" /\ \A q \in Requests \ {r} : pc'[q] = pc[q]
  BY DEF RemoteGui, TypeOK
<1>4. ~Begun("gdbgui") /\ (Begun("openocd") => Begun("openocd")')
  BY <1>1, <1>3 DEF Begun, Ahead
<1>5. \A p \in alive' : Runs(p, "openocd") => p \in alive /\ (Starting(p) => Starting(p)')
  BY <1>1 DEF Runs, Starting, ThreadAt
<1>6. \A p \in alive' : Runs(p, "gdbgui") => Starting(p)'
  <2>1. \A p \in alive' : Runs(p, "gdbgui") => p = <<r, "gdbgui_server">>
    BY <1>1, <1>2 DEF Runs, Debuggers
  <2> QED
    BY <1>3, <2>1 DEF Starting
<1>7. DebuggersTracked'
  <2>1. \A p \in alive' : Runs(p, "openocd") =>
          process_holder["openocd"] # None \/ Starting(p)' \/ p \in escaped
    BY <1>5 DEF TrackInv, DebuggersTracked
  <2> QED
    BY <1>1, <1>6, <2>1 DEF DebuggersTracked, Runs
<1>8. /\ \A n \in Names : process_holder[n] # None => Begun(n)'
      /\ \A n \in Names, p \in alive' : Runs(p, n) => Begun(n)' \/ Starting(p)'
  BY <1>4, <1>5, <1>6 DEF TrackInv, Names
<1>9. ASSUME NEW q \in Requests, Kind[q] # "stopmonitor"
      PROVE  /\ pc'[q] \in {"ps", "kill", "pop"} => Begun(name[q])'
             /\ pc'[q] = "kill" =>
                  \A p \in alive' \ escaped : Runs(p, name[q]) => p \in victims[q]
             /\ pc'[q] = "pop" => ~Running(name[q])'
  <2>1. CASE pc'[q] \in {"ps", "kill", "pop"}
    <3>1. q # r /\ pc'[q] = pc[q] /\ name[q] \in Names /\ name'[q] = name[q]
      BY <1>1, <1>3, <1>9, <2>1 DEF TrackInv
    <3>2. Begun(name[q])
      BY <1>9, <2>1, <3>1 DEF TrackInv
    <3>3. name[q] = "openocd"
      BY <1>4, <3>1, <3>2 DEF Names
    <3>4. Begun(name[q])' /\ \A p \in alive' : Runs(p, name[q]) => p \in alive
      BY <1>4, <1>5, <3>1, <3>2, <3>3
    <3> QED
      BY <1>1, <1>9, <3>1, <3>4 DEF TrackInv, Running, Runs
  <2> QED
    BY <2>1
<1>10. /\ \A q \in Requests : MayBeAt(Kind[q], pc'[q])
       /\ \A p \in alive' : p[2] \in Debuggers => Kind[p[1]] = "debug"
  BY <1>1, <1>3 DEF TrackInv, MayBeAt, DebugOnly, DebugSteps
<1>11. /\ \A q \in Requests : thread[q] # "off" => /\ Kind[q] = "debug"
                                                   /\ pc'[q] \notin Ahead("openocd")
       /\ \A q \in Requests : thread[q] = "drop" => ~Running("openocd")'
  BY <1>1, <1>3, <1>5 DEF TrackInv, Ahead, Running, Runs
<1> QED
  BY <1>1, <1>7, <1>8, <1>9, <1>10, <1>11 DEF TrackInv, Runs

(* The gdbgui entry is made after the server has started, or, for the      *)
(* native gdbgui, when the session is over.                                *)
LEMMA GdbguiTrack ==
  ASSUME NEW r \in Requests, OneSession, TypeOK, TrackInv, RemoteStore(r) \/ GdbguiExits(r)
  PROVE  TrackInv'
<1>1. /\ pc[r] \in {"remote_store", "gdbgui"} /\ Kind[r] = "debug"
      /\ UNCHANGED <<name, victims, thread, escaped>>
      /\ process_holder' = [process_holder EXCEPT !["gdbgui"] = r]
      /\ alive' \subseteq alive
  BY DEF RemoteStore, GdbguiExits, TrackInv, MayBeAt, DebugOnly
<1>2. \A q \in Requests : Kind[q] = "debug" => q = r
  BY <1>1 DEF OneSession
<1>3. pc'[r] \in {"remote_pid", "done"} /\ \A q \in Requests \ {r} : pc'[q] = pc[q]
  BY DEF RemoteStore, GdbguiExits, TypeOK
<1>4. process_holder'["gdbgui"] # None /\ process_holder'["openocd"] = process_holder["openocd"]
  BY <1>1, GatewayAssumption DEF TypeOK
<1>5. Begun("gdbgui")' /\ (Begun("openocd") => Begun("openocd")')
  BY <1>1, <1>2, <1>3 DEF Begun, Ahead
<1>6. \A p \in alive' : Runs(p, "openocd") => p \in alive /\ (Starting(p) => Starting(p)')
  BY <1>1 DEF Runs, Starting, ThreadAt
<1>7. \A n \in Names : Running(n)' => Running(n)
  BY <1>1 DEF Running, Runs
<1>8. DebuggersTracked'
  <2>1. \A p \in alive' : Runs(p, "openocd") =>
          process_holder'["openocd"] # None \/ Starting(p)' \/ p \in escaped
    BY <1>4, <1>6 DEF TrackInv, DebuggersTracked
  <2> QED
    BY <1>1, <1>4, <2>1 DEF DebuggersTracked, Runs
<1>9. /\ \A n \in Names : process_holder'[n] # None => Begun(n)'
      /\ \A n \in Names, p \in alive' : Runs(p, n) => Begun(n)' \/ Starting(p)'
  BY <1>4, <1>5, <1>6 DEF TrackInv, Names
<1>10. ASSUME NEW q \in Requests, Kind[q] # "stopmonitor"
       PROVE  /\ pc'[q] \in {"ps", "kill", "pop"} => Begun(name[q])'
              /\ pc'[q] = "kill" =>
                   \A p \in alive' \ escaped : Runs(p, name[q]) => p \in victims[q]
              /\ pc'[q] = "pop" => ~Running(name[q])'
  <2>1. CASE pc'[q] \in {"ps", "kill", "pop"}
    <3>1. q # r /\ pc'[q] = pc[q] /\ name[q] \in Names /\ name'[q] = name[q]
      BY <1>1, <1>3, <1>10, <2>1 DEF TrackInv
    <3>2. Begun(name[q])'
      BY <1>5, <1>10, <2>1, <3>1 DEF TrackInv, Names
    <3> QED
      BY <1>1, <1>7, <1>10, <3>1, <3>2 DEF TrackInv, Runs
  <2> QED
    BY <2>1
<1>11. /\ \A q \in Requests : MayBeAt(Kind[q], pc'[q])
       /\ \A p \in alive' : p[2] \in Debuggers => Kind[p[1]] = "debug"
  BY <1>1, <1>3 DEF TrackInv, MayBeAt, DebugOnly, DebugSteps
<1>12. /\ \A q \in Requests : thread[q] # "off" => /\ Kind[q] = "debug"
                                                   /\ pc'[q] \notin Ahead("openocd")
       /\ \A q \in Requests : thread[q] = "drop" => ~Running("openocd")'
  BY <1>3, <1>7 DEF TrackInv, Ahead, Names
<1> QED
  BY <1>1, <1>8, <1>9, <1>10, <1>11, <1>12 DEF TrackInv, Runs

LEMMA InitTrack == Init => TrackInv
<1> SUFFICES ASSUME Init PROVE TrackInv
  OBVIOUS
<1>1. \A r \in Requests : pc[r] = "idle" /\ thread[r] = "off"
  BY DEF Init
<1>2. alive = {} /\ \A n \in Names : process_holder[n] = None
  BY DEF Init, Names
<1>3. \A r \in Requests : Kind[r] # "stopmonitor" => name[r] \in Names
  BY DEF Init, Names
<1>4. \A k : MayBeAt(k, "idle")
  BY DEF MayBeAt, DebugOnly, DebugSteps
<1> QED
  BY <1>1, <1>2, <1>3, <1>4 DEF TrackInv, DebuggersTracked, Running, Names

LEMMA NextTrack == OneSession /\ TypeOK /\ TrackInv /\ [Next]_vars => TrackInv'
<1> SUFFICES ASSUME OneSession, TypeOK, TrackInv, [Next]_vars PROVE TrackInv'
  OBVIOUS
<1>1. ASSUME NEW r \in Requests, Accept(r) \/ Work(r) PROVE TrackInv'
  <2>1. CASE Accept(r)
    BY <2>1, StatementTrack
  <2>2. CASE HandlerStep(r)
    <3>1. CASE \/ Reap(r) \/ ListProcesses(r) \/ CannotList(r) \/ KillListed(r)
               \/ KillRaises(r) \/ Pop(r) \/ StartOpenocd(r) \/ Poll(r) \/ RemoteGui(r)
               \/ RemoteStore(r) \/ Spawn(r)
      BY <3>1, ReapTrack, ListProcessesTrack, KillListedTrack, PopTrack, StartOpenocdTrack,
         PollTrack, RemoteGuiTrack, GdbguiTrack, SpawnTrack
    <3>2. CASE CannotStart(r) \/ KilledExit(r)
      <4>1. ~GdbguiExits(r) \/ GdbguiExits(r)
        OBVIOUS
      <4> QED
        BY <3>2, <4>1, EndTrack, GdbguiTrack
    <3> QED
      BY <2>2, <3>1, <3>2, StatementTrack DEF HandlerStep
  <2>3. CASE OpenocdThread(r)
    BY <2>3, ThreadTrack
  <2>4. CASE CommandEnds(r) \/ TimesOut(r) \/ JobMonitorEnds(r)
    BY <2>4, EndTrack, GdbguiTrack
  <2> QED
    BY <1>1, <2>1, <2>2, <2>3, <2>4 DEF Work, OpenocdThread
<1>2. CASE UNCHANGED vars
  <2>1. alive' = alive /\ UNCHANGED <<pc, name, process_holder, thread, victims, escaped>>
    BY <1>2 DEF vars
  <2> QED
    BY <2>1, TrackStill
<1> QED
  BY <1>1, <1>2 DEF Next, Terminating

(* With one debugging session among any number of other requests, whatever *)
(* they do and whatever fails, an OpenOCD or gdbgui server that has been   *)
(* stored runs without its entry in process_holder only after an attempt   *)
(* to list it, kill it or log it has raised (kill_all_processes,           *)
(* monitor_openocd_output, do_debug_request).                              *)
THEOREM DebuggersTrackedOnce == ASSUME OneSession PROVE Spec => []DebuggersTracked
<1>1. TrackInv => DebuggersTracked
  BY DEF TrackInv
<1>2. TypeOK /\ TrackInv /\ [Next]_vars => TrackInv'
  BY NextTrack
<1> QED
  BY <1>1, <1>2, InitTrack, TypeCorrect, PTL DEF Spec
=============================================================================
