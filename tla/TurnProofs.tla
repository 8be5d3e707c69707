----------------------------- MODULE TurnProofs -----------------------------
(***************************************************************************)
(* What the gateway promises to users who take turns (SpecTurns).          *)
(*                                                                         *)
(* While one request is being answered, nothing but the thread of an       *)
(* earlier /debug and the processes it left running takes a step.  What a  *)
(* handler has put into the shared files and globals is therefore still    *)
(* there when it comes back to it, and the answer "ok" at its end is true. *)
(* The invariants below say, step by step of a handler, what is in place   *)
(* by then.                                                                *)
(***************************************************************************)
EXTENDS GatewayProofs

USE DEF At, Goto, globals, sources, project, os, reaping, answers

Busy(r) == pc[r] \notin {"idle", "done"}

(* The steps of /job and /fullclean, beside those of StepsOf.              *)
JobSteps == {"idle", "open_tmp", "write_tmp", "check_build", "open_program", "translate",
             "write_program", "mode_test", "fullclean_cwd", "build", "flash",
             "gateway_monitor", "cat", "rm_output", "finish", "done"}
CleanSteps == {"idle", "reset", "check_build", "fullclean", "rm", "finish", "done"}

TurnSteps(k) == CASE k = "job" -> JobSteps
                  [] k = "fullclean" -> CleanSteps
                  [] OTHER -> StepsOf(k)

(***************************************************************************)
(* One handler at a time; the command it waits for is the only one that    *)
(* runs, and nobody kills it, so KilledExit never happens.                 *)
(***************************************************************************)
TurnInv ==
  /\ \A q, r \in Requests : Busy(q) /\ Busy(r) => q = r
  /\ \A r \in spawned : pc[r] \in Commands /\ Self(r) \in alive
  /\ \A r \in Requests, c \in Commands : <<r, c>> \in alive => r \in spawned /\ c = pc[r]
  /\ \A r \in Requests : status[r] = "ok" => At(r, "done")
  /\ \A r \in Requests : pc[r] \in TurnSteps(Kind[r])

(* The assembly of a /flash or /job on its way into main/program.s.        *)
Written == {"mode_test", "fullclean", "fullclean_cwd", "configure", "find_sdkconfig", "sed",
            "set_target", "build", "flash"}
Sent == {"reset", "check_build", "reap", "ps", "kill", "pop", "open_program", "translate"}

TextFacts(r) ==
  /\ At(r, "write_tmp") => tmp_assembly = Empty
  /\ pc[r] \in Sent => tmp_assembly = r
  /\ pc[r] \in {"translate", "write_program"} =>
       dir[r] = BUILD_PATH /\ program[BUILD_PATH].asm = Empty
  /\ At(r, "write_program") => held[r] = r
  /\ pc[r] \in Written => program[BUILD_PATH] = [asm |-> r, board |-> Target[r]]
  /\ r \in spawned \/ pc[r] \in {"find_sdkconfig", "sed"} => dir[r] = BUILD_PATH

TextInv == \A r \in Requests : Kind[r] \in {"flash", "job"} => TextFacts(r)

(* The configuration a /flash makes for its board, and what it ends with.  *)
WantedConfig(r) == [target |-> Target[r], options |-> OptionsFor(Target[r])]

FlashFacts(r) ==
  /\ pc[r] \in {"find_sdkconfig", "sed", "set_target"} =>
       defaults[BUILD_PATH] = OptionsFor(Target[r])
  /\ pc[r] \in {"build", "flash"} => sdkconfig[BUILD_PATH] = WantedConfig(r)
  /\ At(r, "finish") => board[Port[r]] = Wanted(r)

FlashInv == \A r \in Requests : Kind[r] = "flash" => FlashFacts(r)

(* What a /job has flashed stays on the board while it shows the output.   *)
JobFacts(r) ==
  pc[r] \in {"gateway_monitor", "cat", "rm_output", "finish"} =>
    board[Port[r]] \in Images /\ board[Port[r]].asm = r

JobInv == \A r \in Requests : Kind[r] = "job" => JobFacts(r)

(* A /fullclean works in the project of the mode it was sent with.         *)
CleanFacts(r) ==
  /\ pc[r] \in {"reset", "check_build"} => arduino = Arduino[r]
  /\ pc[r] \in {"fullclean", "rm", "finish"} => BUILD_PATH = ProjectFor(Arduino[r])
  /\ r \in spawned => dir[r] = BUILD_PATH
  /\ At(r, "finish") => build[BUILD_PATH] = None

CleanInv == \A r \in Requests : Kind[r] = "fullclean" => CleanFacts(r)

EraseInv == \A r \in Requests :
  Kind[r] = "eraseflash" /\ At(r, "finish") => board[Port[r]] = None

-----------------------------------------------------------------------------
(***************************************************************************)
(* Steps that are nobody's turn: the thread of a /debug goes on, and what  *)
(* such a request left running ends.                                       *)
(***************************************************************************)
Quiet(r) == OpenocdThread(r) \/ DaemonExits(r)

LEMMA QuietStep ==
  ASSUME NEW r \in Requests, Quiet(r)
  PROVE  /\ UNCHANGED <<globals, sources, project, board, pc, error, spawned, dir, held, status>>
         /\ \A c \in Commands : \A q : <<q, c>> \in alive <=> <<q, c>> \in alive'
<1>1. CASE OpenocdThread(r)
  <2>1. alive' = alive \/ alive' = alive \cup {<<r, "openocd">>}
    BY <1>1 DEF OpenocdThread, ThreadStep, ThreadStore, ThreadLogs, ThreadLogFails, ThreadPopen,
       ThreadPopenFails, ThreadReread, ThreadDrop
  <2>2. \A c \in Commands : c # "openocd"
    BY DEF Commands
  <2> QED
    BY <1>1, <2>1, <2>2
       DEF OpenocdThread, ThreadStep, ThreadStore, ThreadLogs, ThreadLogFails, ThreadPopen,
          ThreadPopenFails, ThreadReread, ThreadDrop
<1>2. CASE DaemonExits(r)
  <2>1. PICK d \in Daemons : alive' = alive \ {<<r, d>>}
    BY <1>2 DEF DaemonExits
  <2>2. \A c \in Commands : c # d
    BY DEF Commands, Daemons, Debuggers
  <2> QED
    BY <1>2, <2>1, <2>2 DEF DaemonExits
<1> QED
  BY <1>1, <1>2 DEF Quiet

(* Every other step is a step of the handler of r, which is at work.       *)
LEMMA OwnStep ==
  ASSUME NEW r \in Requests, Work(r), ~Quiet(r)
  PROVE  Busy(r)
<1>1. CASE HandlerStep(r)
  <2>1. pc[r] \in (Steps \ {"idle", "done"}) \cup Commands
    BY <1>1 DEF HandlerStep, Steps, Reset, CheckBuild, OpenTmp, WriteTmp, OpenProgram, Translate,
       RefuseProgram, WriteProgram, ModeTest, Configure, FindSdkconfig, Finish, Reap,
       ListProcesses, CannotList, KillListed, KillRaises, AfterKill, Pop, MonitorDocker,
       MonitorSdkconfig, DebugDocker,
       StartOpenocd, Poll, FindGdbinit, RemoteBuild, RemoteGui, RemoteGuiFails, RemoteStore,
       RemotePid,
       Spawn, CannotStart, KilledExit, DoCommands, Commands
  <2> QED
    BY <2>1 DEF Busy, Commands
<1>2. CASE CommandEnds(r) \/ TimesOut(r) \/ JobMonitorEnds(r)
  <2>1. pc[r] \in Commands
    BY <1>2 DEF CommandEnds, FullClean, RemoveBuild, Sed, SetTarget, Build, Flash, EraseFlash,
       ReadOnly, CatOutput, RemoveOutput, Fails, TimesOut, JobMonitorEnds, GdbguiExits,
       RemoteMonitorExits, Quiet, Exits, DoCommands, Commands
  <2> QED
    BY <2>1 DEF Busy, Commands
<1> QED
  BY <1>1, <1>2 DEF Work, OpenocdThread, Quiet

(* However a command ends, its handler goes on to Following or is done.    *)
Over(r) == Raise(r) \/ \E code \in {"ok", "bad"} : Return(r, code)

LEMMA OverStep ==
  ASSUME NEW r \in Requests, Over(r)
  PROVE  \E s \in {Following(r), "done"} : Goto(r, s)
BY DEF Over, Raise, Return, Resume

LEMMA OverGoes ==
  ASSUME NEW r \in Requests, TypeOK, Over(r)
  PROVE  pc'[r] \in {Following(r), "done"}
<1>1. PICK s \in {Following(r), "done"} : Goto(r, s)
  BY OverStep
<1>2. pc'[r] = s
  BY <1>1 DEF TypeOK
<1> QED
  BY <1>1, <1>2

LEMMA FollowingTurn ==
  ASSUME NEW r \in Requests, pc[r] \in Commands, pc[r] \in TurnSteps(Kind[r])
  PROVE  Following(r) \in TurnSteps(Kind[r]) /\ "done" \in TurnSteps(Kind[r])
<1>1. CASE Kind[r] = "flash"
  <2>1. pc[r] \in {"fullclean", "sed", "set_target", "build", "flash"}
    BY <1>1 DEF TurnSteps, StepsOf, Commands
  <2> QED
    BY <1>1, <2>1 DEF TurnSteps, StepsOf, Following
<1>2. CASE Kind[r] = "job"
  <2>1. pc[r] \in {"fullclean_cwd", "build", "flash", "gateway_monitor", "cat", "rm_output"}
    BY <1>2 DEF TurnSteps, JobSteps, Commands
  <2> QED
    BY <1>2, <2>1 DEF TurnSteps, JobSteps, Following
<1>3. CASE Kind[r] = "fullclean"
  <2>1. pc[r] \in {"fullclean", "rm"}
    BY <1>3 DEF TurnSteps, CleanSteps, Commands
  <2> QED
    BY <1>3, <2>1 DEF TurnSteps, CleanSteps, Following
<1>4. CASE Kind[r] = "eraseflash"
  <2>1. pc[r] = "erase_flash"
    BY <1>4 DEF TurnSteps, StepsOf, Commands
  <2> QED
    BY <1>4, <2>1 DEF TurnSteps, StepsOf, Following
<1>5. CASE Kind[r] \notin {"flash", "job", "fullclean", "eraseflash"}
  <2>1. TurnSteps(Kind[r]) = Steps \cup Commands
    BY <1>5 DEF TurnSteps, StepsOf
  <2> QED
    BY <2>1, FollowingType DEF Steps
<1> QED
  BY <1>1, <1>2, <1>3, <1>4, <1>5

(* The end of a command of the handler of r, in one formula.               *)
Ending(r) ==
  \/ FullClean(r) \/ RemoveBuild(r) \/ Sed(r) \/ SetTarget(r) \/ Build(r)
  \/ Flash(r) \/ EraseFlash(r) \/ ReadOnly(r) \/ CatOutput(r) \/ RemoveOutput(r)
  \/ Fails(r) \/ KilledExit(r) \/ TimesOut(r) \/ JobMonitorEnds(r)

LEMMA EndingStep ==
  ASSUME NEW r \in Requests, Ending(r)
  PROVE  /\ pc[r] \in Commands \ {"gdbgui", "remote_monitor"} /\ Over(r)
         /\ spawned' = spawned \ {r}
         /\ KilledExit(r) \/ alive' \subseteq alive \ {Self(r)}
         /\ UNCHANGED <<globals, sources, defaults, dir, held, status>>
<1>1. pc[r] \in Commands \ {"gdbgui", "remote_monitor"} /\ spawned' = spawned \ {r}
  BY DEF Ending, FullClean, RemoveBuild, Sed, SetTarget, Build, Flash, EraseFlash, ReadOnly,
         CatOutput, RemoveOutput, Fails, KilledExit, TimesOut, JobMonitorEnds, Exits,
         DoCommands, Commands
<1>0. KilledExit(r) \/ alive' \subseteq alive \ {Self(r)}
  BY DEF Ending, FullClean, RemoveBuild, Sed, SetTarget, Build, Flash, EraseFlash, ReadOnly,
         CatOutput, RemoveOutput, Fails, TimesOut, JobMonitorEnds, Exits, Using, Self
<1>2. CASE \/ FullClean(r) \/ RemoveBuild(r) \/ Sed(r) \/ SetTarget(r) \/ Build(r)
           \/ Flash(r) \/ EraseFlash(r) \/ ReadOnly(r) \/ CatOutput(r) \/ RemoveOutput(r)
  <2>1. Return(r, "ok") /\ CommandFrame /\ defaults' = defaults
    BY <1>2 DEF FullClean, RemoveBuild, Sed, SetTarget, Build, Flash, EraseFlash, ReadOnly,
                CatOutput, RemoveOutput
  <2> QED
    BY <1>0, <1>1, <2>1 DEF Over, CommandFrame
<1>3. CASE Fails(r) \/ KilledExit(r) \/ TimesOut(r) \/ JobMonitorEnds(r)
  <2>1. (Raise(r) \/ Return(r, "bad")) /\ CommandFrame /\ defaults' = defaults
    BY <1>3 DEF Fails, KilledExit, TimesOut, JobMonitorEnds
  <2> QED
    BY <1>0, <1>1, <2>1 DEF Over, CommandFrame
<1> QED
  BY <1>2, <1>3 DEF Ending

-----------------------------------------------------------------------------
(***************************************************************************)
(* TurnInv is inductive.                                                   *)
(***************************************************************************)

(* The statements of the handlers, which run no command.                   *)
Statement(r) ==
  \/ Reset(r) \/ CheckBuild(r) \/ OpenTmp(r) \/ WriteTmp(r)
  \/ OpenProgram(r) \/ Translate(r) \/ RefuseProgram(r) \/ WriteProgram(r)
  \/ ModeTest(r) \/ Configure(r) \/ FindSdkconfig(r) \/ Finish(r)
  \/ Reap(r) \/ ListProcesses(r) \/ CannotList(r) \/ KillListed(r) \/ KillRaises(r) \/ Pop(r)
  \/ MonitorDocker(r) \/ MonitorSdkconfig(r)
  \/ DebugDocker(r) \/ StartOpenocd(r) \/ Poll(r) \/ FindGdbinit(r)
  \/ RemoteBuild(r) \/ RemoteGui(r) \/ RemoteGuiFails(r) \/ RemoteStore(r) \/ RemotePid(r)

LEMMA WorkCases ==
  ASSUME NEW r \in Requests, Work(r)
  PROVE  \/ Statement(r) \/ Spawn(r) \/ CannotStart(r) \/ Ending(r)
         \/ GdbguiExits(r) \/ RemoteMonitorExits(r) \/ Quiet(r)
<1>1. CASE HandlerStep(r)
  BY <1>1 DEF HandlerStep, Statement, Ending
<1>2. CASE OpenocdThread(r) \/ TimesOut(r) \/ JobMonitorEnds(r)
  BY <1>2 DEF Quiet, Ending
<1>3. CASE CommandEnds(r)
  BY <1>3 DEF CommandEnds, Ending, Quiet
<1> QED
  BY <1>1, <1>2, <1>3 DEF Work, OpenocdThread

(* Where a statement leads is a step of the route, and the child processes *)
(* of the handlers stay as they are.                                       *)
LEMMA StatementGoes ==
  ASSUME NEW r \in Requests, TypeOK, Statement(r), pc[r] \in TurnSteps(Kind[r])
  PROVE  /\ pc[r] \notin Commands /\ spawned' = spawned
         /\ \A c \in Commands, q \in Requests : <<q, c>> \in alive' => <<q, c>> \in alive
         /\ pc' = pc \/ \E s \in TurnSteps(Kind[r]) : Goto(r, s)
<1> USE GatewayAssumption DEF Kinds
<1>0. TurnSteps(Kind[r]) \subseteq Steps \cup Commands
  BY DEF TurnSteps, StepsOf, JobSteps, CleanSteps, Steps, Commands
<1>1. pc[r] \notin Commands
  BY DEF Statement, Commands, Reset, CheckBuild, OpenTmp, WriteTmp, OpenProgram, Translate,
     RefuseProgram, WriteProgram, ModeTest, Configure, FindSdkconfig, Finish, Reap,
     ListProcesses, CannotList, KillListed, KillRaises, AfterKill, Pop, MonitorDocker,
     MonitorSdkconfig, DebugDocker,
     StartOpenocd, Poll, FindGdbinit, RemoteBuild, RemoteGui, RemoteGuiFails, RemoteStore,
     RemotePid
<1>2. spawned' = spawned
  BY DEF Statement, Reset, CheckBuild, OpenTmp, WriteTmp, OpenProgram, Translate,
     RefuseProgram, WriteProgram, ModeTest, Configure, FindSdkconfig, Finish, Reap,
     ListProcesses, CannotList, KillListed, KillRaises, AfterKill, Kill, Pop, MonitorDocker,
     MonitorSdkconfig, DebugDocker,
     StartOpenocd, Poll, FindGdbinit, RemoteBuild, RemoteGui, RemoteGuiFails, RemoteStore,
     RemotePid
<1>3. pc' = pc \/ \E s \in TurnSteps(Kind[r]) : Goto(r, s)
  <2> USE DEF TurnSteps, StepsOf, JobSteps, CleanSteps, Steps, Commands
  <2>1. CASE Reset(r) \/ CheckBuild(r) \/ OpenTmp(r) \/ WriteTmp(r)
    BY <2>1 DEF Reset, CheckBuild, AfterCheck, OpenTmp, WriteTmp
  <2>2. CASE OpenProgram(r) \/ Translate(r) \/ RefuseProgram(r) \/ WriteProgram(r)
    BY <2>2 DEF OpenProgram, Translate, RefuseProgram, WriteProgram
  <2>3. CASE ModeTest(r) \/ Configure(r) \/ FindSdkconfig(r) \/ Finish(r)
    BY <2>3 DEF ModeTest, Configure, FindSdkconfig, Finish
  <2>4. CASE Reap(r) \/ ListProcesses(r) \/ CannotList(r) \/ KillListed(r) \/ KillRaises(r) \/ Pop(r)
    BY <2>4 DEF Reap, ListProcesses, CannotList, KillListed, KillRaises, AfterKill, Pop, AfterReap
  <2>5. CASE MonitorDocker(r) \/ MonitorSdkconfig(r)
    BY <2>5 DEF MonitorDocker, MonitorSdkconfig
  <2>6. CASE \/ DebugDocker(r) \/ StartOpenocd(r) \/ Poll(r) \/ FindGdbinit(r)
             \/ RemoteBuild(r) \/ RemoteGui(r) \/ RemoteGuiFails(r) \/ RemoteStore(r)
             \/ RemotePid(r)
    BY <2>6 DEF DebugDocker, StartOpenocd, Poll, FindGdbinit, RemoteBuild, RemoteGui,
                RemoteGuiFails, RemoteStore, RemotePid
  <2> QED
    BY <2>1, <2>2, <2>3, <2>4, <2>5, <2>6 DEF Statement
<1>4. alive' \subseteq alive \cup {<<r, "gdbgui_server">>} /\ "gdbgui_server" \notin Commands
  BY DEF Statement, Reset, CheckBuild, OpenTmp, WriteTmp, OpenProgram, Translate,
     RefuseProgram, WriteProgram, ModeTest, Configure, FindSdkconfig, Finish, Reap,
     ListProcesses, CannotList, KillListed, KillRaises, AfterKill, Kill, Pop, MonitorDocker,
     MonitorSdkconfig, DebugDocker,
     StartOpenocd, Poll, FindGdbinit, RemoteBuild, RemoteGui, RemoteGuiFails, RemoteStore,
     RemotePid, Commands
<1> QED
  BY <1>1, <1>2, <1>3, <1>4

(* Success is said by the last step of a handler.                          *)
LEMMA StatementSays ==
  ASSUME NEW r \in Requests, TypeOK, Statement(r)
  PROVE  status' = status \/ (Goto(r, "done") /\ status' = [status EXCEPT ![r] = "ok"])
BY DEF Statement, Reset, CheckBuild, OpenTmp, WriteTmp, OpenProgram, Translate,
   RefuseProgram, WriteProgram, ModeTest, Configure, FindSdkconfig, Finish, Reap,
   ListProcesses, CannotList, KillListed, KillRaises, AfterKill, Pop, MonitorDocker,
   MonitorSdkconfig, DebugDocker,
   StartOpenocd, Poll, FindGdbinit, RemoteBuild, RemoteGui, RemoteGuiFails, RemoteStore, RemotePid

(* While r is at work, the others are not and wait for no child.           *)
LEMMA Alone ==
  ASSUME NEW r \in Requests, TypeOK, TurnInv, Busy(r)
  PROVE  \A q \in Requests \ {r} : ~Busy(q) /\ q \notin spawned
<1>1. \A q \in spawned : q \in Requests /\ Busy(q)
  BY DEF TypeOK, TurnInv, Busy, Commands
<1> QED
  BY <1>1 DEF TurnInv

LEMMA MoveTurn ==
  ASSUME NEW r \in Requests, TypeOK, TurnInv, Busy(r), NEW s \in TurnSteps(Kind[r]),
         Goto(r, s), spawned' \subseteq spawned \ {r},
         \A c \in Commands, q \in Requests :
           <<q, c>> \in alive' => <<q, c>> \in alive /\ <<q, c>> # Self(r),
         status' = status \/ (s = "done" /\ status' = [status EXCEPT ![r] = "ok"])
  PROVE  TurnInv'
<1>1. \A q \in Requests \ {r} : pc'[q] = pc[q] /\ ~Busy(q) /\ status'[q] = status[q]
  BY Alone DEF TypeOK
<1>2. pc'[r] = s /\ (status'[r] = "ok" => s = "done")
  <2>1. status[r] # "ok"
    BY DEF TurnInv, Busy
  <2> QED
    BY <2>1 DEF TypeOK
<1>3. spawned' = {}
  BY Alone DEF TypeOK
<1>4. \A c \in Commands, q \in Requests : <<q, c>> \notin alive'
  BY Alone DEF TurnInv, Self
<1> QED
  BY <1>1, <1>2, <1>3, <1>4 DEF TurnInv, Busy

LEMMA StillTurn ==
  ASSUME TypeOK, TurnInv, UNCHANGED <<pc, status>>,
         \A q \in spawned' : pc[q] \in Commands /\ Self(q) \in alive',
         \A c \in Commands, q \in Requests :
           <<q, c>> \in alive' => q \in spawned' /\ c = pc[q]
  PROVE  TurnInv'
BY DEF TurnInv, Busy, Self

LEMMA WorkTurn ==
  ASSUME NEW r \in Requests, TypeOK, TurnInv, Work(r)
  PROVE  TurnInv'
<1>1. CASE Quiet(r)
  <2>1. UNCHANGED <<pc, status, spawned>>
    BY <1>1, QuietStep
  <2>2. \A q \in spawned : pc[q] \in Commands /\ <<q, pc[q]>> \in alive
    BY DEF TurnInv, Self
  <2>3. \A q \in spawned : <<q, pc[q]>> \in alive'
    BY <1>1, <2>2, QuietStep
  <2>4. \A c \in Commands, q \in Requests :
          <<q, c>> \in alive' => q \in spawned' /\ c = pc[q]
    BY <1>1, <2>1, QuietStep DEF TurnInv
  <2> QED
    BY <2>1, <2>2, <2>3, <2>4, StillTurn DEF Self
<1>2. CASE Spawn(r)
  <2>1. UNCHANGED <<pc, status>> /\ spawned' = spawned \cup {r} /\ pc[r] \in Commands
    BY <1>2 DEF Spawn
  <2>2. /\ alive \cup {Self(r)} \subseteq alive'
        /\ alive' \subseteq alive \cup {Self(r), <<r, "job_monitor">>}
    BY <1>2 DEF Spawn
  <2>3. \A q \in spawned' : pc[q] \in Commands /\ Self(q) \in alive'
    BY <2>1, <2>2 DEF TurnInv
  <2>4. \A c \in Commands, q \in Requests :
          <<q, c>> \in alive' => q \in spawned' /\ c = pc[q]
    BY <2>1, <2>2 DEF TurnInv, Commands, Self
  <2> QED
    BY <2>1, <2>3, <2>4, StillTurn
<1> SUFFICES ASSUME ~Quiet(r), ~Spawn(r) PROVE TurnInv'
  BY <1>1, <1>2
<1>3. Busy(r) /\ pc[r] \in TurnSteps(Kind[r])
  BY OwnStep DEF TurnInv
<1>4. CASE Statement(r)
  <2>1. r \notin spawned /\ spawned' = spawned
    BY <1>3, <1>4, StatementGoes DEF TurnInv
  <2>2. CASE pc' = pc
    <3>1. status' = status
      <4>1. pc[r] # "done"
        BY <1>3 DEF Busy
      <4> QED
        BY <1>4, <2>2, <4>1, StatementSays DEF TypeOK
    <3>2. \A q \in spawned : FALSE
      BY <1>3, <2>1, Alone DEF TypeOK
    <3>3. \A c \in Commands, q \in Requests :
            <<q, c>> \in alive' => q \in spawned' /\ c = pc[q]
      BY <1>3, <1>4, <2>1, StatementGoes DEF TurnInv
    <3> QED
      BY <2>1, <2>2, <3>1, <3>2, <3>3, StillTurn
  <2>3. CASE pc' # pc
    <3>1. PICK s \in TurnSteps(Kind[r]) : Goto(r, s)
      BY <1>3, <1>4, <2>3, StatementGoes
    <3>2. status' = status \/ (s = "done" /\ status' = [status EXCEPT ![r] = "ok"])
      <4>1. pc'[r] = s /\ (Goto(r, "done") => pc'[r] = "done")
        BY <3>1 DEF TypeOK
      <4> QED
        BY <1>4, <4>1, StatementSays
    <3>3. spawned' \subseteq spawned \ {r}
      BY <2>1
    <3>4. \A c \in Commands, q \in Requests :
            <<q, c>> \in alive' => <<q, c>> \in alive /\ <<q, c>> # Self(r)
      BY <1>3, <1>4, StatementGoes DEF Self
    <3> QED
      BY <1>3, <3>1, <3>2, <3>3, <3>4, MoveTurn
  <2> QED
    BY <2>2, <2>3
<1>5. CASE CannotStart(r) \/ Ending(r)
  <2>1. /\ pc[r] \in Commands /\ Over(r) /\ status' = status
        /\ spawned' \subseteq spawned \ {r}
        /\ alive' \subseteq alive \ {Self(r)}
    <3>1. CASE CannotStart(r)
      <4>1. Self(r) \notin alive
        BY <3>1 DEF CannotStart, TurnInv, Self
      <4> QED
        BY <3>1, <4>1 DEF CannotStart, Over
    <3>2. CASE Ending(r)
      <4>1. ~KilledExit(r)
        BY DEF KilledExit, TurnInv
      <4> QED
        BY <3>2, <4>1, EndingStep
    <3> QED
      BY <1>5, <3>1, <3>2
  <2>2. PICK s \in {Following(r), "done"} : Goto(r, s)
    BY <2>1, OverStep
  <2>3. s \in TurnSteps(Kind[r])
    BY <1>3, <2>1, FollowingTurn
  <2> QED
    BY <1>3, <2>1, <2>2, <2>3, MoveTurn
<1>6. CASE GdbguiExits(r) \/ RemoteMonitorExits(r)
  <2>1. /\ pc[r] \in Commands /\ Goto(r, "done") /\ spawned' = spawned \ {r}
        /\ alive' = alive \ {Self(r)}
        /\ status' = status \/ status' = [status EXCEPT ![r] = "ok"]
    BY <1>6 DEF GdbguiExits, RemoteMonitorExits, Commands
  <2>2. "done" \in TurnSteps(Kind[r])
    BY <1>3, <2>1, FollowingTurn
  <2> QED
    BY <1>3, <2>1, <2>2, MoveTurn
<1> QED
  BY <1>4, <1>5, <1>6, WorkCases

LEMMA AcceptTurn ==
  ASSUME NEW r \in Requests, TypeOK, TurnInv, Turn(r)
  PROVE  TurnInv'
<1>1. First(Kind[r]) \in TurnSteps(Kind[r])
  BY GatewayAssumption DEF Kinds, First, TurnSteps, StepsOf, JobSteps, CleanSteps, Steps
<1>2. \A q \in Requests : ~Busy(q) /\ q \notin spawned
  BY DEF Turn, Busy, TurnInv, Commands
<1>3. spawned' = spawned /\ status' = status /\ Goto(r, First(Kind[r])) /\ pc[r] = "idle"
  BY DEF Turn, Accept
<1>4. pc'[r] = First(Kind[r]) /\ \A q \in Requests \ {r} : pc'[q] = pc[q]
  BY <1>3 DEF TypeOK
<1>6. \A c \in Commands, q \in Requests : <<q, c>> \notin alive'
  BY <1>2 DEF TurnInv, Turn, Accept
<1>5. spawned' = {} /\ \A q \in Requests : status'[q] = "ok" => q # r
  BY <1>2, <1>3 DEF TypeOK, TurnInv
<1> QED
  BY <1>1, <1>2, <1>3, <1>4, <1>5, <1>6 DEF TurnInv, Busy

LEMMA InitTurn == Init => TurnInv
<1> SUFFICES ASSUME Init PROVE TurnInv
  OBVIOUS
<1>1. \A r \in Requests : pc[r] = "idle" /\ status[r] = ""
  BY DEF Init
<1>2. \A k : "idle" \in TurnSteps(k)
  BY DEF TurnSteps, StepsOf, JobSteps, CleanSteps, Steps
<1>3. spawned = {} /\ alive = {}
  BY DEF Init
<1> QED
  BY <1>1, <1>2, <1>3 DEF TurnInv, Busy

LEMMA NextTurn == TypeOK /\ TurnInv /\ [NextTurns]_vars => TurnInv'
<1> SUFFICES ASSUME TypeOK, TurnInv, [NextTurns]_vars PROVE TurnInv'
  OBVIOUS
<1>1. ASSUME NEW r \in Requests, Turn(r) \/ Work(r) PROVE TurnInv'
  BY <1>1, WorkTurn, AcceptTurn
<1>2. CASE UNCHANGED vars
  BY <1>2 DEF vars, TurnInv, Busy, Self
<1> QED
  BY <1>1, <1>2 DEF NextTurns, Terminating

(* Taking turns only restricts when requests are sent.                     *)
LEMMA TurnsSpec == SpecTurns => Spec
<1>1. [NextTurns]_vars => [Next]_vars
  BY DEF NextTurns, Next, Turn
<1> QED
  BY <1>1, PTL DEF SpecTurns, Spec

(* Of users who take turns only one is served at a time, and no command of *)
(* theirs is ended by another request: the reason why app.run's threads    *)
(* without a lock do no harm to a single careful user.                     *)
THEOREM TurnInvariant == SpecTurns => []TurnInv
BY InitTurn, NextTurn, TurnsSpec, TypeCorrect, PTL DEF SpecTurns

-----------------------------------------------------------------------------
(***************************************************************************)
(* The facts about one handler are only disturbed by its own steps.        *)
(***************************************************************************)
LEMMA OthersRest ==
  ASSUME NEW r \in Requests, TypeOK, TurnInv, Turn(r) \/ (Work(r) /\ ~Quiet(r))
  PROVE  \A q \in Requests \ {r} :
           pc'[q] = pc[q] /\ pc[q] \in {"idle", "done"} /\ q \notin spawned'
<1>1. CASE Turn(r)
  <2>1. spawned' = spawned /\ Goto(r, First(Kind[r]))
    BY <1>1 DEF Turn, Accept
  <2>2. \A q \in Requests : pc[q] \in {"idle", "done"} /\ q \notin spawned
    BY <1>1 DEF Turn, TurnInv, Commands
  <2> QED
    BY <2>1, <2>2 DEF TypeOK
<1>2. CASE Work(r) /\ ~Quiet(r)
  <2>1. Busy(r) /\ pc[r] \in TurnSteps(Kind[r])
    BY <1>2, OwnStep DEF TurnInv
  <2>2. \A q \in Requests \ {r} : pc[q] \in {"idle", "done"} /\ q \notin spawned
    BY <2>1, Alone DEF Busy
  <2>3. spawned' \subseteq spawned \cup {r} /\ (pc' = pc \/ \E s : Goto(r, s))
    <3>1. CASE Statement(r)
      BY <2>1, <3>1, StatementGoes
    <3>2. CASE Spawn(r) \/ GdbguiExits(r) \/ RemoteMonitorExits(r)
      BY <3>2 DEF Spawn, GdbguiExits, RemoteMonitorExits
    <3>3. CASE CannotStart(r) \/ Ending(r)
      <4>1. Over(r) /\ spawned' \subseteq spawned
        BY <3>3, EndingStep DEF CannotStart, Over
      <4> QED
        BY <4>1, OverStep
    <3> QED
      BY <1>2, <3>1, <3>2, <3>3, WorkCases
  <2>4. \A q \in Requests \ {r} : pc'[q] = pc[q]
    BY <2>3 DEF TypeOK
  <2> QED
    BY <2>2, <2>3, <2>4
<1> QED
  BY <1>1, <1>2

-----------------------------------------------------------------------------
(***************************************************************************)
(* TextInv: the assembly of a request reaches main/program.s untouched.    *)
(***************************************************************************)
LEMMA RestText ==
  ASSUME NEW q \in Requests, pc'[q] \in {"idle", "done"}, q \notin spawned'
  PROVE  TextFacts(q)'
BY DEF TextFacts, Sent, Written

LEMMA OwnText ==
  ASSUME NEW r \in Requests, TypeOK, TurnInv, TextInv,
         Turn(r) \/ (Work(r) /\ ~Quiet(r)),
         Kind[r] \in {"flash", "job"} => TextFacts(r)'
  PROVE  TextInv'
<1>1. \A q \in Requests \ {r} : TextFacts(q)'
  BY OthersRest, RestText
<1> QED
  BY <1>1 DEF TextInv

(* The routes that bring a program.                                        *)
LEMMA TextSteps ==
  ASSUME NEW r \in Requests, TurnInv, Kind[r] \in {"flash", "job"}
  PROVE  pc[r] \in StepsOf("flash") \cup JobSteps
BY DEF TurnInv, TurnSteps

LEMMA StatementText ==
  ASSUME NEW r \in Requests, TypeOK, TurnInv, TextInv, Statement(r),
         Kind[r] \in {"flash", "job"}
  PROVE  TextFacts(r)'
<1> USE DEF TextFacts, Sent, Written
<1>0. TextFacts(r) /\ r \notin spawned'
  BY StatementGoes DEF TextInv, TurnInv
<1>1. CASE Reset(r) \/ CheckBuild(r)
  <2>1. \E s \in {"check_build", "reap", "open_program"} : Goto(r, s)
    BY <1>1 DEF Reset, CheckBuild, AfterCheck
  <2>2. UNCHANGED tmp_assembly /\ pc[r] \in Sent
    BY <1>1 DEF Reset, CheckBuild
  <2> QED
    BY <1>0, <2>1, <2>2 DEF TypeOK
<1>2. CASE OpenTmp(r)
  BY <1>0, <1>2 DEF TypeOK, OpenTmp
<1>3. CASE WriteTmp(r)
  BY <1>0, <1>3 DEF TypeOK, WriteTmp, Overlay
<1>4. CASE OpenProgram(r)
  BY <1>0, <1>4 DEF TypeOK, OpenProgram
<1>5. CASE Translate(r)
  BY <1>0, <1>5 DEF TypeOK, Translate
<1>6. CASE RefuseProgram(r)
  BY <1>0, <1>6 DEF TypeOK, RefuseProgram
<1>7. CASE WriteProgram(r)
  <2>1. program' = [program EXCEPT ![dir[r]] = [asm |-> r, board |-> Target[r]]]
    BY <1>0, <1>7 DEF WriteProgram, Overlay
  <2>2. UNCHANGED BUILD_PATH /\ Goto(r, "mode_test") /\ dir[r] = BUILD_PATH
    BY <1>0, <1>7 DEF WriteProgram
  <2>3. program'[BUILD_PATH'] = [asm |-> r, board |-> Target[r]]
    BY <2>1, <2>2 DEF TypeOK
  <2> QED
    BY <1>0, <2>2, <2>3 DEF TypeOK
<1>8. CASE ModeTest(r) \/ FindSdkconfig(r) \/ Finish(r)
  <2>1. PICK s \in {"fullclean", "fullclean_cwd", "configure", "build", "sed", "set_target",
                     "done"} : Goto(r, s)
    BY <1>8 DEF ModeTest, FindSdkconfig, Finish
  <2>2. /\ UNCHANGED program /\ UNCHANGED BUILD_PATH /\ UNCHANGED dir
        /\ s = "sed" => At(r, "find_sdkconfig")
        /\ s # "done" => pc[r] \in Written
    BY <1>8, <2>1 DEF ModeTest, FindSdkconfig, Finish, TypeOK
  <2>3. pc'[r] = s
    BY <2>1 DEF TypeOK
  <2> QED
    BY <1>0, <2>2, <2>3
<1>9. CASE Configure(r)
  BY <1>0, <1>9 DEF TypeOK, Configure
<1>10. CASE Reap(r) \/ ListProcesses(r) \/ CannotList(r) \/ KillListed(r) \/ KillRaises(r) \/ Pop(r)
  <2>1. Kind[r] = "flash"
    BY <1>10 DEF Reap, ListProcesses, CannotList, KillListed, KillRaises, AfterKill, Pop,
       TurnInv, TurnSteps, JobSteps
  <2>2. \E s \in {"reap", "ps", "kill", "pop", "open_program"} : Goto(r, s)
    BY <1>10, <2>1 DEF Reap, ListProcesses, CannotList, KillListed, KillRaises, AfterKill, Pop,
       AfterReap
  <2>3. pc[r] \in Sent
    BY <1>10 DEF Reap, ListProcesses, CannotList, KillListed, KillRaises, AfterKill, Pop
  <2>4. UNCHANGED <<tmp_assembly>>
    BY <1>10 DEF Reap, ListProcesses, CannotList, KillListed, KillRaises, AfterKill, Pop
  <2> QED
    BY <1>0, <2>2, <2>3, <2>4 DEF TypeOK
<1>11. CASE \/ MonitorDocker(r) \/ MonitorSdkconfig(r)
            \/ DebugDocker(r) \/ StartOpenocd(r) \/ Poll(r) \/ FindGdbinit(r)
            \/ RemoteBuild(r) \/ RemoteGui(r) \/ RemoteGuiFails(r) \/ RemoteStore(r)
            \/ RemotePid(r)
  <2>1. pc[r] \notin {"docker", "start_openocd", "poll", "gdbinit", "remote_build",
                     "remote_gui", "remote_store", "remote_pid"}
    BY TextSteps DEF StepsOf, JobSteps
  <2> QED
    BY <1>11, <2>1 DEF MonitorDocker, MonitorSdkconfig, DebugDocker, StartOpenocd, Poll,
       FindGdbinit, RemoteBuild, RemoteGui, RemoteGuiFails, RemoteStore, RemotePid
<1> QED
  BY <1>1, <1>2, <1>3, <1>4, <1>5, <1>6, <1>7, <1>8, <1>9, <1>10, <1>11 DEF Statement

LEMMA CommandText ==
  ASSUME NEW r \in Requests, TypeOK, TurnInv, TextInv, Kind[r] \in {"flash", "job"},
         \/ Spawn(r) \/ CannotStart(r) \/ Ending(r)
         \/ GdbguiExits(r) \/ RemoteMonitorExits(r)
  PROVE  TextFacts(r)'
<1> USE DEF TextFacts, Sent, Written
<1>0. TextFacts(r) /\ pc[r] \in StepsOf("flash") \cup JobSteps
  BY TextSteps DEF TextInv
<1>1. CASE Spawn(r)
  <2>1. /\ UNCHANGED <<pc, BUILD_PATH, tmp_assembly, program, held>>
        /\ pc[r] \in Commands
        /\ dir'[r] = IF pc[r] \in ArgsAtHand THEN dir[r] ELSE BUILD_PATH
    BY <1>1 DEF Spawn, TypeOK
  <2>2. dir'[r] = BUILD_PATH'
    BY <1>0, <2>1 DEF ArgsAtHand, StepsOf, JobSteps
  <2> QED
    BY <1>0, <2>1, <2>2 DEF Commands
<1>2. CASE CannotStart(r) \/ Ending(r)
  <2>1. /\ UNCHANGED <<BUILD_PATH, tmp_assembly, program, held, dir>>
        /\ pc[r] \in Commands /\ Over(r) /\ r \notin spawned'
    <3>1. CASE CannotStart(r)
      BY <3>1 DEF CannotStart, Over
    <3>2. CASE Ending(r)
      BY <3>2, EndingStep
    <3> QED
      BY <1>2, <3>1, <3>2
  <2>2. PICK s \in {Following(r), "done"} : Goto(r, s)
    BY <2>1, OverStep
  <2>3. s \in {"configure", "set_target", "build", "flash"} => pc[r] \in Written
    BY DEF Following
  <2>4. s \notin Sent \cup {"write_tmp", "write_program", "find_sdkconfig", "sed"}
    BY DEF Following
  <2>5. pc'[r] = s
    BY <2>2 DEF TypeOK
  <2>6. s \in Written => s \in {"configure", "set_target", "build", "flash"}
    BY DEF Following
  <2> QED
    BY <1>0, <2>1, <2>3, <2>4, <2>5, <2>6
<1>3. CASE GdbguiExits(r) \/ RemoteMonitorExits(r)
  BY <1>0, <1>3 DEF GdbguiExits, RemoteMonitorExits, StepsOf, JobSteps
<1> QED
  BY <1>1, <1>2, <1>3

LEMMA AcceptText ==
  ASSUME NEW r \in Requests, TypeOK, TurnInv, TextInv, Turn(r)
  PROVE  TextInv'
<1>1. ASSUME Kind[r] \in {"flash", "job"} PROVE TextFacts(r)'
  <2>1. pc'[r] = "open_tmp" /\ r \notin spawned'
    BY <1>1 DEF Turn, Accept, First, TypeOK, TurnInv, Commands
  <2> QED
    BY <2>1 DEF TextFacts, Sent, Written
<1> QED
  BY <1>1, OwnText

LEMMA QuietText ==
  ASSUME NEW r \in Requests, TextInv, Quiet(r) PROVE TextInv'
BY QuietStep DEF TextInv, TextFacts

LEMMA InitText == Init => TextInv
<1>1. Init => \A r \in Requests : pc[r] = "idle" /\ r \notin spawned
  BY DEF Init
<1> QED
  BY <1>1 DEF TextInv, TextFacts, Sent, Written

LEMMA NextText == TypeOK /\ TurnInv /\ TextInv /\ [NextTurns]_vars => TextInv'
<1> SUFFICES ASSUME TypeOK, TurnInv, TextInv, [NextTurns]_vars PROVE TextInv'
  OBVIOUS
<1>1. ASSUME NEW r \in Requests, Turn(r) \/ Work(r) PROVE TextInv'
  BY <1>1, AcceptText, QuietText, OwnText, StatementText, CommandText, WorkCases
<1>2. CASE UNCHANGED vars
  BY <1>2 DEF vars, TextInv, TextFacts
<1> QED
  BY <1>1, <1>2 DEF NextTurns, Terminating

-----------------------------------------------------------------------------
(***************************************************************************)
(* FlashInv.  Two things the code relies on are hypotheses here.  No       *)
(* command outlives the 300 seconds of do_cmd or cannot be started: do_cmd *)
(* would return the code of an earlier command (the finding of gw_x_stale).*)
(* And the board belongs to a family do_flash_request knows: for another   *)
(* one it writes no sdkconfig.defaults and leaves what an earlier flash    *)
(* wrote there.                                                            *)
(***************************************************************************)
CommandsRun == "start" \notin Faults /\ "timeout" \notin Faults
KnownBoards == \A r \in Requests : Kind[r] = "flash" => OptionsFor(Target[r]) # None

(* A command that failed is only passed over where its result is not used. *)
LEMMA BadEnding ==
  ASSUME NEW r \in Requests, TypeOK, TurnInv, CommandsRun, Fails(r) \/ KilledExit(r)
  PROVE  Fails(r) /\ Return(r, "bad") /\ Partial(r)
<1>1. ~KilledExit(r)
  BY DEF KilledExit, TurnInv
<1> QED
  BY <1>1 DEF Fails

(* A command that succeeds is the one its handler waits for.               *)
Success(r) ==
  \/ FullClean(r) \/ RemoveBuild(r) \/ Sed(r) \/ SetTarget(r) \/ Build(r)
  \/ Flash(r) \/ EraseFlash(r) \/ ReadOnly(r) \/ CatOutput(r) \/ RemoveOutput(r)

LEMMA SuccessWaits ==
  ASSUME NEW r \in Requests, TurnInv, Success(r)
  PROVE  r \in spawned
<1>1. \E c \in Commands : Exits(r, c)
  BY DEF Success, FullClean, RemoveBuild, Sed, SetTarget, Build, Flash, EraseFlash, ReadOnly,
         CatOutput, RemoveOutput, Commands
<1> QED
  BY <1>1 DEF Exits, TurnInv, Self

LEMMA RestFlash ==
  ASSUME NEW q \in Requests, pc'[q] \in {"idle", "done"}
  PROVE  FlashFacts(q)'
BY DEF FlashFacts

LEMMA StatementFlash ==
  ASSUME NEW r \in Requests, KnownBoards, TypeOK, TurnInv, FlashInv, Statement(r),
         Kind[r] = "flash"
  PROVE  FlashFacts(r)'
<1>0. FlashFacts(r) /\ pc[r] \in StepsOf("flash")
  BY DEF FlashInv, TurnInv, TurnSteps
<1>1. CASE Configure(r)
  <2>1. defaults'[BUILD_PATH'] = OptionsFor(Target[r])
    BY <1>1 DEF Configure, KnownBoards, TypeOK
  <2>2. pc'[r] = "find_sdkconfig"
    BY <1>1 DEF Configure, TypeOK
  <2> QED
    BY <2>1, <2>2 DEF FlashFacts
<1>2. CASE FindSdkconfig(r)
  <2>1. pc'[r] \in {"sed", "set_target"} /\ At(r, "find_sdkconfig")
    BY <1>2 DEF FindSdkconfig, TypeOK
  <2>2. UNCHANGED defaults /\ UNCHANGED BUILD_PATH
    BY <1>2 DEF FindSdkconfig
  <2> QED
    BY <1>0, <2>1, <2>2 DEF FlashFacts
<1>3. CASE ~Configure(r) /\ ~FindSdkconfig(r)
  <2> DEFINE Late == {"find_sdkconfig", "sed", "set_target", "build", "flash", "finish"}
  <2>1. PICK s : s \notin Late /\ Goto(r, s)
    <3>1. CASE Reset(r) \/ CheckBuild(r) \/ OpenTmp(r) \/ WriteTmp(r) \/ Finish(r)
      BY <3>1 DEF Reset, CheckBuild, AfterCheck, OpenTmp, WriteTmp, Finish
    <3>2. CASE OpenProgram(r) \/ Translate(r) \/ RefuseProgram(r) \/ WriteProgram(r) \/ ModeTest(r)
      BY <3>2 DEF OpenProgram, Translate, RefuseProgram, WriteProgram, ModeTest
    <3>3. CASE Reap(r) \/ ListProcesses(r) \/ CannotList(r) \/ KillListed(r) \/ KillRaises(r) \/ Pop(r)
      BY <3>3 DEF Reap, ListProcesses, CannotList, KillListed, KillRaises, AfterKill, Pop,
         AfterReap
    <3>4. CASE \/ MonitorDocker(r) \/ MonitorSdkconfig(r)
               \/ DebugDocker(r) \/ StartOpenocd(r) \/ Poll(r) \/ FindGdbinit(r)
               \/ RemoteBuild(r) \/ RemoteGui(r) \/ RemoteGuiFails(r) \/ RemoteStore(r)
               \/ RemotePid(r)
      BY <1>0, <3>4 DEF StepsOf, MonitorDocker, MonitorSdkconfig, DebugDocker, StartOpenocd,
         Poll, FindGdbinit, RemoteBuild, RemoteGui, RemoteGuiFails, RemoteStore, RemotePid
    <3> QED
      BY <1>3, <3>1, <3>2, <3>3, <3>4 DEF Statement
  <2>2. pc'[r] = s
    BY <2>1 DEF TypeOK
  <2> QED
    BY <2>1, <2>2 DEF FlashFacts
<1> QED
  BY <1>1, <1>2, <1>3

(* set-target makes the configuration asked for, and idf.py flash puts the *)
(* image built from it on the board.                                       *)
LEMMA SuccessFlash ==
  ASSUME NEW r \in Requests, TypeOK, TurnInv, TextInv, FlashInv, Kind[r] = "flash", Success(r)
  PROVE  FlashFacts(r)'
<1>0. FlashFacts(r) /\ TextFacts(r) /\ pc[r] \in StepsOf("flash") /\ r \in spawned
  BY SuccessWaits DEF FlashInv, TextInv, TurnInv, TurnSteps
<1>1. UNCHANGED BUILD_PATH /\ UNCHANGED defaults
  BY DEF Success, FullClean, RemoveBuild, Sed, SetTarget, Build, Flash, EraseFlash, ReadOnly,
     CatOutput,
         RemoveOutput, CommandFrame
<1>2. pc'[r] = Following(r)
  BY DEF Success, FullClean, RemoveBuild, Sed, SetTarget, Build, Flash, EraseFlash, ReadOnly,
     CatOutput,
         RemoveOutput, Return, Resume, TypeOK
<1>3. ~RemoveBuild(r) /\ ~EraseFlash(r) /\ ~ReadOnly(r) /\ ~CatOutput(r) /\ ~RemoveOutput(r)
  BY <1>0 DEF RemoveBuild, EraseFlash, ReadOnly, CatOutput, RemoveOutput, Exits, StepsOf
<1>4. CASE FullClean(r)
  <2>1. pc'[r] = "configure"
    BY <1>2, <1>4 DEF FullClean, Exits, Following
  <2> QED
    BY <2>1 DEF FlashFacts
<1>5. CASE Sed(r)
  <2>1. pc'[r] = "set_target" /\ At(r, "sed")
    BY <1>2, <1>5 DEF Sed, Exits, Following
  <2> QED
    BY <1>0, <1>1, <2>1 DEF FlashFacts
<1>6. CASE SetTarget(r)
  <2>1. pc'[r] = "build" /\ At(r, "set_target")
    BY <1>2, <1>6 DEF SetTarget, Exits, Following
  <2>2. dir[r] = BUILD_PATH /\ dir[r] \in Projects
    BY <1>0, <1>6 DEF TextFacts, TypeOK
  <2>3. Configured(r) = WantedConfig(r)
    BY <1>0, <2>1, <2>2 DEF FlashFacts, Configured, WantedConfig
  <2>4. sdkconfig'[BUILD_PATH'] = WantedConfig(r)
    BY <1>1, <1>6, <2>2, <2>3 DEF SetTarget, TypeOK
  <2> QED
    BY <2>1, <2>4 DEF FlashFacts
<1>7. CASE Build(r)
  <2>1. pc'[r] = "flash" /\ At(r, "build") /\ UNCHANGED sdkconfig
    BY <1>2, <1>7 DEF Build, Exits, Following
  <2> QED
    BY <1>0, <1>1, <2>1 DEF FlashFacts
<1>8. CASE Flash(r)
  <2>1. pc'[r] = "finish" /\ At(r, "flash")
    BY <1>2, <1>8 DEF Flash, Exits, Following
  <2>2. dir[r] = BUILD_PATH
    BY <1>0, <1>8 DEF TextFacts
  <2>3. program[BUILD_PATH] = [asm |-> r, board |-> Target[r]]
    BY <1>0, <2>1 DEF TextFacts, Written
  <2>4. sdkconfig[BUILD_PATH] = WantedConfig(r)
    BY <1>0, <2>1 DEF FlashFacts
  <2>5. ImageOf(dir[r]) = Wanted(r)
    BY <2>2, <2>3, <2>4 DEF ImageOf, Wanted, WantedConfig
  <2>6. board'[Port[r]] = Wanted(r)
    BY <1>8, <2>5, GatewayAssumption DEF Flash, TypeOK
  <2>7. Wanted(r)' = Wanted(r)
    BY DEF Wanted
  <2> QED
    BY <2>1, <2>6, <2>7 DEF FlashFacts
<1> QED
  BY <1>3, <1>4, <1>5, <1>6, <1>7, <1>8 DEF Success

(* Every other way a command of a /flash ends leads to "done", but for sed *)
(* on an sdkconfig that set-target is going to replace.                    *)
LEMMA CommandFlash ==
  ASSUME NEW r \in Requests, CommandsRun, TypeOK, TurnInv, TextInv, FlashInv,
         Kind[r] = "flash",
         \/ Spawn(r) \/ CannotStart(r) \/ Ending(r)
         \/ GdbguiExits(r) \/ RemoteMonitorExits(r)
  PROVE  FlashFacts(r)'
<1>0. FlashFacts(r) /\ pc[r] \in StepsOf("flash")
  BY DEF FlashInv, TurnInv, TurnSteps
<1>1. CASE Spawn(r)
  <2>1. /\ UNCHANGED pc /\ UNCHANGED defaults /\ UNCHANGED sdkconfig
        /\ UNCHANGED board /\ UNCHANGED BUILD_PATH
    BY <1>1 DEF Spawn
  <2> QED
    BY <1>0, <2>1 DEF FlashFacts
<1>2. CASE CannotStart(r)
  BY <1>2 DEF CannotStart, CommandsRun
<1>3. CASE GdbguiExits(r) \/ RemoteMonitorExits(r)
  BY <1>0, <1>3 DEF GdbguiExits, RemoteMonitorExits, StepsOf
<1>4. CASE Success(r)
  BY <1>4, SuccessFlash
<1>5. CASE Fails(r) \/ KilledExit(r)
  <2>1. Fails(r) /\ Return(r, "bad")
    BY <1>5, BadEnding
  <2>2. UNCHANGED defaults /\ UNCHANGED BUILD_PATH
    BY <2>1 DEF Fails, CommandFrame
  <2>3. pc'[r] = IF IgnoresResult(r) THEN Following(r) ELSE "done"
    BY <2>1 DEF Return, Resume, TypeOK
  <2>4. IgnoresResult(r) => At(r, "sed") /\ Following(r) = "set_target"
    BY <1>0 DEF IgnoresResult, StepsOf, Following
  <2> QED
    BY <1>0, <2>2, <2>3, <2>4 DEF FlashFacts
<1>6. CASE TimesOut(r) \/ JobMonitorEnds(r)
  BY <1>0, <1>6 DEF TimesOut, JobMonitorEnds, CommandsRun, StepsOf
<1> QED
  BY <1>1, <1>2, <1>3, <1>4, <1>5, <1>6 DEF Ending, Success

LEMMA QuietFlash ==
  ASSUME NEW r \in Requests, FlashInv, Quiet(r) PROVE FlashInv'
<1>1. /\ UNCHANGED pc /\ UNCHANGED defaults /\ UNCHANGED sdkconfig
      /\ UNCHANGED board /\ UNCHANGED BUILD_PATH
  BY QuietStep
<1> QED
  BY <1>1 DEF FlashInv, FlashFacts

LEMMA NextFlash ==
  ASSUME CommandsRun, KnownBoards
  PROVE  TypeOK /\ TurnInv /\ TextInv /\ FlashInv /\ [NextTurns]_vars => FlashInv'
<1> SUFFICES ASSUME TypeOK, TurnInv, TextInv, FlashInv, [NextTurns]_vars PROVE FlashInv'
  OBVIOUS
<1>1. ASSUME NEW r \in Requests, Turn(r) \/ Work(r) PROVE FlashInv'
  <2>1. CASE Quiet(r)
    BY <2>1, QuietFlash
  <2>2. CASE Turn(r) \/ (Work(r) /\ ~Quiet(r))
    <3>1. \A q \in Requests \ {r} : FlashFacts(q)'
      BY <2>2, OthersRest, RestFlash
    <3>2. Turn(r) /\ Kind[r] = "flash" => FlashFacts(r)'
      BY DEF Turn, Accept, First, TypeOK, FlashFacts
    <3>3. Work(r) /\ ~Quiet(r) /\ Kind[r] = "flash" => FlashFacts(r)'
      BY StatementFlash, CommandFlash, WorkCases
    <3> QED
      BY <2>2, <3>1, <3>2, <3>3 DEF FlashInv
  <2> QED
    BY <1>1, <2>1, <2>2
<1>2. CASE UNCHANGED vars
  BY <1>2 DEF vars, FlashInv, FlashFacts
<1> QED
  BY <1>1, <1>2 DEF NextTurns, Terminating

LEMMA InitFlash == Init => FlashInv
<1>1. Init => \A r \in Requests : pc[r] = "idle"
  BY DEF Init
<1> QED
  BY <1>1 DEF FlashInv, FlashFacts

(* At each step of a /flash the configuration, the image and the board are  *)
(* as far as they should be (do_flash_request, gateway.py:352-467).        *)
THEOREM FlashInvariant == ASSUME CommandsRun, KnownBoards PROVE SpecTurns => []FlashInv
<1>1. Init => TextInv /\ FlashInv
  BY InitText, InitFlash
<1>2. TypeOK /\ TurnInv /\ TextInv /\ [NextTurns]_vars => TextInv'
  BY NextText
<1>3. TypeOK /\ TurnInv /\ TextInv /\ FlashInv /\ [NextTurns]_vars => FlashInv'
  BY NextFlash
<1> QED
  BY <1>1, <1>2, <1>3, TurnInvariant, TurnsSpec, TypeCorrect, PTL DEF SpecTurns

-----------------------------------------------------------------------------
(***************************************************************************)
(* Who says "ok", and when.                                                *)
(***************************************************************************)
LEMMA SaysStep ==
  ASSUME NEW r \in Requests, TypeOK, TurnInv, [NextTurns]_vars, Says(r)
  PROVE  /\ Work(r) /\ ~Quiet(r) /\ UNCHANGED board
         /\ \/ Finish(r)
            \/ KillListed(r) /\ Kind[r] = "stopmonitor"
            \/ RemoteMonitorExits(r)
<1>1. ~UNCHANGED status
  BY DEF Says
<1>2. PICK q \in Requests : Work(q) /\ ~Quiet(q)
  BY <1>1, QuietStep DEF NextTurns, Terminating, vars, Turn, Accept
<1>3. ~Spawn(q) /\ ~CannotStart(q) /\ ~Ending(q) /\ ~GdbguiExits(q)
  BY <1>1, EndingStep DEF Spawn, CannotStart, GdbguiExits
<1>4. \/ Finish(q)
      \/ KillListed(q) /\ Kind[q] = "stopmonitor"
      \/ RemoteMonitorExits(q)
  <2>1. Statement(q) \/ RemoteMonitorExits(q)
    BY <1>2, <1>3, WorkCases
  <2> QED
    BY <1>1, <2>1 DEF Statement, Reset, CheckBuild, OpenTmp, WriteTmp, OpenProgram, Translate,
       RefuseProgram, WriteProgram, ModeTest, Configure, FindSdkconfig, Reap,
       ListProcesses, CannotList, KillListed, KillRaises, AfterKill, Pop, MonitorDocker,
       MonitorSdkconfig, DebugDocker,
       StartOpenocd, Poll, FindGdbinit, RemoteBuild, RemoteGui, RemoteGuiFails, RemoteStore,
       RemotePid
<1>5. UNCHANGED board /\ (status' = status \/ status' = [status EXCEPT ![q] = "ok"])
  BY <1>4 DEF Finish, KillListed, RemoteMonitorExits
<1>6. q = r
  BY <1>1, <1>5 DEF Says, TypeOK
<1> QED
  BY <1>2, <1>4, <1>5, <1>6

(* Whatever /flash requests there are: when one of them is told that its   *)
(* flash is completed, the board at its port holds its own program, built  *)
(* for its board with the debugging options of the family                  *)
(* (do_flash_request, gateway.py:352-467).                                 *)
THEOREM FlashIsSound == ASSUME CommandsRun, KnownBoards PROVE SpecTurns => FlashSound
<1>1. TypeOK /\ TurnInv /\ FlashInv /\ [NextTurns]_vars =>
        [\A r \in Requests : Kind[r] = "flash" /\ Says(r) => board[Port[r]] = Wanted(r)]_vars
  <2> SUFFICES ASSUME TypeOK, TurnInv, FlashInv, [NextTurns]_vars, NEW r \in Requests,
                      Kind[r] = "flash", Says(r)
               PROVE  board[Port[r]] = Wanted(r)
    OBVIOUS
  <2>1. pc[r] \in StepsOf("flash") /\ FlashFacts(r)
    BY DEF TurnInv, TurnSteps, FlashInv
  <2>2. At(r, "finish")
    BY <2>1, SaysStep DEF Finish, KillListed, RemoteMonitorExits, StepsOf
  <2> QED
    BY <2>1, <2>2 DEF FlashFacts
<1> QED
  BY <1>1, FlashInvariant, TurnInvariant, TurnsSpec, TypeCorrect, PTL DEF SpecTurns, FlashSound

-----------------------------------------------------------------------------
(***************************************************************************)
(* JobInv: from its flash to its answer a /job leaves the board alone.     *)
(***************************************************************************)
Shown == {"gateway_monitor", "cat", "rm_output", "finish"}

LEMMA StatementJob ==
  ASSUME NEW r \in Requests, TypeOK, TurnInv, JobInv, Statement(r), Kind[r] = "job"
  PROVE  JobFacts(r)'
<1>0. pc[r] \in JobSteps
  BY DEF TurnInv, TurnSteps
<1>1. PICK s : s \notin Shown /\ Goto(r, s)
  <2>1. CASE Reset(r) \/ CheckBuild(r) \/ OpenTmp(r) \/ WriteTmp(r) \/ Finish(r)
    BY <2>1 DEF Shown, Reset, CheckBuild, AfterCheck, OpenTmp, WriteTmp, Finish
  <2>2. CASE \/ OpenProgram(r) \/ Translate(r) \/ RefuseProgram(r) \/ WriteProgram(r)
             \/ ModeTest(r) \/ Configure(r)
    BY <2>2 DEF Shown, OpenProgram, Translate, RefuseProgram, WriteProgram, ModeTest, Configure
  <2>3. CASE \/ Reap(r) \/ ListProcesses(r) \/ CannotList(r) \/ KillListed(r) \/ KillRaises(r)
             \/ Pop(r)
             \/ FindSdkconfig(r) \/ MonitorDocker(r) \/ MonitorSdkconfig(r)
             \/ DebugDocker(r) \/ StartOpenocd(r) \/ Poll(r) \/ FindGdbinit(r)
             \/ RemoteBuild(r) \/ RemoteGui(r) \/ RemoteGuiFails(r) \/ RemoteStore(r)
             \/ RemotePid(r)
    BY <1>0, <2>3 DEF JobSteps, Reap, ListProcesses, CannotList, KillListed, KillRaises,
       AfterKill, Pop, FindSdkconfig,
       MonitorDocker, MonitorSdkconfig, DebugDocker, StartOpenocd, Poll, FindGdbinit,
       RemoteBuild, RemoteGui, RemoteGuiFails, RemoteStore, RemotePid
  <2> QED
    BY <2>1, <2>2, <2>3 DEF Statement
<1>2. pc'[r] = s
  BY <1>1 DEF TypeOK
<1> QED
  BY <1>1, <1>2 DEF JobFacts, Shown

(* The flash of a /job puts its own program on the board.                  *)
LEMMA FlashJob ==
  ASSUME NEW r \in Requests, TypeOK, TurnInv, TextInv, Flash(r), Kind[r] = "job"
  PROVE  board'[Port[r]] \in Images /\ board'[Port[r]].asm = r
<1>1. dir[r] = BUILD_PATH /\ At(r, "flash")
  BY SuccessWaits DEF Success, TextInv, TextFacts, Flash, Exits
<1>2. program[BUILD_PATH].asm = r
  <2>1. TextFacts(r)
    BY DEF TextInv
  <2>2. program[BUILD_PATH] = [asm |-> r, board |-> Target[r]]
    BY <1>1, <2>1 DEF TextFacts, Written
  <2> QED
    BY <2>2
<1>3. ImageOf(dir[r]) \in Images /\ ImageOf(dir[r]).asm = r
  BY <1>1, <1>2, MadeType DEF Flash, Flashable, ImageOf
<1>4. board'[Port[r]] = ImageOf(dir[r])
  BY GatewayAssumption DEF Flash, TypeOK
<1> QED
  BY <1>3, <1>4

LEMMA CommandJob ==
  ASSUME NEW r \in Requests, CommandsRun, TypeOK, TurnInv, TextInv, JobInv, Kind[r] = "job",
         \/ Spawn(r) \/ CannotStart(r) \/ Ending(r)
         \/ GdbguiExits(r) \/ RemoteMonitorExits(r)
  PROVE  JobFacts(r)'
<1>0. JobFacts(r) /\ pc[r] \in JobSteps
  BY DEF JobInv, TurnInv, TurnSteps
<1>1. CASE Spawn(r)
  BY <1>0, <1>1 DEF Spawn, JobFacts
<1>2. CASE CannotStart(r) \/ TimesOut(r)
  BY <1>2 DEF CannotStart, TimesOut, CommandsRun
<1>3. CASE GdbguiExits(r) \/ RemoteMonitorExits(r)
  BY <1>0, <1>3 DEF GdbguiExits, RemoteMonitorExits, JobSteps
<1>4. CASE Flash(r)
  BY <1>4, FlashJob DEF JobFacts
<1> SUFFICES ASSUME Ending(r), ~Flash(r), ~TimesOut(r) PROVE JobFacts(r)'
  BY <1>1, <1>2, <1>3, <1>4
<1>5. PICK s \in {Following(r), "done"} : Goto(r, s) /\ (At(r, "flash") => s = "done")
  <2>1. CASE Success(r)
    <3>1. ~At(r, "flash")
      BY <2>1 DEF Success, FullClean, RemoveBuild, Sed, SetTarget, Build, EraseFlash, ReadOnly,
         CatOutput, RemoveOutput, Exits
    <3> QED
      BY <3>1, EndingStep, OverStep
  <2>2. CASE Fails(r) \/ KilledExit(r)
    <3>1. Return(r, "bad")
      BY <2>2, BadEnding
    <3>2. At(r, "flash") => ~IgnoresResult(r)
      BY DEF IgnoresResult
    <3> QED
      BY <3>1, <3>2 DEF Return, Resume
  <2>3. CASE JobMonitorEnds(r)
    <3>1. ~At(r, "flash")
      BY <2>3 DEF JobMonitorEnds
    <3> QED
      BY <3>1, EndingStep, OverStep
  <2> QED
    BY <2>1, <2>2, <2>3 DEF Ending, Success
<1>6. CASE pc[r] \in {"gateway_monitor", "cat", "rm_output"}
  <2>1. UNCHANGED board
    <3>1. CASE Success(r)
      BY <1>6, <3>1 DEF Success, FullClean, RemoveBuild, Sed, SetTarget, Build, EraseFlash,
         ReadOnly, CatOutput, RemoveOutput, Exits
    <3>2. CASE Fails(r) \/ KilledExit(r)
      <4>1. Partial(r) /\ PartialBoard(r) = {}
        BY <1>6, <3>2, BadEnding DEF PartialBoard
      <4> QED
        BY <4>1 DEF Partial
    <3>3. CASE JobMonitorEnds(r)
      BY <3>3 DEF JobMonitorEnds
    <3> QED
      BY <3>1, <3>2, <3>3 DEF Ending, Success
  <2> QED
    BY <1>0, <1>6, <2>1 DEF JobFacts
<1>7. CASE pc[r] \notin {"gateway_monitor", "cat", "rm_output"}
  <2>1. pc[r] \in {"fullclean_cwd", "build", "flash"}
    BY <1>0, <1>7, EndingStep DEF JobSteps, Commands
  <2>2. s \notin Shown
    BY <1>5, <2>1 DEF Following, Shown
  <2>3. pc'[r] = s
    BY <1>5 DEF TypeOK
  <2> QED
    BY <2>2, <2>3 DEF JobFacts, Shown
<1> QED
  BY <1>6, <1>7

LEMMA NextJob ==
  ASSUME CommandsRun
  PROVE  TypeOK /\ TurnInv /\ TextInv /\ JobInv /\ [NextTurns]_vars => JobInv'
<1> SUFFICES ASSUME TypeOK, TurnInv, TextInv, JobInv, [NextTurns]_vars PROVE JobInv'
  OBVIOUS
<1>1. ASSUME NEW r \in Requests, Turn(r) \/ Work(r) PROVE JobInv'
  <2>1. CASE Quiet(r)
    <3>1. UNCHANGED pc /\ UNCHANGED board
      BY <2>1, QuietStep
    <3> QED
      BY <3>1 DEF JobInv, JobFacts
  <2>2. CASE Turn(r) \/ (Work(r) /\ ~Quiet(r))
    <3>1. \A q \in Requests \ {r} : JobFacts(q)'
      BY <2>2, OthersRest DEF JobFacts
    <3>2. Turn(r) /\ Kind[r] = "job" => JobFacts(r)'
      BY DEF Turn, Accept, First, TypeOK, JobFacts
    <3>3. Work(r) /\ ~Quiet(r) /\ Kind[r] = "job" => JobFacts(r)'
      BY StatementJob, CommandJob, WorkCases
    <3> QED
      BY <2>2, <3>1, <3>2, <3>3 DEF JobInv
  <2> QED
    BY <1>1, <2>1, <2>2
<1>2. CASE UNCHANGED vars
  BY <1>2 DEF vars, JobInv, JobFacts
<1> QED
  BY <1>1, <1>2 DEF NextTurns, Terminating

LEMMA JobInvariant == ASSUME CommandsRun PROVE SpecTurns => []JobInv
<1>1. Init => TextInv /\ JobInv
  <2>1. Init => \A r \in Requests : pc[r] = "idle"
    BY DEF Init
  <2> QED
    BY <2>1, InitText DEF JobInv, JobFacts
<1>2. TypeOK /\ TurnInv /\ TextInv /\ [NextTurns]_vars => TextInv'
  BY NextText
<1>3. TypeOK /\ TurnInv /\ TextInv /\ JobInv /\ [NextTurns]_vars => JobInv'
  BY NextJob
<1> QED
  BY <1>1, <1>2, <1>3, TurnInvariant, TurnsSpec, TypeCorrect, PTL DEF SpecTurns

(* A /job whose answer shows no error has its own program on the board     *)
(* (do_job_request, gateway.py:515-558).                                   *)
THEOREM JobIsSound == ASSUME CommandsRun PROVE SpecTurns => JobSound
<1>1. TypeOK /\ TurnInv /\ JobInv /\ [NextTurns]_vars =>
        [\A r \in Requests : Kind[r] = "job" /\ Says(r)
           => board[Port[r]] \in Images /\ board[Port[r]].asm = r]_vars
  <2> SUFFICES ASSUME TypeOK, TurnInv, JobInv, [NextTurns]_vars, NEW r \in Requests,
                      Kind[r] = "job", Says(r)
               PROVE  board[Port[r]] \in Images /\ board[Port[r]].asm = r
    OBVIOUS
  <2>1. pc[r] \in JobSteps /\ JobFacts(r)
    BY DEF TurnInv, TurnSteps, JobInv
  <2>2. At(r, "finish")
    BY <2>1, SaysStep DEF Finish, KillListed, RemoteMonitorExits, JobSteps
  <2> QED
    BY <2>1, <2>2 DEF JobFacts
<1> QED
  BY <1>1, JobInvariant, TurnInvariant, TurnsSpec, TypeCorrect, PTL DEF SpecTurns, JobSound

-----------------------------------------------------------------------------
(***************************************************************************)
(* CleanInv.  /fullclean looks at no result: that of rm must be the good   *)
(* one.  EraseInv needs no hypothesis, do_cmd_output hands on every error. *)
(***************************************************************************)
FilesRemoved == "file" \notin Faults

LEMMA StatementClean ==
  ASSUME NEW r \in Requests, TypeOK, TurnInv, CleanInv, Statement(r), Kind[r] = "fullclean"
  PROVE  CleanFacts(r)'
<1>0. CleanFacts(r) /\ pc[r] \in CleanSteps /\ r \notin spawned'
  BY StatementGoes DEF CleanInv, TurnInv, TurnSteps
<1>1. Reset(r) \/ CheckBuild(r) \/ Finish(r)
  BY <1>0 DEF Statement, CleanSteps, OpenTmp, WriteTmp, OpenProgram, Translate, RefuseProgram,
     WriteProgram, ModeTest, Configure, FindSdkconfig, Reap, ListProcesses, CannotList,
     KillListed, KillRaises, AfterKill, Pop,
     MonitorDocker, MonitorSdkconfig, DebugDocker, StartOpenocd, Poll, FindGdbinit,
     RemoteBuild, RemoteGui, RemoteGuiFails, RemoteStore, RemotePid
<1>2. CASE Reset(r)
  BY <1>0, <1>2 DEF Reset, CleanFacts, TypeOK
<1>3. CASE CheckBuild(r)
  BY <1>0, <1>3 DEF CheckBuild, AfterCheck, CleanFacts, TypeOK
<1>4. CASE Finish(r)
  BY <1>0, <1>4 DEF Finish, CleanFacts, TypeOK
<1> QED
  BY <1>1, <1>2, <1>3, <1>4

LEMMA CommandClean ==
  ASSUME NEW r \in Requests, FilesRemoved, TypeOK, TurnInv, CleanInv, Kind[r] = "fullclean",
         \/ Spawn(r) \/ CannotStart(r) \/ Ending(r)
         \/ GdbguiExits(r) \/ RemoteMonitorExits(r)
  PROVE  CleanFacts(r)'
<1>0. CleanFacts(r) /\ pc[r] \in CleanSteps
  BY DEF CleanInv, TurnInv, TurnSteps
<1>1. CASE Spawn(r)
  <2>1. UNCHANGED pc /\ UNCHANGED BUILD_PATH /\ pc[r] \in {"fullclean", "rm"}
    BY <1>0, <1>1 DEF Spawn, CleanSteps, Commands
  <2>2. dir'[r] = BUILD_PATH
    BY <1>1, <2>1 DEF Spawn, ArgsAtHand, TypeOK
  <2> QED
    BY <1>0, <2>1, <2>2 DEF CleanFacts
<1>2. CASE CannotStart(r) \/ TimesOut(r)
  <2>1. Raise(r) /\ ~UsesDoCmd(r)
    BY <1>2 DEF CannotStart, TimesOut, UsesDoCmd
  <2>2. pc'[r] = "done" /\ r \notin spawned'
    BY <1>2, <2>1 DEF Raise, TypeOK, CannotStart, TimesOut, Exits
  <2> QED
    BY <2>2 DEF CleanFacts
<1>3. CASE GdbguiExits(r) \/ RemoteMonitorExits(r)
  BY <1>0, <1>3 DEF GdbguiExits, RemoteMonitorExits, CleanSteps
<1> SUFFICES ASSUME Ending(r), ~TimesOut(r) PROVE CleanFacts(r)'
  BY <1>1, <1>2, <1>3
<1>4. UNCHANGED BUILD_PATH /\ r \notin spawned' /\ pc[r] \in {"fullclean", "rm"}
  BY <1>0, EndingStep DEF CleanSteps, Commands
<1>5. CASE At(r, "fullclean")
  <2>1. Following(r) = "rm"
    BY <1>5 DEF Following
  <2>2. pc'[r] \in {"rm", "done"}
    BY <2>1, EndingStep, OverGoes
  <2> QED
    BY <1>0, <1>4, <1>5, <2>2 DEF CleanFacts
<1>6. CASE At(r, "rm")
  <2>1. RemoveBuild(r)
    <3>1. ~Fails(r) /\ ~KilledExit(r)
      BY <1>6, BadEnding DEF Fails, KilledExit, TurnInv, FilesRemoved, FileCommands, CanSucceed
    <3> QED
      BY <1>6, <3>1 DEF Ending, FullClean, Sed, SetTarget, Build, Flash, EraseFlash, ReadOnly,
         CatOutput, RemoveOutput, Exits, JobMonitorEnds
  <2>2. r \in spawned
    BY <2>1, SuccessWaits DEF Success
  <2>3. dir[r] = BUILD_PATH /\ BUILD_PATH \in Projects
    BY <1>0, <2>2 DEF CleanFacts, TypeOK
  <2>4. build'[BUILD_PATH'] = None
    BY <1>4, <2>1, <2>3 DEF RemoveBuild, TypeOK
  <2>5. pc'[r] \in {"finish", "done"}
    <3>1. Following(r) = "finish"
      BY <1>6 DEF Following
    <3> QED
      BY <3>1, EndingStep, OverGoes
  <2> QED
    BY <1>0, <1>4, <1>6, <2>4, <2>5 DEF CleanFacts
<1> QED
  BY <1>4, <1>5, <1>6

LEMMA NextClean ==
  ASSUME FilesRemoved
  PROVE  TypeOK /\ TurnInv /\ CleanInv /\ [NextTurns]_vars => CleanInv'
<1> SUFFICES ASSUME TypeOK, TurnInv, CleanInv, [NextTurns]_vars PROVE CleanInv'
  OBVIOUS
<1>1. ASSUME NEW r \in Requests, Turn(r) \/ Work(r) PROVE CleanInv'
  <2>1. CASE Quiet(r)
    <3>1. /\ UNCHANGED pc /\ UNCHANGED build /\ UNCHANGED BUILD_PATH /\ UNCHANGED arduino
          /\ UNCHANGED dir /\ UNCHANGED spawned
      BY <2>1, QuietStep
    <3> QED
      BY <3>1 DEF CleanInv, CleanFacts
  <2>2. CASE Turn(r) \/ (Work(r) /\ ~Quiet(r))
    <3>1. \A q \in Requests \ {r} : CleanFacts(q)'
      BY <2>2, OthersRest DEF CleanFacts
    <3>2. Turn(r) /\ Kind[r] = "fullclean" => CleanFacts(r)'
      <4> SUFFICES ASSUME Turn(r), Kind[r] = "fullclean" PROVE CleanFacts(r)'
        OBVIOUS
      <4>1. pc'[r] = "reset" /\ arduino' = Arduino[r]
        BY DEF Turn, Accept, First, TypeOK
      <4>2. r \notin spawned'
        BY DEF Turn, Accept, TurnInv, Commands
      <4> QED
        BY <4>1, <4>2 DEF CleanFacts
    <3>3. Work(r) /\ ~Quiet(r) /\ Kind[r] = "fullclean" => CleanFacts(r)'
      BY StatementClean, CommandClean, WorkCases
    <3> QED
      BY <2>2, <3>1, <3>2, <3>3 DEF CleanInv
  <2> QED
    BY <1>1, <2>1, <2>2
<1>2. CASE UNCHANGED vars
  BY <1>2 DEF vars, CleanInv, CleanFacts
<1> QED
  BY <1>1, <1>2 DEF NextTurns, Terminating

(* "Full clean done." (do_fullclean_request, gateway.py:138-155) is true   *)
(* of the mode that the user had chosen.                                   *)
THEOREM CleanIsSound == ASSUME FilesRemoved PROVE SpecTurns => CleanSound
<1>1. Init => CleanInv
  <2>1. Init => \A r \in Requests : pc[r] = "idle" /\ r \notin spawned
    BY DEF Init
  <2> QED
    BY <2>1 DEF CleanInv, CleanFacts
<1>2. TypeOK /\ TurnInv /\ CleanInv /\ [NextTurns]_vars => CleanInv'
  BY NextClean
<1>3. TypeOK /\ TurnInv /\ CleanInv /\ [NextTurns]_vars =>
        [\A r \in Requests : Kind[r] = "fullclean" /\ Says(r)
           => build[ProjectFor(Arduino[r])] = None]_vars
  <2> SUFFICES ASSUME TypeOK, TurnInv, CleanInv, [NextTurns]_vars, NEW r \in Requests,
                      Kind[r] = "fullclean", Says(r)
               PROVE  build[ProjectFor(Arduino[r])] = None
    OBVIOUS
  <2>1. pc[r] \in CleanSteps /\ CleanFacts(r)
    BY DEF TurnInv, TurnSteps, CleanInv
  <2>2. At(r, "finish")
    BY <2>1, SaysStep DEF Finish, KillListed, RemoteMonitorExits, CleanSteps
  <2> QED
    BY <2>1, <2>2 DEF CleanFacts
<1> QED
  BY <1>1, <1>2, <1>3, TurnInvariant, TurnsSpec, TypeCorrect, PTL DEF SpecTurns, CleanSound

-----------------------------------------------------------------------------
LEMMA StatementErase ==
  ASSUME NEW r \in Requests, TypeOK, TurnInv, Statement(r), Kind[r] = "eraseflash"
  PROVE  pc'[r] # "finish"
<1>1. pc[r] \in StepsOf("eraseflash")
  BY DEF TurnInv, TurnSteps
<1>2. Reset(r) \/ CheckBuild(r) \/ Finish(r)
  BY <1>1 DEF Statement, StepsOf, OpenTmp, WriteTmp, OpenProgram, Translate, RefuseProgram,
     WriteProgram, ModeTest, Configure, FindSdkconfig, Reap, ListProcesses, CannotList,
     KillListed, KillRaises, AfterKill, Pop,
     MonitorDocker, MonitorSdkconfig, DebugDocker, StartOpenocd, Poll, FindGdbinit,
     RemoteBuild, RemoteGui, RemoteGuiFails, RemoteStore, RemotePid
<1> QED
  BY <1>2 DEF Reset, CheckBuild, AfterCheck, Finish, TypeOK

LEMMA CommandErase ==
  ASSUME NEW r \in Requests, TypeOK, TurnInv, EraseInv, Kind[r] = "eraseflash",
         \/ Spawn(r) \/ CannotStart(r) \/ Ending(r)
         \/ GdbguiExits(r) \/ RemoteMonitorExits(r),
         pc'[r] = "finish"
  PROVE  board'[Port[r]] = None
<1>0. pc[r] \in StepsOf("eraseflash")
  BY DEF TurnInv, TurnSteps
<1>1. CASE Spawn(r)
  BY <1>0, <1>1 DEF Spawn, Commands
<1>2. CASE CannotStart(r) \/ TimesOut(r)
  <2>1. Raise(r) /\ ~UsesDoCmd(r)
    BY <1>2 DEF CannotStart, TimesOut, UsesDoCmd
  <2> QED
    BY <2>1 DEF Raise, TypeOK
<1>3. CASE GdbguiExits(r) \/ RemoteMonitorExits(r)
  BY <1>0, <1>3 DEF GdbguiExits, RemoteMonitorExits, StepsOf
<1>4. CASE Fails(r) \/ KilledExit(r)
  <2>1. Return(r, "bad")
    BY <1>4 DEF Fails, KilledExit
  <2>2. ~IgnoresResult(r)
    BY <1>0 DEF IgnoresResult, StepsOf
  <2> QED
    BY <2>1, <2>2 DEF Return, Resume, TypeOK
<1>5. CASE Success(r) \/ JobMonitorEnds(r)
  <2>1. EraseFlash(r)
    BY <1>0, <1>5 DEF Success, FullClean, RemoveBuild, Sed, SetTarget, Build, Flash, ReadOnly,
       CatOutput, RemoveOutput, JobMonitorEnds, Exits, StepsOf
  <2> QED
    BY <2>1, GatewayAssumption DEF EraseFlash, TypeOK
<1> QED
  BY <1>1, <1>2, <1>3, <1>4, <1>5 DEF Ending, Success

LEMMA NextErase == TypeOK /\ TurnInv /\ EraseInv /\ [NextTurns]_vars => EraseInv'
<1> SUFFICES ASSUME TypeOK, TurnInv, EraseInv, [NextTurns]_vars PROVE EraseInv'
  OBVIOUS
<1>1. ASSUME NEW r \in Requests, Turn(r) \/ Work(r) PROVE EraseInv'
  <2>1. CASE Quiet(r)
    BY <2>1, QuietStep DEF EraseInv
  <2>2. CASE Turn(r) \/ (Work(r) /\ ~Quiet(r))
    <3>1. \A q \in Requests \ {r} : pc'[q] # "finish"
      BY <2>2, OthersRest
    <3>2. Turn(r) /\ Kind[r] = "eraseflash" => pc'[r] # "finish"
      BY DEF Turn, Accept, First, TypeOK
    <3>3. Work(r) /\ ~Quiet(r) /\ Kind[r] = "eraseflash" /\ pc'[r] = "finish"
            => board'[Port[r]] = None
      BY StatementErase, CommandErase, WorkCases
    <3> QED
      BY <2>2, <3>1, <3>2, <3>3 DEF EraseInv
  <2> QED
    BY <1>1, <2>1, <2>2
<1>2. CASE UNCHANGED vars
  BY <1>2 DEF vars, EraseInv
<1> QED
  BY <1>1, <1>2 DEF NextTurns, Terminating

LEMMA EraseInvariant == SpecTurns => []EraseInv
<1>1. Init => EraseInv
  <2>1. Init => \A r \in Requests : pc[r] = "idle"
    BY DEF Init
  <2> QED
    BY <2>1 DEF EraseInv
<1> QED
  BY <1>1, NextErase, TurnInvariant, TurnsSpec, TypeCorrect, PTL DEF SpecTurns

-----------------------------------------------------------------------------
(***************************************************************************)
(* The refinement of BoardService.                                         *)
(***************************************************************************)
LEMMA BoardStep ==
  ASSUME NEW r \in Requests, TypeOK, Work(r), ~Quiet(r)
  PROVE  UNCHANGED board \/ \E x \in Contents : board' = [board EXCEPT ![Port[r]] = x]
<1>1. CASE Statement(r)
  BY <1>1 DEF Statement, Reset, CheckBuild, OpenTmp, WriteTmp, OpenProgram, Translate,
     RefuseProgram, WriteProgram, ModeTest, Configure, FindSdkconfig, Finish, Reap,
     ListProcesses, CannotList, KillListed, KillRaises, AfterKill, Pop, MonitorDocker,
     MonitorSdkconfig, DebugDocker,
     StartOpenocd, Poll, FindGdbinit, RemoteBuild, RemoteGui, RemoteGuiFails, RemoteStore,
     RemotePid
<1>2. CASE Spawn(r) \/ CannotStart(r) \/ GdbguiExits(r) \/ RemoteMonitorExits(r)
  BY <1>2 DEF Spawn, CannotStart, GdbguiExits, RemoteMonitorExits
<1>3. CASE Flash(r)
  BY <1>3, MadeType DEF Flash, Flashable, Contents
<1>4. CASE EraseFlash(r)
  BY <1>4 DEF EraseFlash, Contents
<1>5. CASE Success(r) /\ ~Flash(r) /\ ~EraseFlash(r)
  BY <1>5 DEF Success, FullClean, RemoveBuild, Sed, SetTarget, Build, ReadOnly, CatOutput,
     RemoveOutput
<1>6. CASE Fails(r) \/ KilledExit(r) \/ TimesOut(r)
  <2>1. Partial(r)
    BY <1>6 DEF Fails, KilledExit, TimesOut
  <2>2. PartialBoard(r) \subseteq Contents
    BY MadeType DEF PartialBoard, Whole, Flashable, Contents
  <2> QED
    BY <2>1, <2>2 DEF Partial
<1>7. CASE JobMonitorEnds(r)
  BY <1>7 DEF JobMonitorEnds
<1> QED
  BY <1>1, <1>2, <1>3, <1>4, <1>5, <1>6, <1>7, WorkCases DEF Ending, Success

(* Success is only said of what was promised.                              *)
LEMMA SaysPromised ==
  ASSUME NEW r \in Requests, TypeOK, TurnInv, FlashInv, JobInv, EraseInv, [NextTurns]_vars,
         Says(r)
  PROVE  board[Port[r]] \in Promised[r]
<1>1. pc[r] \in TurnSteps(Kind[r])
  BY DEF TurnInv
<1>2. CASE Kind[r] \in {"flash", "job", "eraseflash"}
  <2>1. At(r, "finish")
    BY <1>1, <1>2, SaysStep DEF Finish, KillListed, RemoteMonitorExits, TurnSteps, StepsOf,
                                JobSteps
  <2>2. CASE Kind[r] = "flash"
    BY <2>1, <2>2 DEF FlashInv, FlashFacts, Promised
  <2>3. CASE Kind[r] = "job"
    BY <2>1, <2>3 DEF JobInv, JobFacts, Promised
  <2>4. CASE Kind[r] = "eraseflash"
    BY <2>1, <2>4 DEF EraseInv, Promised
  <2> QED
    BY <1>2, <2>2, <2>3, <2>4
<1>3. CASE Kind[r] \notin {"flash", "job", "eraseflash"}
  <2>1. Promised[r] = Contents
    BY <1>3 DEF Promised
  <2>2. board[Port[r]] \in Contents
    BY GatewayAssumption DEF TypeOK, Contents
  <2> QED
    BY <2>1, <2>2
<1> QED
  BY <1>2, <1>3

(* What a step of r does to the answers.                                   *)
LEMMA AnswerStep ==
  ASSUME NEW r \in Requests, TypeOK, TurnInv, [NextTurns]_vars,
         Turn(r) \/ (Work(r) /\ ~Quiet(r))
  PROVE  /\ Answer[r] = "none"
         /\ Answer' = [Answer EXCEPT ![r] = IF Says(r) THEN "ok"
                                            ELSE IF pc'[r] = "done" THEN "failed" ELSE "none"]
<1>1. status[r] # "ok" /\ pc[r] # "done"
  BY OwnStep DEF Turn, Accept, Busy, TurnInv
<1>2. \A q \in Requests \ {r} : pc'[q] = pc[q]
  BY OthersRest
<1>3. \A q \in Requests \ {r} : (status'[q] = "ok") <=> (status[q] = "ok")
  <2>1. ASSUME NEW q \in Requests \ {r}, Says(q) PROVE FALSE
    <3>1. Busy(q) /\ Work(q) /\ ~Quiet(q)
      BY <2>1, SaysStep, OwnStep
    <3>2. pc[q] \in {"idle", "done"}
      BY OthersRest
    <3> QED
      BY <3>1, <3>2 DEF Busy
  <2>2. \A q \in Requests \ {r} : status[q] = "ok" => status'[q] = "ok"
    <3>1. CASE Turn(r)
      BY <3>1 DEF Turn, Accept
    <3>2. CASE Statement(r)
      BY <3>2, StatementSays DEF TypeOK
    <3>3. CASE \/ Spawn(r) \/ CannotStart(r) \/ Ending(r)
               \/ GdbguiExits(r) \/ RemoteMonitorExits(r)
      BY <3>3, EndingStep DEF Spawn, CannotStart, GdbguiExits, RemoteMonitorExits, TypeOK
    <3> QED
      BY <3>1, <3>2, <3>3, WorkCases
  <2> QED
    BY <2>1, <2>2 DEF Says
<1>4. Answer[r] = "none"
  BY <1>1 DEF Answer
<1>5. \A q \in Requests \ {r} : Answer'[q] = Answer[q]
  BY <1>2, <1>3 DEF Answer
<1>6. Answer'[r] = IF Says(r) THEN "ok" ELSE IF pc'[r] = "done" THEN "failed" ELSE "none"
  BY <1>1 DEF Answer, Says
<1>7. DOMAIN Answer = Requests /\ DOMAIN Answer' = Requests
  BY DEF Answer
<1> QED
  BY <1>4, <1>5, <1>6, <1>7 DEF Answer

LEMMA TurnService ==
  ASSUME NEW r \in Requests, TypeOK, TurnInv, FlashInv, JobInv, EraseInv, [NextTurns]_vars,
         Turn(r) \/ (Work(r) /\ ~Quiet(r))
  PROVE  Service!Next \/ UNCHANGED <<board, Answer>>
<1>0. /\ Answer[r] = "none"
      /\ Answer' = [Answer EXCEPT ![r] = IF Says(r) THEN "ok"
                                         ELSE IF pc'[r] = "done" THEN "failed" ELSE "none"]
  BY AnswerStep
<1>1. UNCHANGED board \/ \E x \in Contents : board' = [board EXCEPT ![Port[r]] = x]
  BY BoardStep DEF Turn, Accept
<1>2. CASE Says(r)
  <2>1. board[Port[r]] \in Promised[r] /\ UNCHANGED board
    BY <1>2, SaysPromised, SaysStep
  <2>2. Service!Succeed(r)
    BY <1>0, <1>2, <2>1 DEF Service!Succeed
  <2> QED
    BY <2>2 DEF Service!Next
<1>3. CASE ~Says(r) /\ pc'[r] = "done"
  <2>1. Service!GiveUp(r)
    BY <1>0, <1>1, <1>3 DEF Service!GiveUp
  <2> QED
    BY <2>1 DEF Service!Next
<1>4. CASE ~Says(r) /\ pc'[r] # "done"
  <2>1. Answer' = Answer
    BY <1>0, <1>4 DEF Answer
  <2>2. UNCHANGED board \/ Service!Work(r)
    BY <1>0, <1>1, <2>1 DEF Service!Work
  <2> QED
    BY <2>1, <2>2 DEF Service!Next
<1> QED
  BY <1>2, <1>3, <1>4

(* The handlers, their commands and the globals they share keep the        *)
(* promises of BoardService to users who take turns: a board only changes  *)
(* for a request that still waits for its answer and whose port it is, a   *)
(* request is answered once, and success is only answered when the board   *)
(* holds what was asked for (do_flash_request, do_job_request,             *)
(* do_eraseflash_request).                                                 *)
THEOREM TurnsKeepPromises ==
  ASSUME CommandsRun, KnownBoards PROVE SpecTurns => ImplementsService
<1>1. Init => Service!Init
  <2> SUFFICES ASSUME Init PROVE Service!Init
    OBVIOUS
  <2>1. board \in [Ports -> Contents]
    BY DEF Init, Contents
  <2>2. \A r \in Requests : status[r] # "ok" /\ pc[r] # "done"
    BY DEF Init
  <2>3. Answer = [r \in Requests |-> "none"]
    BY <2>2 DEF Answer
  <2> QED
    BY <2>1, <2>3 DEF Service!Init
<1>2. TypeOK /\ TurnInv /\ FlashInv /\ JobInv /\ EraseInv /\ [NextTurns]_vars
        => [Service!Next]_<<board, Answer>>
  <2> SUFFICES ASSUME TypeOK, TurnInv, FlashInv, JobInv, EraseInv, [NextTurns]_vars
               PROVE  Service!Next \/ UNCHANGED <<board, Answer>>
    OBVIOUS
  <2>1. ASSUME NEW r \in Requests, Turn(r) \/ (Work(r) /\ ~Quiet(r))
        PROVE  Service!Next \/ UNCHANGED <<board, Answer>>
    BY <2>1, TurnService
  <2>2. ASSUME NEW r \in Requests, Quiet(r) PROVE UNCHANGED <<board, Answer>>
    <3>1. UNCHANGED board /\ UNCHANGED pc /\ UNCHANGED status
      BY <2>2, QuietStep
    <3> QED
      BY <3>1 DEF Answer
  <2>3. CASE UNCHANGED vars
    <3>1. UNCHANGED board /\ UNCHANGED pc /\ UNCHANGED status
      BY <2>3 DEF vars
    <3> QED
      BY <3>1 DEF Answer
  <2> QED
    BY <2>1, <2>2, <2>3 DEF NextTurns, Terminating
<1> QED
  BY <1>1, <1>2, FlashInvariant, JobInvariant, EraseInvariant, TurnInvariant, TurnsSpec,
     TypeCorrect, PTL DEF SpecTurns, ImplementsService, Service!Spec
=============================================================================
