------------------------------ MODULE Gateway -------------------------------
(***************************************************************************)
(* The gateway: all handlers together, its specification and the           *)
(* properties stated of it.                                                *)
(***************************************************************************)
EXTENDS DebugHandler

(* The options of a configuration left over from earlier use.              *)
OldConfig(t) == [target |-> t, options |-> OptionsFor(t)]
OldImage(t) == [asm |-> None, board |-> t, target |-> t, options |-> OptionsFor(t)]

(***************************************************************************)
(* The server has just started; the projects are as an earlier server left *)
(* them, untouched or configured for some board and built.                 *)
(***************************************************************************)
Init ==
  /\ docker \in Containers
  /\ arduino = FALSE
  /\ BUILD_PATH = "creator"
  /\ process_holder = [n \in {"openocd", "gdbgui"} |-> None]
  /\ tmp_assembly = None
  /\ \/ /\ defaults = [p \in Projects |-> None]
        /\ sdkconfig = [p \in Projects |-> None]
        /\ build = [p \in Projects |-> None]
        /\ program = [p \in Projects |-> [asm |-> None, board |-> CHOOSE t \in Targets : TRUE]]
     \/ \E t \in Targets :
        /\ defaults = [p \in Projects |-> OptionsFor(t)]
        /\ sdkconfig = [p \in Projects |-> OldConfig(t)]
        /\ build = [p \in Projects |-> OldImage(t)]
        /\ program = [p \in Projects |-> [asm |-> None, board |-> t]]
  /\ monitor_output = {}
  /\ board = [p \in Ports |-> None]
  /\ alive = {} /\ spawned = {} /\ killed = {}
  /\ pc = [r \in Requests |-> "idle"]
  /\ error = [r \in Requests |-> "unset"]
  /\ dir = [r \in Requests |-> "creator"]
  /\ held = [r \in Requests |-> None]
  /\ name = [r \in Requests |-> IF Kind[r] = "stopmonitor" THEN "idf.py" ELSE "openocd"]
  /\ victims = [r \in Requests |-> {}] /\ escaped = {}
  /\ printed = [r \in Requests |-> {}]
  /\ thread = [r \in Requests |-> "off"]
  /\ status = [r \in Requests |-> ""]

(* The statements of the handlers, once the request is there.              *)
HandlerStep(r) ==
  \/ Reset(r) \/ CheckBuild(r)
  \/ OpenTmp(r) \/ WriteTmp(r)
  \/ OpenProgram(r) \/ Translate(r) \/ RefuseProgram(r) \/ WriteProgram(r)
  \/ ModeTest(r) \/ Configure(r) \/ FindSdkconfig(r) \/ Finish(r)
  \/ Reap(r) \/ ListProcesses(r) \/ CannotList(r) \/ KillListed(r)
  \/ KillRaises(r) \/ Pop(r)
  \/ MonitorDocker(r) \/ MonitorSdkconfig(r)
  \/ DebugDocker(r) \/ StartOpenocd(r) \/ Poll(r) \/ FindGdbinit(r)
  \/ RemoteBuild(r) \/ RemoteGui(r) \/ RemoteGuiFails(r) \/ RemoteStore(r)
  \/ RemotePid(r)
  \/ Spawn(r) \/ CannotStart(r) \/ KilledExit(r)

ThreadStep(r) ==
  \/ ThreadPopen(r) \/ ThreadPopenFails(r) \/ ThreadStore(r) \/ ThreadReread(r)
  \/ ThreadLogs(r) \/ ThreadDrop(r)

(* What ends a command other than the timeout and the 50 seconds of a job. *)
CommandEnds(r) ==
  \/ FullClean(r) \/ RemoveBuild(r) \/ Sed(r) \/ SetTarget(r) \/ Build(r)
  \/ Flash(r) \/ EraseFlash(r) \/ ReadOnly(r) \/ CatOutput(r)
  \/ RemoveOutput(r) \/ Fails(r) \/ GdbguiExits(r) \/ RemoteMonitorExits(r)
  \/ DaemonExits(r)

(* Every request that was sent has its answer: the server waits.           *)
Terminating == /\ \A r \in Requests : /\ pc[r] \in {"idle", "done"}
                                      /\ thread[r] \in {"off", "log"}
               /\ UNCHANGED vars

Work(r) == \/ HandlerStep(r) \/ ThreadStep(r) \/ ThreadLogFails(r)
           \/ CommandEnds(r) \/ TimesOut(r) \/ JobMonitorEnds(r)

Next == (\E r \in Requests : Accept(r) \/ Work(r)) \/ Terminating

Spec == Init /\ [][Next]_vars

-----------------------------------------------------------------------------
(***************************************************************************)
(* Fairness.  Handlers and threads run when they can; a command that does  *)
(* not end by itself is ended by the 300 seconds of do_cmd, the script of  *)
(* a job by its own 50 seconds.  Nothing obliges a command to end earlier, *)
(* a background process to end at all, or a request to be sent.            *)
(***************************************************************************)
Fairness == \A r \in Requests :
  /\ WF_vars(HandlerStep(r))
  /\ WF_vars(ThreadStep(r))
  /\ WF_vars(TimesOut(r))
  /\ WF_vars(JobMonitorEnds(r))

FairSpec == Spec /\ Fairness

(***************************************************************************)
(* Users who take turns: a request is sent when the others have their      *)
(* answers.  The web page waits for its answer, but nothing in the server  *)
(* enforces this.                                                          *)
(***************************************************************************)
Turn(r) == /\ \A q \in Requests : pc[q] \in {"idle", "done"}
           /\ Accept(r)

NextTurns ==
  (\E r \in Requests : Turn(r) \/ Work(r)) \/ Terminating

SpecTurns == Init /\ [][NextTurns]_vars

-----------------------------------------------------------------------------
(* A /flash or /eraseflash one of whose commands was killed from outside   *)
(* (by /stopmonitor, or by the end of somebody's job on the same port)     *)
(* never tells its user that it was done (gateway.py:170, :466).           *)
KilledNeverReported ==
  \A r \in Requests :
    Kind[r] \in {"flash", "eraseflash"} /\ r \in killed => status[r] # "ok"

(* The steps a handler of each kind can be at.                             *)
StepsOf(k) ==
  CASE k = "flash" ->
         {"idle", "open_tmp", "write_tmp", "reset", "check_build", "reap", "ps",
          "kill", "pop", "open_program", "translate", "write_program",
          "mode_test", "fullclean", "configure", "find_sdkconfig", "sed",
          "set_target", "build", "flash", "finish", "done"}
    [] k = "eraseflash" ->
         {"idle", "reset", "check_build", "erase_flash", "finish", "done"}
    [] OTHER -> Steps \cup Commands

Reporting(q) == Kind[q] \in {"flash", "eraseflash"}
Killable == IdfCommands \cup {"openocd", "gdbgui_server"}

(* Why KilledNeverReported holds, as an inductive invariant: only a waiting*)
(* handler can lose its command, the commands that can be killed are those *)
(* whose result /flash and /eraseflash look at, and once one is lost, the  *)
(* handler still waits for it or is done (do_flash_request,                *)
(* do_eraseflash_request, kill_all_processes).                             *)
KilledInv ==
  /\ \A q \in Requests : pc[q] \in StepsOf(Kind[q])
  /\ \A q \in spawned : pc[q] \in Commands
  /\ \A q \in Requests : \A p \in victims[q] : p[2] \in Killable
  /\ \A q \in Requests : Reporting(q) /\ status[q] = "ok" => At(q, "done")
  /\ \A q \in killed : Reporting(q) =>
       /\ status[q] = ""
       /\ \/ At(q, "done")
          \/ q \in spawned /\ Self(q) \notin alive /\ pc[q] \in IdfCommands

(* What a flash is asked to put on the board.                              *)
Wanted(r) == [asm |-> r, board |-> Target[r], target |-> Target[r],
              options |-> OptionsFor(Target[r])]

Says(r) == status[r] # "ok" /\ status'[r] = "ok"

(* When /flash says "Flash completed successfully." (gateway.py:466), the  *)
(* board at its port holds the program of this request, adapted and built  *)
(* for its board, with the debugging options of the board's family.        *)
FlashSound ==
  [][\A r \in Requests : Kind[r] = "flash" /\ Says(r)
                            => board[Port[r]] = Wanted(r)]_vars

(* A job that ends without an error (gateway.py:515-558) has put its own   *)
(* program on the board.                                                   *)
JobSound ==
  [][\A r \in Requests : Kind[r] = "job" /\ Says(r)
        => board[Port[r]] \in Images /\ board[Port[r]].asm = r]_vars

(* "Full clean done." (gateway.py:151) is said when the build directory of *)
(* the mode the user asked for is gone.                                    *)
CleanSound ==
  [][\A r \in Requests : Kind[r] = "fullclean" /\ Says(r)
        => build[ProjectFor(Arduino[r])] = None]_vars

(* A command that works in a project works in the project of the mode its  *)
(* own request asked for, although it takes the path from a global: in a   *)
(* lab that uses one mode and only the routes that do not reset BUILD_PATH *)
(* first (do_job_request, do_monitor_request).                             *)
RightProject ==
  \A r \in spawned :
    pc[r] \in IdfCommands \ {"fullclean_cwd"} => dir[r] = ProjectFor(Arduino[r])

(* No program.s of the CREATOR project comes from an assembly that itself  *)
(* names a cr_ function (gateway.py:264-267), whatever mix of texts two    *)
(* requests in CREATOR mode leave in tmp_assembly.s.  (The cr_ names that  *)
(* creator_build puts in by its own renaming, 244-262, are not refused and *)
(* not meant here.)                                                        *)
NoCrInCreator == program["creator"].asm \notin UsesCr

Runs(p, n) == p[2] = (IF n = "gdbgui" THEN "gdbgui_server" ELSE n)

(* p was started, and storing it is the next thing its starter does.       *)
Starting(p) == \/ p[2] = "openocd" /\ ThreadAt(p[1], "store")
               \/ p[2] = "gdbgui_server" /\ At(p[1], "remote_store")

(* Without its entry in process_holder no handler would ever end an        *)
(* OpenOCD or a gdbgui server (gateway.py:357, 362, 489, 494, 923).  While *)
(* one debugging session is used with flashes and monitors, such a process *)
(* loses its entry in one way only: an attempt to list it, to kill it or   *)
(* to log it raised (gateway.py:664, 624).  No order of listing, killing,  *)
(* removing, starting and storing does it.                                 *)
DebuggersTracked ==
  \A n \in {"openocd", "gdbgui"}, p \in alive :
    Runs(p, n) => process_holder[n] # None \/ Starting(p) \/ p \in escaped

-----------------------------------------------------------------------------
(***************************************************************************)
(* What comments, messages and the README say and the code does not do.    *)
(***************************************************************************)
(* "Debug: Opens up GDBGUI page" (README.md:17): a debug request that      *)
(* waits for its OpenOCD does not wait for ever.                           *)
DebugStarts ==
  \A r \in Requests : Kind[r] = "debug" => (At(r, "poll") ~> ~At(r, "poll"))

(***************************************************************************)
(* The handlers as an implementation of BoardService.  A request for which *)
(* the service does nothing to a board may always succeed.                 *)
(***************************************************************************)
Contents == Images \cup {None, Torn}

Promised == [r \in Requests |->
  CASE Kind[r] = "flash" -> {Wanted(r)}
    [] Kind[r] = "job" -> {i \in Images : i.asm = r}
    [] Kind[r] = "eraseflash" -> {None}
    [] OTHER -> Contents]

Answer == [r \in Requests |-> IF status[r] = "ok" THEN "ok"
                               ELSE IF At(r, "done") THEN "failed" ELSE "none"]

Service == INSTANCE BoardService WITH content <- board, answer <- Answer

(* The gateway keeps the promises of BoardService (do_flash_request,       *)
(* do_job_request, do_eraseflash_request and the commands they run).       *)
ImplementsService == Service!Spec

(* Every request but /debug gets its answer, although the tools may hang.  *)
Answered ==
  \A r \in Requests : Kind[r] # "debug" => (~At(r, "idle") ~> At(r, "done"))
=============================================================================
