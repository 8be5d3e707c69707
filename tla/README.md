# CREATOR ESP32 gateway: specification, model checking and proofs

The repository is a gateway between the CREATOR web simulator and ESP32 boards.
A user writes RISC-V assembly in the browser; the gateway (`esp32c3/gateway.py`)
turns it into an ESP-IDF project, builds it, flashes the board at a serial port,
shows what the board prints, and runs debugging sessions. On the board, a small
runtime (`esp32c3/creator/main`, `esp32c3/creatino/main`) gives the program
ecalls, a console and, in CREATino mode, the Arduino functions.

This directory specifies, in TLA+, the gateway and the parts of the on-board
runtime where something can go wrong that a test would hardly reach: the ecalls of
CREATOR mode, the serial functions and the tones of CREATino mode with the Arduino
code below them, and the console input. TLC checks them and TLAPS proves their
central properties.

## 1. Inventory

| Part | State | Operations | Hard behaviour |
|---|---|---|---|
| Routes (`gateway.py:951-1041`) | global `arduino` | one handler per POST, each in a thread of its own (Flask's threaded server), no lock anywhere | every pair of handlers interleaves |
| Project selection (`check_build`, `gateway.py:199`) | global `BUILD_PATH` | set from `arduino`; read again by every command | stale or foreign mode |
| Command runner (`do_cmd`, `do_cmd_output`, `gateway.py:299-336`) | `req_data["error"]`, child processes | start, wait up to 300 s, return code | start failure, timeout, death by signal, stale code |
| `/flash` (`:338`), `/job` (`:515`) with `gateway_monitor.sh` | `tmp_assembly.s`, `main/program.s`, `sdkconfig`, `sdkconfig.defaults`, `build/`, the boards, `monitor_output.txt` | write and adapt the program, configure, build, flash, show output | shared files, partial failure, leftovers of earlier requests |
| `/monitor` (`:476`), `/stop` (`:562`), `/stopmonitor` (`:178`), `/fullclean` (`:138`), `/eraseflash` (`:157`) | the same | run or end a session, clean, erase | kill by name, while others work |
| `kill_all_processes` (`:630`) | process table | `ps`, then `kill -9` | two steps, matches the whole machine |
| `/debug` (`:888`) with the OpenOCD thread (`:598`) | `process_holder` | start OpenOCD in a thread, poll for it, run gdbgui; in a container, gdbgui server and monitor | waiting for another thread, entries removed by others |
| Text adaptation (`creator_build`, `:212-296`) | open files, last `li` per register | rewrite calls, expand `rdcycle`, refuse texts that name `cr_` functions | mode checked late |
| Ecalls in CREATOR mode (`creator/main/syscall/`) | `buffer_int`, `idx`, the break of `memory_pool`, the receive FIFO of the UART | every `ecall` is a panic; the wrapped panic handler reads numbers, characters and strings, moves the break, returns behind the `ecall` or, for exit, to `ra` | polls with interrupts off; two readers with one index; overflow |
| Serial functions in CREATino mode (`creatino/main/creatino.cpp`; `Stream.cpp`, `HardwareSerial.cpp`, `esp32-hal-uart.c`) | the ring of the UART driver, a peeked byte, the locals of each reader | `serial_begin`, `serial_end`, `serial_read`, `serial_peek`, find, parse, read a number of bytes, read ecalls | bytes and timeouts arrive anywhere in a call; a peeked byte beside the ring; matches that overlap |
| Pins and tones in CREATino mode (`esp32-hal-periman.c`, `-ledc.c`, `-gpio.c`, `Tone.cpp`) | what each pin is bound to, the LEDC channels in use, `_pin`, a queue of messages | `pinMode`, `analogWrite`, `tone`, `noTone`; a task that plays the tones | two tasks on the same tables without a lock; what is tested when a message is sent is old when it is taken |
| Console `io.s` (the same file in both modes, built in CREATino mode) | line buffer, cursor, one byte of look-ahead, the terminal | edit a line, hand out characters and strings, print | buffer limits, escape sequences, three line ends, what stays buffered |
| Ecall library `ecall.s`, `creator.s`, `rdcycle.s`, `creator-esp.c`; wrappers `creatino.s` | – | dispatch by `a7`, save and restore registers | stack discipline |
| Web page, Docker, CI, OpenOCD scripts, the rest of the vendored Arduino core | – | – | not modelled: configuration, presentation or third-party code |

Which code a mode uses. A CREATOR project is built from `test_panic.c`,
`return_from_panic.S`, `creator-esp.c`, `creator.s` and the program
(`creator/main/CMakeLists.txt`): its ecalls go through the panic handler. A
CREATino project (`creatino/main/CMakeLists.txt`) has `cr_ecall` of `creatino.s`,
which calls the `ecall_` functions of `creatino.cpp`; `ecall.s` and `io.s` are built
too, and reached only through `_myecall`.

What makes the gateway correct: success is only reported when the board holds
the program the user asked for, built and configured for that board; a clean or
an erase that is reported has happened; a command works in the project of its
own request's mode; whoever loses a command to somebody's stop button is told
so; every request is answered; nothing the gateway started in the background is
forgotten; and in CREATOR mode no assembly that names an Arduino (`cr_`) function becomes a program.
What makes the console correct: it stays in its fixed buffer, the screen shows the line
as it is, and the program reads what the user edited.
What makes the ecalls correct: a read answers the line typed while it waits, in
its buffer, and ends with the line; no memory is handed out twice. Of the serial
functions: no byte is lost, doubled or taken by a call that does not need it, and
find and parse answer what the bytes say, wherever a timeout falls. Of the tones: one
at a time, `noTone` wins over what is queued and ends its tone, the channels in use
are those of the pins, and no call blocks for ever.

## 2. Modules

| Module | Models |
|---|---|
| `GatewayState` | constants and their assumption, all variables, the steps of a handler, the type invariant |
| `Commands` | a child process from spawn to exit: `do_cmd`, `do_cmd_output`, what each tool does, and every way a command can end |
| `Processes` | `kill_all_processes` and the clean-up of `process_holder` |
| `FlashHandler` | `/flash`, `/job`, the file side of `creator_build`, `gateway_monitor.sh` |
| `SessionHandlers` | route entry, `check_build`, the start of every handler, `/monitor` |
| `DebugHandler` | `/debug`, its OpenOCD thread, native and container gdbgui |
| `Gateway` | all of it together: `Init`, `Next`, fairness, users who take turns, the properties, the refinement |
| `BoardService` | the abstract specification: what the gateway promises of the boards |
| `GatewayMC` | scenarios for TLC |
| `GatewayProofs`, `TurnProofs` | the theorems about the gateway, whoever uses it and for users who take turns |
| `LineEditor` | `io.s`: `read_line`, `peek`, `refill`, the `get_` functions |
| `Terminal` | the terminal that shows what `io.s` prints (external) |
| `KeyStream` | what the bytes delivered so far spell, read beside the editor byte by byte |
| `Console` | the abstract specification of `LineEditor`: an editor with text before and behind the cursor |
| `ConsoleProofs` | the theorems about the console |
| `EcallHook` | the panic handler of CREATOR mode: the reading ecalls, `sbrk`, exit, and the UART |
| `LineInput` | the abstract specification of `EcallHook`: a read takes the bytes typed one by one, keeps those that belong to its answer, and answers at the end of the line, not before |
| `EcallProofs` | the theorems about the ecalls |
| `Serial` | the reading functions of `creatino.cpp` with `Stream.cpp`, `HardwareSerial.cpp` and the UART |
| `ByteStream` | the abstract specification of `Serial`: one queue of bytes, and answers as functions of the bytes taken |
| `SerialMC` | the search targets for TLC |
| `SerialProofs`, `StreamProofs` | the theorems about the serial functions: their invariant, and the refinement of `ByteStream` |
| `PinTable` | the pin table and the LEDC channels, as operators on a record |
| `Tone` | the program's calls and the tone task on that table |
| `ToneProofs` | the theorems about pins and tones |
| `Recursion` | lemmas about recursive functions and induction on numbers, for the proof modules |

The modules form one chain of `EXTENDS` (`GatewayState`, `Commands`,
`Processes`, `FlashHandler`, `SessionHandlers`, `DebugHandler`, `Gateway`);
`Gateway` instantiates `BoardService`, and `LineEditor` instantiates `Console`,
with refinement mappings, as `EcallHook` does with `LineInput` and `Serial` with
`ByteStream`; `Tone` extends `PinTable`. What runs on the board shares no state with the
gateway, and the three on-board models share none with each other: a program in
CREATOR mode has ecalls and no Arduino functions, and in CREATino mode the pins of
the UART are none of those a program plays on.

### State

`arduino`, `BUILD_PATH` and `process_holder` are the Python globals.
`tmp_assembly`, `program`, `defaults`, `sdkconfig`, `build` and
`monitor_output` are the files, `board` the flash of each board, `alive` the
process table. `pc[r]` is where the handler of request `r` is; `spawned`,
`error`, `dir`, `held`, `name`, `victims`, `printed`, `thread` and `status` are
its locals. Two variables are history: `killed`, the requests that lost a command to a
kill, and `escaped`, the debuggers that an attempt to list, kill or log them raised for.

Texts are not spelled out: an assembly text is the request that sent it, `None`
(older than every request), `Empty` (file opened for writing) or `Torn` (two
writers overlaid, or one stopped half way). An image is a record of what went
into it: text, the board it was adapted for, the configured target and the
debugging options. This is all the properties can tell apart.

### Grain

* One step is one access to shared state. A command is two steps: `Spawn` reads
  `BUILD_PATH` (the argument list is evaluated there) and the exit applies what
  the tool did; everything other requests do meanwhile falls between the two.
* Opening a file for writing truncates it; the text arrives when it is closed,
  in a later step. A file written twice at the same time holds either text or
  `Torn`.
* `kill_all_processes` is two steps, as in the code: `ps`, then `kill`. Either may
  raise (`CannotList`, `KillRaises`): it then returns 1, and every caller removes the entry all
  the same. A kill that times out has killed any part of its list.
* The start of an OpenOCD or a gdbgui server and its entry in `process_holder` are two
  steps, so a poll or a kill may come between.
* The two or three `sed` calls for a board are one command, since they set the options
  together and nobody looks at their results. `check_build` is one
  step: the read of `arduino` and the write of `BUILD_PATH` are adjacent.
* `sdkconfig.defaults` is written in one step. Process identifiers are unique:
  a PID reused between `ps` and `kill` is not modelled.
* What a command did before it failed, was killed or timed out is free:
  nothing, all or a part of its work (`Partial`). Tools that idf.py started and
  that outlive it do not act any later than that.

`idf.py`, `esptool`, `sed`, `ps` and `kill` are not part of the repository. Their effects
are those the handlers rely on: `fullclean` empties the build directory,
`set-target` makes a new `sdkconfig` from the defaults, `build` needs a
configuration and a program, `flash` builds first and refuses a board of
another chip.

What may go wrong is the constant `Faults`: `fail` (idf.py exits with an error),
`file` (sed, rm or cat does), `start` (subprocess raises), `timeout`, `log` (the
OpenOCD thread cannot decode or write what OpenOCD says, `gateway.py:616-626`, and
removes the entry while OpenOCD runs on). `start` and `timeout` also befall `ps` and
`kill`. That a command is killed needs no fault: the gateway does it to itself.

### The console

`line`, `begin`, `end`, `next`, `full` are the variables of `io.s`; `s1` and `s2`
are the registers in which `read_line` keeps the length and the cursor; `pc`
says at which of its waits for a byte the task is, or that the program runs
(`main`), is in `refill` or behind it (`get`). A step goes from one wait, call
or return to the next: there is one task, and nothing else can happen between.
The loops that shift and redraw are written as what they compute; what they
print is applied to the screen byte by byte, in the order of the code. The string of a `get_string` is
followed until the program calls another function; from then on it is memory of the program's. The cell
`line[LINE_SIZE]` is the byte behind the buffer. Keys are printable
ASCII characters, line feed, carriage return, escape and backspace, and the
input may end at any read (`EOF`). A `read(2)` that reads nothing or fails leaves `next`
alone: `get_immediate` says end of input when it read nothing, and otherwise takes the byte in
`next` as if it had been typed again, which is a step of the model like any other typed byte. Only
a failure before the first byte ever read, when `next` holds nothing typed, is left out.
`KeyStream` adds `typed`, the line that the bytes spell when each is read once, in order, with its
meaning after `\r`, `ESC` and `ESC [`; where `peek` finds the end of the input the last byte
counts as typed again, since that is what the code sees. Not in the model: bytes beyond ASCII (the code has a
TODO for them), rows that wrap, and what the program itself prints while idle
(columns are counted from where the line begins).

### The ecalls

The program runs in machine mode, so its `ecall` ends in the panic handler, which is
wrapped. One step is one `ecall` or one byte the handler polls (`Handles`): with
interrupts off nothing but a typed byte can come between. While the program runs,
the UART driver that `app_main` installed may empty the FIFO at any time
(`DriverInterrupt`): a read is promised only what is typed while it waits. `owned` is a
history variable, the cells `sbrk` has handed out. The string that is read is `dest`, cells
0 to the largest length asked for (`MaxLength`, a bound), so that a cell behind the
length is there to be hit; `a1` may be zero or negative. Integers are `WORD` wide. `exit` returns to `ra`, which is
`app_main` or, after a call the program made, behind that call. Left out: what is
printed, and the watchdogs, which the handler turns off.

### The serial functions

`call` is the function the program is in, with its arguments and locals; one step is
one byte taken, peeked at or refused, or one timeout. A timeout may end a wait
whenever nothing is there to read: the time it takes is not in the model. `taken`
is a history variable, the bytes that count for the call. Program requests come from
`Targets`, `Terminators`, `Lengths` and `Ignores`; `MaxUnread` bounds the
bytes that are unread or belong to the current call, so numbers stay far from
overflowing. The 256-byte limit of the driver's ring is not reached. Left out: echoes, delays, `vTaskDelay`
(one task reads), `parseFloat`, which CREATino does not call, and an `ignore` of 255,
which the code cannot tell from a timeout.

### Pins and tones

Both tasks run on one core and the tone task has the higher priority, so the
program only makes a step while the tone task sleeps in a delay or waits on an empty
queue (`Turn`), and the tone task wakes between any two steps of the program. A step
of the program is a load or a store of something the tone task also uses: the
pin table, the `used_channels` bits (`DetachLoad`, `DetachStore`: a read-modify-write),
`_pin`, the queue; a free channel is picked in one step and marked in a later one (`PickChannel`,
`AttachChannel`), and `pinMode` looks at the pin a second time (`esp32-hal-gpio.c:151`).
`tone` may fail to make its queue or its task (`made`) and then does nothing. What the tone task does between two blocking calls is one step,
since the program cannot run. A handle that was freed is kept in the table as one that
is not live: reading its channel gives any channel, freeing it again aborts and the
board starts anew (`Restart`). After a call that was overtaken by the tone task
(`raced`) the bound `FollowRaces = FALSE` ends the run before the next call.
Left out: `malloc` failing, pins of the UART, the fade service, that two channels share a timer
and thus a frequency, and duty values: a channel sounds or it does not.

## 3. Runs

A scenario of `GatewayMC` is a set of requests with route, mode, port and board.
Every request can be sent at any time (under `SpecTurns`: when the others have
their answers) or never. The initial states are an untouched checkout and
projects left built for an esp32c3 or an esp32c6.

| Run | Scenario and faults | Shows |
|---|---|---|
| `gw_turns` | two flashes, a job, a clean, an erase; both modes, two ports, two chips; one at a time; `fail` | `TypeOK`; `FlashSound`, `JobSound`, `CleanSound`: success means that the work was done, whatever earlier requests left behind in the files; `ImplementsService`: refinement of `BoardService` |
| `gw_lab` | a job, a monitor, a stop button at the same time, all CREATino, fair; `timeout` | `RightProject`: the shared `BUILD_PATH` is right whenever a command takes it; `Answered`: everybody gets an answer although every tool may hang |
| `gw_crowd` | a flash whose text names a `cr_` function, a job, a stop button at the same time, one port; `fail`, `start` | `KilledNeverReported` and its strengthening `KilledInv`; `NoCrInCreator` |
| `gw_debug` | a debug session, a flash, a monitor at the same time, native or container; `start`, `timeout`, `log` | `DebuggersTracked`: an OpenOCD or gdbgui server that runs has its entry in `process_holder`, unless an attempt to list, kill or log it raised; no order of listing, killing, removing, starting and storing loses one |
| `le_edit` | the console with room for three characters and a line feed; letters that are also the tail of escape sequences; `get_character`, `peek_character`, `get_immediate` and `get_string` at any time | `TypeOK`, `InBuffer`; `Mirror`: the screen shows the line and the cursor; `EditedAsTyped`: the edited line is what the bytes spell, none lost, doubled or mistaken in the look-ahead; `ImplementsConsole`: refinement of `Console` |
| `pn_pins` | two pins, two channels, a queue for two messages; `pinMode`, `analogWrite`, `tone` and `noTone` in any order, timed or not, with frequencies the timers can and cannot make; a reset at any time | `TypeOK`; `OneTonePin`; `NoToneOverrides`; `Books`: the channels in use are those of the pins; `SoundsOnTonePin`: `noTone` can end whatever sounds; `CallsReturn`, `NoToneEnds` |
| `ec_calls` | numbers, characters, strings and `sbrk` in any order, while zeros, digits, letters and line feeds are typed; room for two digits, a pool of two cells, a FIFO of two bytes, five-bit integers | `TypeOK`; `InBuffers`; `PoolSound`; `ReadsEnd`; `ImplementsLineInput`: refinement of `LineInput` |
| `sr_serial` | every reading function with every choice of arguments, `serial_begin` and `serial_end`, with up to four bytes unread or in hand | `TypeOK` (no buffer beyond its length); `FindsLongest`; `BoundedCallsEnd`; `ImplementsByteStream`: refinement of `ByteStream` |

Every property has a mutant in `PROJECT.json`: a changed definition, of the kind a slip in the
code would be, under which the run fails. The changed definitions stand next to
the originals, marked `mutant`.

Bounds. The only bound is the scenario: each request is sent at most once. Two
or three concurrent requests reach the interesting overlaps, since the shared
cells (a global, a file, a port) each take two parties to disturb and a third,
the stop button, to kill; five in `gw_turns` reach every order of
leftovers in two projects and on two boards. The theorems of section 5 have no
such bound.
Three characters in `le_edit` are the fewest for which the cursor can stand in the middle
with more than one byte to shift; the keys `[`, `C`, `D` serve as text and in escape
sequences.
In `pn_pins` two pins and two channels let one pin take the channel the other has left
and the tone task overtake any call; a queue for two can be full and hold an `END`
behind nothing and a `START` behind an `END`. In `ec_calls` two digits are one more
than needed to fill, overfill and overflow the buffer and the integer
(five bits); every increment of `sbrk` an integer can hold is tried. In `sr_serial`
four bytes are as many as the longest target has, and both targets repeat
their own beginning, so that a mismatch has a shorter match to fall back to.

Fairness of the gateway (`FairSpec`). A thread that can run does; a hanging command ends after
300 s (`gateway.py:304`, `:326`) and a job's script after its 50 s
(`gateway_monitor.sh:7-11`). Nothing else is assumed: no command has to end by
itself, no request has to come. `/debug` is exempt from `Answered`: its
commands have no timeout by design, they last as long as the session.

Fairness on the board. In `Tone`, a task that can run does, the tone task first, and a
delay ends; a program need not make another call. In `EcallHook`, the handler polls
for ever and somebody goes on pressing Enter: strong fairness of `Type`, since a
full FIFO refuses a byte now and then. In `Serial`, the program goes on reading, a wait with
nothing to read ends with its timeout, and the ecalls, which have none, need the Enter key.
`find` and `serial_parseInt` are exempt from `BoundedCallsEnd`: an endless stream of
other bytes keeps them, as the code means it.

Turns. `FlashSound`, `JobSound`, `CleanSound` and the refinement are stated for
users who take turns. With concurrent requests they do not hold, and this is no
surprise to a reader of the code: all requests share `tmp_assembly.s`,
`program.s` and `BUILD_PATH` without a lock. What does hold under concurrency is
what the other runs show. So the four say nothing about two requests that write `tmp_assembly.s`
at the same time: of that overlap `NoCrInCreator` alone is checked. In the same way `Books` is
about calls that the tone task did not overtake, and says nothing about an update of
`used_channels` that is lost between `DetachLoad` and `DetachStore`, which the code has.

## 4. Where the code differs from what it says

Four runs are expected to fail; each is a finding of `PROJECT.json`.

| Run | The program says | The code does |
|---|---|---|
| `gw_x_stale` | "Flash completed successfully." (`gateway.py:466`) | if the last command cannot be started or times out, `do_cmd` returns the code of an earlier one (`:319`), 0, and success is reported of a board nobody flashed |
| `gw_x_clean_mode` | "Clean: Cleans up previous builds from the mode wanted" (`esp32c3/README.md:15`) | a request of the other mode between two commands redirects the clean; "Full clean done." is said of the other project |
| `gw_x_debug_hangs` | "Debug: Opens up GDBGUI page" (`esp32c3/README.md:17`) | the poll for OpenOCD (`gateway.py:931`) is unbounded; a `/flash` or `/monitor` that removes the entry first leaves it waiting for ever |
| `sr_x_space` | "Deja espacio para el carácter nulo" (`creatino.cpp:113`) | `ecall_read` stores up to `size + 1` characters and the zero behind them, one cell beyond the one it has added (`:133`) |

Read in the code and not the subject of a run: `/stopmonitor` kills every `idf.py`
of the machine, builds and flashes included, although "Stop button: Stops motitor or
debugging sessions" (`esp32c3/README.md:20`); `get_string` of `io.s` stores every byte as a
word (`sw`, `:236`), so that three bytes behind the string become zero, against "a
`length' bytes long string" (`:220`); `/stop` reads its local `error`
before assigning it (`:566`) and so never stops anything; the test for a
missing ELF file (`:902`) compares a list with `False` and never fires; the
`fullclean` of `/job` (`:537`) has no `-C` and cleans no project; two jobs at
the same time share `monitor_output.txt`; two `/debug` at the same time start
two OpenOCDs. The model has each of these as the code has it.
`creator_build` checks the names of the text it reads, not those it writes: in
CREATOR mode a `jal ra, max` to the user's own `max` becomes `cr_max`
(`:257-262`) and is not refused, so `NoCrInCreator` speaks of the text alone.
In `io.s`, `peek` never sees the end of the input (`:309`, against the comment at `:78`),
so an escape followed by the end makes `read_line` go round for ever, and
`get_character` returns an old byte instead of -1 after it; the console driver of the board
reports no end of input.
In `test_panic.c`, the second byte of a `\r\n` is an empty line for the next read.
In `creatino.cpp`, `ecall_read_int` gives up with -1 after eleven digits and leaves the
rest of the line to the next call. In `esp32-hal-ledc.c`, a tone that starts in the middle of an
`analogWrite` can be given the channel that call has chosen but not yet marked,
and a handle can be freed by both tasks; the model has both, and `Books` says where
it does not apply.

## 5. Proofs

The theorems of `GatewayProofs` are about `Spec` of `Gateway`: any set of requests, ports, targets, any
faults, from `GatewayAssumption` alone, which only says that the constants
have their types and that the special texts are no requests.

* `TypeCorrect` (`GatewayProofs`): `Spec => []TypeOK`. One lemma per group of
  actions; the commands share `EndType`, which says once what a command that
  ends may change, and `PartialType` covers what an unsuccessful one may leave.
* `KilledInvariant`, `KilledNotReported` (`GatewayProofs`): a flash or an erase
  that lost a command is never reported. The property is not inductive: nothing
  in it says where the victim is. `KilledInv` adds that only waiting handlers
  can lose a command, that what `ps` lists are `idf.py` or debugger processes
  (never the `sed` whose result `/flash` ignores), at which steps handlers of
  these two routes can be, and that the victim either still waits for the dead
  command or is done. The key lemma is `BereavedStep`; `WalkStep`, `EndStep`
  and `DaemonStep` cover nearly all other actions.
* `NoCrInCreatorMode` (`GatewayProofs`): if all requests are in CREATOR mode,
  `main/program.s` of that project never comes from an assembly that itself
  names a `cr_` function. The
  strengthening says that a handler about to write has read a text that passed
  the check. With a CREATino request in the mix the property is false: it can change
  `BUILD_PATH` between the choice of the file and the check.
* `RightProjectInCreator`, `RightProjectInLab` (`GatewayProofs`): two situations in which the path that commands
  take from the global is always that of their own request. `AllCreator`: all requests are in CREATOR mode, any routes. `Lab`: all
  are in CREATino mode and use `/job`, `/monitor`, `/stop` and `/stopmonitor` only; `LabInv` says at which steps
  their handlers can be and that one that is past `check_build` (not `Early`) finds the CREATino path, since no route of the lab sets another.
  Any route with `Reset` in it, or a second mode, makes it false (`gw_x_clean_mode`).
* `DebuggersTrackedOnce` (`GatewayProofs`), under `OneSession` (at most one `/debug` among the requests, any number of
  others). An entry is removed three steps after it was looked up, and by the OpenOCD thread when its log breaks, so what must be
  shown is that no debugger starts or is stored in between: `TrackInv` says that an entry, or a running debugger that is not just being
  stored, implies that the session has `Begun` it, that it begins each once, that the list at `kill` has every debugger of the name that
  has not `escaped`, and that none but such is left at `pop` and when the thread drops the entry. A debugger escapes only where `ps`,
  `kill` or the thread's log raised: then the code does lose a running process, even with one session (hazards at `gateway.py:664` and `:626`). With two sessions the property is false: the second entry
  hides the first process (hazard at `gateway.py:923`).

* `TurnInvariant`, `FlashIsSound`, `JobIsSound`, `CleanIsSound`, `TurnsKeepPromises` (`TurnProofs`), about
  `SpecTurns`: any number of users, ports and boards, one request at a time, next to the OpenOCD threads and debuggers
  that earlier requests left behind. `TurnInv` says that one handler at most is busy, that the command it waits for is the
  only one that runs, and that nothing kills it. On it rest one invariant for each kind of request, a fact per step of the
  handler: whose text is in `tmp_assembly` and in `main/program.s` (`TextInv`), what `sdkconfig` and the image are made from
  (`FlashInv`), what is on the board (`JobInv`, `EraseInv`), which project is cleaned (`CleanInv`). `TurnsKeepPromises` maps every step of
  the gateway to a step of `BoardService` or a stutter: a board changes only for the request that waits, and success is answered once and is true.
  The hypotheses are what the code needs to keep its word: `CommandsRun` (every command can be started and none times out:
  otherwise `do_cmd` answers with the code of the command before, `gw_x_stale`), `KnownBoards` (each `/flash` names one of the
  boards the options are made for), and for `/fullclean` `FilesRemoved` (its `rm`, whose result the code does not look at, does not fail).

* `LineTypeCorrect`, `LineInBuffer` (`ConsoleProofs`): for every `LINE_SIZE` and every
  set of characters (`LineAssumption`). `LineInv` adds that nothing of the old line is
  left while a new one is edited, that the edited line is empty outside
  `read_line`, and that `get_string` only goes on while it wants bytes.
* `EditorImplementsConsole` (`ConsoleProofs`): `Spec => Console!Spec`: whatever the edits are, the program takes, or looks at
  without taking, the characters of the edited line in their order. That the edits are those the bytes spell is `EditedLineIsTyped`. Lemmas about
  segments of a buffer as sequences (append, concatenate, head and tail, front), then
  one simulation lemma for each group of actions; `Unseen` covers the steps the
  console does not see (look-ahead, escape sequences, refused keys).
* `EditedLineIsTyped` (`ConsoleProofs`): `StreamSpec => []EditedAsTyped`. The property is inductive next to `LineInv`: whether the byte is new or
  kept from before, a step turns the line into what the bytes spelt before, followed by that byte (`ByteRead`); what is left is one lemma for each kind of key,
  on the same segments as the simulation.
* `ScreenMirrorsLine` (`ConsoleProofs`): `Spec => []Mirror`. What the terminal shows is defined character by
  character over all that was printed; the lemmas `DisplayText`, `DisplayBack` and `DisplayBoth` say what a printed text, a
  run of steps back, and one text after another do to a screen. `Redraw` puts them together for the reprint of the rest of the line
  after an insertion or a deletion. `MirrorInv` adds that all that is in the edited line is a character of one column, which is what makes stepping back come out right.

* `ToneTypes`, `TonesOnOnePin`, `NoToneOverridesQueue` (`ToneProofs`), for any number of
  pins and channels and any length of the queue. The inductive invariant `ToneInv` adds to the
  properties what the program knows at each step: between its test of `_pin` and its message all that
  is queued is about its pin and the tone is on that pin or over, and between the reset of the queue and the `END` nothing is queued.
* `BooksBalanced` (`ToneProofs`): `Spec => []Books`. In the middle of a call the books do not balance;
  `BooksInv` says for each step which handle or channel is the exception, and that the tone task
  has not run since (or `raced` is set). `DetachBooks` and `AttachBooks` are the two facts
  about the table, and `ScanAlone` that the loop over the pins finds nobody else when no two pins share a channel.
* `OnlyToneSounds` (`ToneProofs`): `Spec => []SoundsOnTonePin`. A call of `analogWrite` may be given a channel that
  still sounds, and `pinMode` may take a pin off one: `SoundsInv` allows a second pin to sound exactly from there until the pin is unbound
  or its duty is written. That two pins never share a channel (`BooksInv`) is what keeps the tone task from being heard elsewhere.
* `EcallTypes`, `ReadsInBuffers`, `SbrkSound` (`EcallProofs`), for all sizes. `InBuffers` is
  inductive with the types; for `sbrk`, `PlusInPool` shows that an overflow never lands in the pool.
* `SerialTypes`, `FindIsLongest` (`SerialProofs`). That `findMulti` always knows the longest match is the
  lemma on which string search rests: a beginning of the target that the bytes with `c` end with is a shorter one
  of the bytes before, prolonged by `c` (`Prolong`), and what two matches of the same bytes have in common is a border of the longer
  (`Border`); `AdvanceLongest` puts them together for the loop of the code.
* `BytesInOrder` (`SerialProofs`): `Spec => [][InOrder]_vars`. Each step takes a byte from the front of what is
  unread, adds one at its end, or leaves it; only the end of the connection drops it.
* `SerialIsAStream` (`StreamProofs`): `Spec => ByteStream!Spec`. `StreamInv` says what the locals of a call hold: the buffer is the text taken so far, with no
  terminator in it; the target of `find` has not been in it; `value` is what its digits spell. Then every step is one of the queue: a byte that counts (`SimTake`), one that is
  read over (`SimSkip`), or a return with nothing taken (`SimReturn`, `SimTimeout`). What makes it more than bookkeeping is that both modules compute the
  answers differently: `SpeltIs`, `SpeltGrows` and `AtoiIs` (multiplying by ten on the way, or weighing each digit by its place), `StrstrFinds` and `CStringIs` (the
  search in the string before its first zero), `EndsIsMatch` with `AdvanceLongest` (the target is complete exactly when `findMulti` says so, neither earlier nor later), `OccursGrows`.
* `ReadsAnswerTheLine` (`EcallProofs`): `Spec => LineInput!Spec`. Each byte polled is the first of those typed and unread; it is kept when the
  answer has a place for it and dropped only then not, and a line feed or a carriage return, and nothing else, ends the read. The code multiplies and adds in a machine word,
  character by character; the abstract answer weighs each digit by its place in plain numbers and takes the word of the sum.
  `HornerExists` and `ValueIs` say that both are the same number, `WrapDigit` that cutting to a word on the way changes nothing;
  `HookInv` says that nothing but digits is in `buffer_int` and no zero in the string below the shared index.

Facts about what a recursive function computes for every input (the screen, the numbers) are proved here without the
induction theorems of the library, whose operator parameters the provers cannot instantiate. The form is that of the
least counterexample: the set of lengths at which the fact fails is a set of numbers, `WFMin` with
`NatLessThanWellFounded` gives its smallest member (`Smallest`), and the step from the length before contradicts it (`Climb`). A recursive function
is first shown to exist as a function with a known domain (`ShownExists`, `RecursionExists`), since nothing else says that `f[n]` is what its definition says.

Model-checked only: the liveness properties (`Answered`, `CallsReturn`, `NoToneEnds`, `ReadsEnd`,
`BoundedCallsEnd`), which are out of the prover's reach. Every invariant and every refinement that a run checks is also stated by a theorem; those of
the gateway that hold only under a hypothesis (users who take turns, one mode, one debugging session) are proved under that hypothesis, and their runs check them on instances that satisfy it.

## 6. Not modelled

* The rewriting of lines by `creator_build` (register tracking, `digitalWrite` on the RGB pin, renaming to `cr_`,
  `rdcycle`): a function of one text without shared state. What other requests can see of it, its file accesses and its
  refusal, is in `FlashHandler`.
* `ecall.s`, `creator.s`, `rdcycle.s`, `creatino.s`, `variables.s`: straight-line wrappers that save registers and call a
  function; nothing interleaves and no state outlives the call. `_myecall`, with its own `sbrk` and
  `read_int`, has no caller in a generated program.
* Printing, `serial_setTimeout`, the clock, `map`, `constrain` and `printf` of `creatino.cpp`: one call of the core each.
* The vendored Arduino core beyond the files of `PinTable`, `Tone` and `Serial`, and its libraries (Wi-Fi, Bluetooth, Ethernet, file
  systems, I2S, camera and their examples): third-party code, nearly all of the C and C++ lines of the repository, which no
  function of CREATino reaches. The lines of the project's own that run on the board, and those of the core below them, are
  a small part of the whole by count.
* The web page, Docker, CI and OpenOCD scripts: no state of their own.
