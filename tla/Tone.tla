-------------------------------- MODULE Tone --------------------------------
(***************************************************************************)
(* CREATino programs on the pins of the board. Two tasks share one core:   *)
(* the program (Arduino's loop task, priority 1), which calls pinMode,     *)
(* analogWrite, tone and noTone, and the tone task (priority 10, Tone.cpp),*)
(* which takes messages from a queue. The tone task runs whenever it is    *)
(* not blocked; it wakes from a delay between any two steps of the program.*)
(***************************************************************************)
EXTENDS PinTable, Sequences, FiniteSets

CONSTANTS
  QueueSize,    \* 128 in the code
  FollowRaces   \* bound: does the program go on after a call that was raced?

ASSUME QueueAssumption == QueueSize \in Nat \ {0} /\ FollowRaces \in BOOLEAN

VARIABLES
  board,     \* the pin table and the LEDC channels
  tonePin,   \* _pin: the pin with a tone, or None
  queue,     \* _tone_queue
  delayed,   \* the pin whose timed tone the task sleeps through, or None
  made,      \* do the queue and the task exist?
  pc, call,  \* where the program is, and the pin and arguments of its call
  local,     \* the variables of the Arduino functions it is in
  raced      \* history: the tone task ran in the middle of pinMode or analogWrite

vars == <<board, tonePin, queue, delayed, made, pc, call, local, raced>>
program == <<pc, call, local>>
tones == <<tonePin, queue, delayed, made>>

Messages == [cmd : {"START"}, pin : Pins, freq : Freqs \cup {0}, timed : BOOLEAN]
            \cup [cmd : {"END"}, pin : Pins]

\* The steps of the program on the board, and of tone and noTone.
OnBoard == {"mode", "value", "scan", "load", "store", "unbind", "gpio", "pick",
            "attach", "config", "ownload", "ownstore", "bind", "fetch", "write"}
OnQueue == {"tone", "send", "noTone", "reset", "sendend"}

NoLocal == [after |-> "idle", channel |-> 0, found |-> FALSE, loaded |-> {}, owner |-> "main"]

Init ==
  /\ board = Reset /\ tonePin = None /\ queue = <<>> /\ delayed = None /\ made = FALSE
  /\ pc = "idle" /\ raced = FALSE
  /\ call \in [pin : Pins, freq : {0}, timed : {FALSE}] /\ local = NoLocal

(* ---- the program ---- *)

\* xQueueReceive returns at once when there is something: the program only
\* runs while the tone task sleeps or waits on an empty queue.
Turn == delayed # None \/ queue = <<>>

At(label) == pc = label /\ Turn
Goto(label) == pc' = label /\ UNCHANGED call
Return ==
  /\ pc' = "idle" /\ local' = NoLocal
  /\ call' = [call EXCEPT !.freq = 0, !.timed = FALSE]
OnlyBoard == UNCHANGED <<tones, raced>>

Idle == At("idle") /\ (raced => FollowRaces)

Begin(label) ==
  /\ Idle
  /\ \E p \in Pins : call' = [pin |-> p, freq |-> 0, timed |-> FALSE]
  /\ pc' = label
  /\ UNCHANGED <<board, tones, local, raced>>

CallPinMode == Begin("mode")
CallAnalogWrite == Begin("value")
CallNoTone == Begin("noTone")
CallTone ==
  /\ Idle
  /\ call' \in [pin : Pins, freq : Freqs, timed : BOOLEAN]
  /\ pc' = "tone"
  /\ UNCHANGED <<board, tones, local, raced>>

\* free() of a block that is free ends in an abort, and the board starts again.
Restart ==
  /\ board' = Reset /\ tonePin' = None /\ queue' = <<>> /\ delayed' = None /\ made' = FALSE
  /\ Return /\ raced' = FALSE

(* perimanClearPinBus, with ledcDetachBus for a pin that has a handle. The  *)
(* handle is looked up first; the bits of used_channels are cleared by a    *)
(* load and a store.                                                        *)
Clear(next) ==
  /\ CASE board.bus[call.pin] = "init" -> Goto(next) /\ UNCHANGED local
       [] board.bus[call.pin] = "gpio" -> Goto("unbind") /\ local' = [local EXCEPT !.after = next]
       [] OTHER -> Goto("scan") /\ local' = [local EXCEPT !.after = next, !.owner = board.bus[call.pin]]
  /\ UNCHANGED board /\ OnlyBoard

Handle == <<call.pin, local.owner>>

DetachScan ==
  /\ At("scan") /\ board.handle[Handle].live
  /\ \E found \in Scan(board, call.pin, board.handle[Handle].channel) :
       local' = [local EXCEPT !.channel = board.handle[Handle].channel, !.found = found]
  /\ Goto("load") /\ UNCHANGED board /\ OnlyBoard

DetachLoad ==
  /\ At("load")
  /\ local' = [local EXCEPT !.loaded = board.used]
  /\ Goto("store") /\ UNCHANGED board /\ OnlyBoard

DetachStore ==
  /\ At("store") /\ board.handle[Handle].live
  /\ board' = [board EXCEPT
       !.used = IF local.found THEN @ ELSE local.loaded \ {local.channel},
       !.handle[Handle] = Freed]
  /\ Goto("unbind") /\ local' = [NoLocal EXCEPT !.after = local.after] /\ OnlyBoard

\* The tone task has detached the pin since the handle was looked up.
DetachTwice ==
  /\ pc \in {"scan", "store"} /\ Turn /\ ~board.handle[Handle].live
  /\ Restart

Unbind ==
  /\ At("unbind")
  /\ board' = [board EXCEPT !.bus[call.pin] = "init"]
  /\ Goto(local.after) /\ local' = NoLocal /\ OnlyBoard

\* perimanSetPinBus on a cleared pin: the tone task may have attached it since.
SetBus(new) ==
  IF IsLedc(board, call.pin) /\ board.bus[call.pin] # new
    THEN \E found \in Scan(board, call.pin, HandleOf(board, call.pin).channel) :
           board' = [Detached(board, call.pin, found) EXCEPT !.bus[call.pin] = new]
    ELSE board' = [board EXCEPT !.bus[call.pin] = new]

\* __pinMode. Whether the pin is a GPIO is looked up twice, before gpio_config and
\* behind it.
PinMode ==
  /\ At("mode")
  /\ IF board.bus[call.pin] = "gpio"
       THEN Goto("gpio") /\ UNCHANGED <<board, local>> /\ OnlyBoard
       ELSE Clear("gpio")

AsGpio ==
  /\ At("gpio") /\ SetBus("gpio")
  /\ Return /\ OnlyBoard

\* analogWrite, with ledcAttach and ledcWrite
AnalogWrite ==
  /\ At("value")
  /\ IF IsLedc(board, call.pin)
       THEN Goto("fetch") /\ UNCHANGED <<board, local>> /\ OnlyBoard
       ELSE Clear("pick")

\* The free channel is chosen here and not looked at again until it is taken.
PickChannel ==
  /\ At("pick")
  /\ IF FreeChannels(board) = {} THEN Return
       ELSE /\ local' = [local EXCEPT !.channel = Lowest(FreeChannels(board))]
            /\ Goto("attach")
  /\ UNCHANGED board /\ OnlyBoard

\* A pin that the tone task has attached is refused. Any other is cleared once more,
\* which does nothing to a pin that is not bound.
AttachChannel ==
  /\ At("attach")
  /\ IF IsLedc(board, call.pin) THEN Return ELSE Goto("config") /\ UNCHANGED local
  /\ UNCHANGED board /\ OnlyBoard

\* "found": the channel is already set up (channel_used).
Configure ==
  /\ At("config")
  /\ local' = [local EXCEPT !.found = local.channel \in board.used]
  /\ Goto("ownload") /\ UNCHANGED board /\ OnlyBoard

OwnLoad ==
  /\ At("ownload")
  /\ local' = [local EXCEPT !.loaded = board.used]
  /\ Goto("ownstore") /\ UNCHANGED board /\ OnlyBoard

OwnStore ==
  /\ At("ownstore")
  /\ board' = [board EXCEPT
       !.used = IF local.found THEN @ ELSE local.loaded \cup {local.channel},
       !.handle[<<call.pin, "main">>] = [live |-> TRUE, channel |-> local.channel]]
  /\ Goto("bind") /\ local' = NoLocal /\ OnlyBoard

Bind ==
  /\ At("bind") /\ SetBus("main")
  /\ Goto("fetch") /\ UNCHANGED local /\ OnlyBoard

Fetch ==
  /\ At("fetch")
  /\ IF IsLedc(board, call.pin)
       THEN Goto("write") /\ local' = [local EXCEPT !.owner = board.bus[call.pin]]
       ELSE Return
  /\ UNCHANGED board /\ OnlyBoard

WriteDuty ==
  /\ At("write")
  /\ board' \in Through(board, Handle, FALSE)
  /\ Return /\ OnlyBoard

\* tone and noTone test _pin; the tone task changes it. The first tone makes the
\* queue and the task (tone_init), or does nothing more when it cannot.
ToneCheckNone == \* mutant: any pin may send
  /\ At("tone") /\ Goto("send") /\ made' = TRUE
  /\ UNCHANGED <<board, tonePin, queue, delayed, local, raced>>

ToneCheck ==
  /\ At("tone")
  /\ \/ tonePin \in {None, call.pin} /\ Goto("send") /\ made' = TRUE /\ UNCHANGED local
     \/ tonePin \notin {None, call.pin} /\ Return /\ UNCHANGED made
     \/ ~made /\ Return /\ UNCHANGED made
  /\ UNCHANGED <<board, tonePin, queue, delayed, raced>>

Send(msg) ==
  /\ Len(queue) < QueueSize
  /\ queue' = Append(queue, msg)
  /\ Return
  /\ UNCHANGED <<board, tonePin, delayed, made, raced>>

ToneSend ==
  At("send") /\ Send([cmd |-> "START", pin |-> call.pin, freq |-> call.freq, timed |-> call.timed])

NoToneCheck ==
  /\ At("noTone")
  /\ IF tonePin = call.pin THEN Goto("reset") /\ UNCHANGED local ELSE Return
  /\ UNCHANGED <<board, tones, raced>>

QueueResetNot == \* mutant: the queue is left as it is
  /\ At("reset") /\ Goto("sendend")
  /\ UNCHANGED <<board, tones, local, raced>>

QueueResetLate == \* mutant: the queue is emptied after END was sent
  /\ At("reset") /\ queue' = <<>> /\ Return
  /\ UNCHANGED <<board, tonePin, delayed, made, raced>>

QueueReset ==
  /\ At("reset")
  /\ queue' = <<>>
  /\ Goto("sendend")
  /\ UNCHANGED <<board, tonePin, delayed, made, local, raced>>

NoToneSend == At("sendend") /\ Send([cmd |-> "END", pin |-> call.pin])

MainGoesOn ==
  \/ PinMode \/ AsGpio \/ DetachScan \/ DetachLoad \/ DetachStore \/ DetachTwice \/ Unbind
  \/ AnalogWrite \/ PickChannel \/ AttachChannel \/ Configure \/ OwnLoad \/ OwnStore
  \/ Bind \/ Fetch \/ WriteDuty
  \/ ToneCheck \/ ToneSend \/ NoToneCheck \/ QueueReset \/ NoToneSend

(* ---- the tone task ---- *)

Awake ==
  /\ raced' = (raced \/ pc \in OnBoard)
  /\ UNCHANGED <<made, program>>

Receive(cmd) == delayed = None /\ queue # <<>> /\ Head(queue).cmd = cmd

StartAnyway == \* mutant: goes on when the pin could not be attached
  /\ Receive("START") /\ queue' = Tail(queue)
  /\ LET m == Head(queue)
         ok == tonePin # None \/ (CanAttach(board, m.pin, m.freq) /\ m.freq \in Reachable)
         attached == IF tonePin = None /\ CanAttach(board, m.pin, m.freq)
                       THEN Attach(board, m.pin, m.freq, "tone") ELSE board
     IN /\ board' \in WriteTone(attached, m.pin, m.freq)
        /\ tonePin' = IF ok /\ tonePin = None THEN m.pin ELSE tonePin
        /\ delayed' = IF ok /\ m.timed THEN m.pin ELSE None
  /\ Awake

StartAgain == \* mutant: tries again when the pin could not be attached
  /\ Receive("START")
  /\ LET m == Head(queue)
         ok == tonePin # None \/ (CanAttach(board, m.pin, m.freq) /\ m.freq \in Reachable)
         attached == IF tonePin = None /\ CanAttach(board, m.pin, m.freq)
                       THEN Attach(board, m.pin, m.freq, "tone") ELSE board
     IN /\ queue' = IF ok THEN Tail(queue) ELSE queue
        /\ board' \in (IF ok THEN WriteTone(attached, m.pin, m.freq) ELSE {attached})
        /\ tonePin' = IF ok /\ tonePin = None THEN m.pin ELSE tonePin
        /\ delayed' = IF ok /\ m.timed THEN m.pin ELSE None
  /\ Awake

Start ==
  /\ Receive("START") /\ queue' = Tail(queue)
  /\ LET m == Head(queue)
         ok == tonePin # None \/ (CanAttach(board, m.pin, m.freq) /\ m.freq \in Reachable)
         attached == IF tonePin = None /\ CanAttach(board, m.pin, m.freq)
                       THEN Attach(board, m.pin, m.freq, "tone") ELSE board
     IN /\ board' \in (IF ok THEN WriteTone(attached, m.pin, m.freq) ELSE {attached})
        /\ tonePin' = IF ok /\ tonePin = None THEN m.pin ELSE tonePin
        /\ delayed' = IF ok /\ m.timed THEN m.pin ELSE None
  /\ Awake

Expire ==
  /\ delayed # None
  /\ board' \in WriteTone(board, delayed, 0)
  /\ delayed' = None
  /\ UNCHANGED <<tonePin, queue>> /\ Awake

\* ledcWriteTone(pin, 0), ledcDetach
End ==
  /\ Receive("END") /\ queue' = Tail(queue)
  /\ LET p == Head(queue).pin
     IN IF IsLedc(board, p)
          THEN /\ HandleOf(board, p).live
               /\ \E found \in Scan(board, p, HandleOf(board, p).channel) :
                    board' = Detached(Play(board, HandleOf(board, p).channel, FALSE), p, found)
          ELSE UNCHANGED board
  /\ tonePin' = None
  /\ UNCHANGED delayed /\ Awake

\* The program has just freed the handle that the tone task detaches.
EndTwice ==
  /\ Receive("END")
  /\ IsLedc(board, Head(queue).pin) /\ ~HandleOf(board, Head(queue).pin).live
  /\ Restart

ToneTask == Start \/ Expire \/ End \/ EndTwice

PressReset == Restart

Next ==
  \/ CallPinMode \/ CallAnalogWrite \/ CallTone \/ CallNoTone \/ MainGoesOn
  \/ ToneTask \/ PressReset

Fairness == WF_vars(MainGoesOn) /\ WF_vars(Start \/ End \/ EndTwice) /\ WF_vars(Expire)
Spec == Init /\ [][Next]_vars /\ Fairness

(* ---- properties ---- *)

\* Every variable has its type.
TypeOK ==
  /\ board \in Board
  /\ tonePin \in Pins \cup {None} /\ delayed \in Pins \cup {None}
  /\ queue \in Seq(Messages) /\ Len(queue) <= QueueSize
  /\ pc \in {"idle"} \cup OnBoard \cup OnQueue
  /\ call \in [pin : Pins, freq : Freqs \cup {0}, timed : BOOLEAN]
  /\ local \in [after : {"idle", "gpio", "pick"}, channel : Channels, found : BOOLEAN,
                loaded : SUBSET Channels, owner : Tasks]
  /\ made \in BOOLEAN /\ raced \in BOOLEAN

\* Two pins never have a tone at a time: whatever waits in the queue is about
\* one pin, the one that has the tone if one has. tone and noTone test _pin
\* long before the tone task takes their message.
OneTonePin ==
  /\ \A i, j \in 1 .. Len(queue) : queue[i].pin = queue[j].pin
  /\ tonePin # None => \A i \in 1 .. Len(queue) : queue[i].pin = tonePin
  /\ delayed \in {tonePin, None}

\* noTone overrides what is queued: no tone asked for before it is played after
\* it was called.
NoToneOverrides == \A i \in 2 .. Len(queue) : queue[i].cmd = "START"

\* The channels in use are those of the LEDC pins, no two pins have one channel,
\* and no pin is bound to a freed handle.
Balanced(b) ==
  /\ \A p \in LedcPins(b) : HandleOf(b, p).live
  /\ \A p, q \in LedcPins(b) : HandleOf(b, p).channel = HandleOf(b, q).channel => p = q
  /\ b.used = {HandleOf(b, p).channel : p \in LedcPins(b)}

\* Between two calls of the program the books are balanced, whichever task
\* attached and detached the pins, as long as the tone task has not run in the
\* middle of a pinMode or analogWrite.
Settled == pc = "idle" /\ Turn /\ ~raced
Books == Settled => Balanced(board)

\* No tone sounds that noTone cannot end: it refuses any pin but _pin.
SoundsOnTonePin ==
  Settled => \A p \in LedcPins(board) :
    HandleOf(board, p).channel \in board.sound => p = tonePin

\* No call blocks for ever, although the queue may be full and the tone task
\* goes first whenever it can.
CallsReturn == pc # "idle" ~> pc = "idle"

\* A noTone that found its tone ends it, even one that waits for a timed tone.
NoToneEnds == pc = "reset" ~> tonePin = None
=============================================================================
