----------------------------- MODULE ToneProofs -----------------------------
(***************************************************************************)
(* The tone queue is about one pin, noTone overrides what waits in it, and *)
(* the books of the LEDC channels are right, for all pins, any number of   *)
(* channels and any length of the queue.                                   *)
(***************************************************************************)
EXTENDS Tone, Recursion, TLAPS

USE PinAssumption, QueueAssumption

(* ---- the pin table ---- *)

(* ledcAttach takes a channel that is free.                                *)
LEMMA LowestIsFree ==
  ASSUME NEW b, FreeChannels(b) # {}
  PROVE  Lowest(FreeChannels(b)) \in FreeChannels(b)
<1>1. FreeChannels(b) \subseteq Nat
  BY DEF FreeChannels, Channels
<1>2. \E c \in FreeChannels(b) : \A d \in FreeChannels(b) : c <= d
  BY <1>1, Smallest
<1> QED
  BY <1>2 DEF Lowest

(* What reading a handle gives.                                            *)
LEMMA HandleType ==
  ASSUME NEW b \in Board, NEW p \in Pins, IsLedc(b, p)
  PROVE  /\ <<p, b.bus[p]>> \in Handles
         /\ HandleOf(b, p) \in [live : BOOLEAN, channel : Channels]
BY DEF Board, IsLedc, HandleOf, Handles

LEMMA AttachType ==
  ASSUME NEW b \in Board, NEW p \in Pins, NEW f, NEW t \in Tasks, FreeChannels(b) # {}
  PROVE  Attach(b, p, f, t) \in Board
<1> DEFINE c == Lowest(FreeChannels(b))
<1>1. c \in Channels
  BY LowestIsFree DEF FreeChannels
<1>2. <<p, t>> \in Handles
  BY DEF Handles
<1> HIDE DEF c
<1>3. [b EXCEPT !.bus[p] = t, !.used = @ \cup {c},
                !.handle[<<p, t>>] = [live |-> TRUE, channel |-> c]] \in Board
  BY <1>1, <1>2 DEF Board
<1>4. [b EXCEPT !.bus[p] = "init"] \in Board
  BY DEF Board
<1> QED
  BY <1>3, <1>4 DEF Attach, c

LEMMA DetachedType ==
  ASSUME NEW b \in Board, NEW p \in Pins, IsLedc(b, p), NEW found \in BOOLEAN
  PROVE  Detached(b, p, found) \in Board
<1>1. Freed \in [live : BOOLEAN, channel : Channels]
  BY DEF Freed, Channels
<1> QED
  BY <1>1, HandleType DEF Detached, Board

LEMMA PlayType ==
  ASSUME NEW b \in Board, NEW c \in Channels, NEW on \in BOOLEAN
  PROVE  Play(b, c, on) \in Board
BY DEF Play, Board

LEMMA ThroughType ==
  ASSUME NEW b \in Board, NEW h \in Handles, NEW on \in BOOLEAN
  PROVE  Through(b, h, on) \subseteq Board
<1>1. b.handle[h].channel \in Channels
  BY DEF Board
<1> QED
  BY <1>1, PlayType DEF Through

LEMMA WriteToneType ==
  ASSUME NEW b \in Board, NEW p \in Pins, NEW freq
  PROVE  WriteTone(b, p, freq) \subseteq Board
BY HandleType, ThroughType DEF WriteTone

LEMMA ResetType == Reset \in Board
<1>1. Freed \in [live : BOOLEAN, channel : Channels]
  BY DEF Freed, Channels
<1> QED
  BY <1>1 DEF Reset, Board

LEMMA ScanType ==
  ASSUME NEW b, NEW p, NEW c
  PROVE  Scan(b, p, c) \subseteq BOOLEAN
BY DEF Scan

(* ---- the invariant ---- *)

(* Between its test of _pin and its message the program holds on to the     *)
(* pin, whatever the tone task does in the meantime.                        *)
Committed ==
  /\ pc \in {"send", "reset", "sendend"} =>
       /\ tonePin \in {None, call.pin}
       /\ \A i \in 1 .. Len(queue) : queue[i].pin = call.pin
  /\ pc = "sendend" => queue = <<>>

ToneInv == TypeOK /\ OneTonePin /\ NoToneOverrides /\ Committed

LEMMA NoLocalType ==
  NoLocal \in [after : {"idle", "gpio", "pick"}, channel : Channels, found : BOOLEAN,
               loaded : SUBSET Channels, owner : Tasks]
BY DEF NoLocal, Channels, Tasks

LEMMA InitTone == Init => ToneInv
<1> SUFFICES ASSUME Init PROVE ToneInv
  OBVIOUS
<1>1. board \in Board
  BY ResetType DEF Init
<1>2. queue \in Seq(Messages) /\ Len(queue) = 0
  BY DEF Init
<1>3. call \in [pin : Pins, freq : Freqs \cup {0}, timed : BOOLEAN]
  BY DEF Init
<1>4. raced \in BOOLEAN /\ made \in BOOLEAN
  BY Zenon DEF Init
<1>5. TypeOK
  BY <1>1, <1>2, <1>3, <1>4, NoLocalType DEF Init, TypeOK
<1> QED
  BY <1>2, <1>5 DEF Init, ToneInv, OneTonePin, NoToneOverrides, Committed

(* What becomes of the queue and the call when a function returns.          *)
LEMMA ReturnType ==
  ASSUME TypeOK, Return
  PROVE  /\ pc' = "idle" /\ call'.pin = call.pin
         /\ call' \in [pin : Pins, freq : Freqs \cup {0}, timed : BOOLEAN]
         /\ local' \in [after : {"idle", "gpio", "pick"}, channel : Channels, found : BOOLEAN,
                        loaded : SUBSET Channels, owner : Tasks]
BY NoLocalType DEF TypeOK, Return

(* The calls.                                                               *)
LEMMA CallStep ==
  ASSUME ToneInv, CallPinMode \/ CallAnalogWrite \/ CallNoTone \/ CallTone
  PROVE  ToneInv'
<1>1. call' \in [pin : Pins, freq : Freqs \cup {0}, timed : BOOLEAN]
      /\ pc' \in {"mode", "value", "noTone", "tone"}
  <2>1. CASE CallTone
    BY <2>1 DEF CallTone
  <2>2. CASE CallPinMode \/ CallAnalogWrite \/ CallNoTone
    <3>1. PICK p \in Pins : call' = [pin |-> p, freq |-> 0, timed |-> FALSE]
      BY <2>2 DEF CallPinMode, CallAnalogWrite, CallNoTone, Begin
    <3> QED
      BY <2>2, <3>1 DEF CallPinMode, CallAnalogWrite, CallNoTone, Begin
  <2> QED
    BY <2>1, <2>2
<1>2. UNCHANGED <<board, tones, local, raced>>
  BY DEF CallPinMode, CallAnalogWrite, CallNoTone, CallTone, Begin
<1> QED
  BY <1>1, <1>2 DEF ToneInv, TypeOK, OneTonePin, NoToneOverrides, Committed, tones, OnBoard, OnQueue

(* The restart of the board.                                                *)
LEMMA RestartStep ==
  ASSUME ToneInv, Restart
  PROVE  ToneInv'
<1>1. board' \in Board
  BY ResetType DEF Restart
<1>2. queue' \in Seq(Messages) /\ Len(queue') = 0
  BY DEF Restart
<1>3. raced' \in BOOLEAN /\ made' \in BOOLEAN
  BY Zenon DEF Restart
<1>4. Return /\ tonePin' = None /\ delayed' = None
  BY DEF Restart
<1>5. TypeOK'
  BY <1>1, <1>2, <1>3, <1>4, ReturnType DEF ToneInv, TypeOK
<1> QED
  BY <1>2, <1>4, <1>5, ReturnType DEF ToneInv, OneTonePin, NoToneOverrides, Committed

(* The steps of pinMode and analogWrite change nothing of the tones.        *)
LEMMA OffTones ==
  ASSUME ToneInv, UNCHANGED <<tones, raced>>, board' \in Board,
         pc' \in {"idle"} \cup OnBoard,
         call' \in [pin : Pins, freq : Freqs \cup {0}, timed : BOOLEAN],
         local' \in [after : {"idle", "gpio", "pick"}, channel : Channels, found : BOOLEAN,
                     loaded : SUBSET Channels, owner : Tasks]
  PROVE  ToneInv'
BY DEF ToneInv, TypeOK, OneTonePin, NoToneOverrides, Committed, tones, OnBoard

LEMMA ClearType ==
  ASSUME ToneInv, NEW next \in {"gpio", "pick"}, Clear(next)
  PROVE  ToneInv'
<1>1. board.bus[call.pin] \in {"init", "gpio"} \cup Tasks
  BY DEF ToneInv, TypeOK, Board
<1>2. call' = call /\ board' = board /\ UNCHANGED <<tones, raced>>
  BY DEF Clear, Goto, OnlyBoard
<1>3. pc' \in OnBoard
  BY DEF Clear, Goto, OnBoard
<1>4. local' \in [after : {"idle", "gpio", "pick"}, channel : Channels, found : BOOLEAN,
                  loaded : SUBSET Channels, owner : Tasks]
  <2>1. CASE board.bus[call.pin] = "init"
    BY <2>1 DEF Clear, ToneInv, TypeOK
  <2>2. CASE board.bus[call.pin] = "gpio"
    BY <2>2 DEF Clear, ToneInv, TypeOK
  <2>3. CASE board.bus[call.pin] \in Tasks
    <3>1. local' = [local EXCEPT !.after = next, !.owner = board.bus[call.pin]]
      BY <2>3 DEF Clear, Tasks
    <3> QED
      BY <2>3, <3>1 DEF ToneInv, TypeOK
  <2> QED
    BY <1>1, <2>1, <2>2, <2>3
<1> QED
  BY <1>2, <1>3, <1>4, OffTones DEF ToneInv, TypeOK

LEMMA SetBusType ==
  ASSUME ToneInv, NEW new \in {"gpio", "main"}, SetBus(new)
  PROVE  board' \in Board
<1>1. call.pin \in Pins /\ board \in Board
  BY DEF ToneInv, TypeOK
<1>2. CASE IsLedc(board, call.pin) /\ board.bus[call.pin] # new
  <2>1. PICK found \in BOOLEAN :
          board' = [Detached(board, call.pin, found) EXCEPT !.bus[call.pin] = new]
    BY <1>2, ScanType DEF SetBus
  <2>2. Detached(board, call.pin, found) \in Board
    BY <1>1, <1>2, DetachedType
  <2> QED
    BY <1>1, <2>1, <2>2 DEF Board, Tasks
<1>3. CASE ~(IsLedc(board, call.pin) /\ board.bus[call.pin] # new)
  BY <1>1, <1>3 DEF SetBus, Board, Tasks
<1> QED
  BY <1>2, <1>3

(* The steps of pinMode and analogWrite.                                    *)
LEMMA BoardStep ==
  ASSUME ToneInv,
         \/ PinMode \/ AsGpio \/ DetachScan \/ DetachLoad \/ DetachStore \/ DetachTwice \/ Unbind
         \/ AnalogWrite \/ PickChannel \/ AttachChannel \/ Configure \/ OwnLoad \/ OwnStore
         \/ Bind \/ Fetch \/ WriteDuty
  PROVE  ToneInv'
<1> DEFINE Locals == [after : {"idle", "gpio", "pick"}, channel : Channels, found : BOOLEAN,
                      loaded : SUBSET Channels, owner : Tasks]
           Calls == [pin : Pins, freq : Freqs \cup {0}, timed : BOOLEAN]
<1>1. /\ board \in Board /\ call \in Calls /\ local \in Locals
      /\ board.used \subseteq Channels /\ board.bus[call.pin] \in {"init", "gpio"} \cup Tasks
      /\ Handle \in Handles
  BY DEF ToneInv, TypeOK, Board, Handle, Handles
<1>2. board.handle[Handle] \in [live : BOOLEAN, channel : Channels]
  BY <1>1 DEF Board
<1>3. Freed \in [live : BOOLEAN, channel : Channels]
  BY DEF Freed, Channels
<1> HIDE DEF Locals, Calls
<1>4. SUFFICES ASSUME ~DetachTwice, ~ \E next \in {"gpio", "pick"} : Clear(next)
               PROVE  /\ UNCHANGED <<tones, raced>> /\ board' \in Board
                      /\ pc' \in {"idle"} \cup OnBoard /\ call' \in Calls /\ local' \in Locals
  BY <1>4, RestartStep, ClearType, OffTones DEF DetachTwice, Locals, Calls
<1>5. Return => pc' = "idle" /\ call' \in Calls /\ local' \in Locals
  BY ReturnType DEF ToneInv, Locals, Calls
<1>6. NoLocal \in Locals
  BY NoLocalType DEF Locals
<1>7. CASE PinMode
  BY <1>1, <1>4, <1>7 DEF PinMode, Goto, OnlyBoard, OnBoard
<1>8. CASE AsGpio
  BY <1>5, <1>8, SetBusType DEF AsGpio, OnlyBoard
<1>9. CASE DetachScan
  <2>1. PICK found \in BOOLEAN :
          local' = [local EXCEPT !.channel = board.handle[Handle].channel, !.found = found]
    <3>1. Scan(board, call.pin, board.handle[Handle].channel) \subseteq BOOLEAN
      BY ScanType
    <3> QED
      BY <1>9, <3>1 DEF DetachScan
  <2>2. local' \in Locals
    BY <1>1, <1>2, <2>1 DEF Locals
  <2> QED
    BY <1>1, <1>9, <2>2 DEF DetachScan, Goto, OnlyBoard, OnBoard
<1>10. CASE DetachLoad
  <2>1. local' \in Locals
    BY <1>1, <1>10 DEF DetachLoad, Locals
  <2> QED
    BY <1>1, <1>10, <2>1 DEF DetachLoad, Goto, OnlyBoard, OnBoard
<1>11. CASE DetachStore
  <2>1. local' \in Locals
    BY <1>1, <1>6, <1>11 DEF DetachStore, Locals
  <2>2. local.loaded \ {local.channel} \subseteq Channels
    BY <1>1 DEF Locals
  <2>3. board' \in Board
    BY <1>1, <1>3, <1>11, <2>2 DEF DetachStore, Board
  <2> QED
    BY <1>1, <1>11, <2>1, <2>3 DEF DetachStore, Goto, OnlyBoard, OnBoard
<1>12. CASE Unbind
  <2>1. board' \in Board
    BY <1>1, <1>12 DEF Unbind, Board
  <2>2. local.after \in {"idle", "gpio", "pick"}
    BY <1>1 DEF Locals
  <2> QED
    BY <1>1, <1>6, <1>12, <2>1, <2>2 DEF Unbind, Goto, OnlyBoard, OnBoard
<1>13. CASE AnalogWrite
  BY <1>1, <1>4, <1>13 DEF AnalogWrite, Goto, OnlyBoard, OnBoard
<1>14. CASE PickChannel
  <2>1. CASE FreeChannels(board) = {}
    BY <1>1, <1>5, <1>14, <2>1 DEF PickChannel, OnlyBoard
  <2>2. CASE FreeChannels(board) # {}
    <3>1. Lowest(FreeChannels(board)) \in Channels
      BY <2>2, LowestIsFree DEF FreeChannels
    <3>2. local' \in Locals
      BY <1>1, <1>14, <2>2, <3>1 DEF PickChannel, Locals
    <3> QED
      BY <1>1, <1>14, <2>2, <3>2 DEF PickChannel, Goto, OnlyBoard, OnBoard
  <2> QED
    BY <2>1, <2>2
<1>15. CASE Configure
  <2>1. (local.channel \in board.used) \in BOOLEAN
    OBVIOUS
  <2>2. local' \in Locals
    BY <1>1, <1>15, <2>1 DEF Configure, Locals
  <2> QED
    BY <1>1, <1>15, <2>2 DEF Configure, Goto, OnlyBoard, OnBoard
<1>16. CASE OwnLoad
  <2>1. local' \in Locals
    BY <1>1, <1>16 DEF OwnLoad, Locals
  <2> QED
    BY <1>1, <1>16, <2>1 DEF OwnLoad, Goto, OnlyBoard, OnBoard
<1>17. CASE OwnStore
  <2>1. local.loaded \cup {local.channel} \subseteq Channels /\ local.channel \in Channels
    BY <1>1 DEF Locals
  <2>2. <<call.pin, "main">> \in Handles
    BY <1>1 DEF Calls, Handles, Tasks
  <2>3. board' \in Board
    BY <1>1, <1>17, <2>1, <2>2 DEF OwnStore, Board
  <2> QED
    BY <1>1, <1>6, <1>17, <2>3 DEF OwnStore, Goto, OnlyBoard, OnBoard
<1>18. CASE Bind
  BY <1>1, <1>18, SetBusType DEF Bind, Goto, OnlyBoard, OnBoard
<1>19. CASE Fetch
  <2>1. CASE IsLedc(board, call.pin)
    <3>1. local' \in Locals
      BY <1>1, <1>19, <2>1 DEF Fetch, Locals, IsLedc
    <3> QED
      BY <1>1, <1>19, <2>1, <3>1 DEF Fetch, Goto, OnlyBoard, OnBoard
  <2>2. CASE ~IsLedc(board, call.pin)
    BY <1>1, <1>5, <1>19, <2>2 DEF Fetch, OnlyBoard
  <2> QED
    BY <2>1, <2>2
<1>20. CASE WriteDuty
  <2>1. board' \in Board
    BY <1>1, <1>20, ThroughType DEF WriteDuty
  <2> QED
    BY <1>5, <1>20, <2>1 DEF WriteDuty, OnlyBoard
<1>21. CASE AttachChannel
  BY <1>1, <1>5, <1>21 DEF AttachChannel, Goto, OnlyBoard, OnBoard
<1> QED
  BY <1>4, <1>7, <1>8, <1>9, <1>10, <1>11, <1>12, <1>13, <1>14, <1>15, <1>16, <1>17, <1>18,
     <1>19, <1>20, <1>21

(* The steps of tone and noTone.                                            *)
LEMMA QueueStep ==
  ASSUME ToneInv, ToneCheck \/ ToneSend \/ NoToneCheck \/ QueueReset \/ NoToneSend
  PROVE  ToneInv'
<1> USE DEF Goto, At
<1>1. tonePin = None /\ Turn => queue = <<>>
  BY DEF ToneInv, OneTonePin, Turn
<1>2. Return => /\ pc' = "idle" /\ call'.pin = call.pin
                /\ call' \in [pin : Pins, freq : Freqs \cup {0}, timed : BOOLEAN]
                /\ local' \in [after : {"idle", "gpio", "pick"}, channel : Channels,
                               found : BOOLEAN, loaded : SUBSET Channels, owner : Tasks]
  BY ReturnType DEF ToneInv
<1>3. CASE ToneCheck
  <2>1. made' \in BOOLEAN
    <3>1. made \in BOOLEAN
      BY DEF ToneInv, TypeOK
    <3> QED
      BY Zenon, <1>3, <3>1 DEF ToneCheck
  <2> QED
    BY <1>1, <1>2, <1>3, <2>1 DEF ToneCheck, ToneInv, TypeOK, OneTonePin, NoToneOverrides,
       Committed, OnQueue
<1>4. CASE NoToneCheck
  BY <1>1, <1>2, <1>4 DEF NoToneCheck, ToneInv, TypeOK, OneTonePin, NoToneOverrides, Committed,
     tones, OnQueue
<1>5. CASE QueueReset
  <2>1. queue' = <<>> /\ queue' \in Seq(Messages) /\ Len(queue') = 0
    BY <1>5 DEF QueueReset
  <2> QED
    BY <1>5, <2>1 DEF QueueReset, ToneInv, TypeOK, OneTonePin, NoToneOverrides, Committed, OnQueue
<1>6. ASSUME NEW msg \in Messages, Send(msg), msg.pin = call.pin,
             msg.cmd = "START" \/ queue = <<>>, pc \in {"send", "sendend"}
      PROVE  ToneInv'
  <2>1. queue \in Seq(Messages) /\ queue' = Append(queue, msg) /\ Len(queue) < QueueSize
    BY <1>6 DEF Send, ToneInv, TypeOK
  <2>2. /\ queue' \in Seq(Messages) /\ Len(queue') = Len(queue) + 1
        /\ \A i \in 1 .. Len(queue) : queue'[i] = queue[i]
        /\ queue'[Len(queue) + 1] = msg
    BY <2>1
  <2>3. Return /\ UNCHANGED <<board, tonePin, delayed, made, raced>>
    BY <1>6 DEF Send
  <2>4. TypeOK'
    BY <1>2, <2>1, <2>2, <2>3 DEF ToneInv, TypeOK
  <2>5. /\ \A i \in 1 .. Len(queue) : queue[i].pin = call.pin
        /\ tonePin \in {None, call.pin}
    BY <1>6 DEF ToneInv, Committed
  <2>6. \A i \in 1 .. Len(queue') : queue'[i].pin = call.pin
    BY <1>6, <2>1, <2>2, <2>5
  <2>7. OneTonePin'
    BY <2>3, <2>5, <2>6 DEF ToneInv, OneTonePin
  <2>8. NoToneOverrides'
    BY <1>6, <2>1, <2>2 DEF ToneInv, NoToneOverrides
  <2> QED
    BY <1>2, <2>3, <2>4, <2>7, <2>8 DEF ToneInv, Committed
<1>7. call.pin \in Pins /\ call.timed \in BOOLEAN
  BY DEF ToneInv, TypeOK
<1>8. CASE ToneSend
  <2>1. call.freq \in Freqs \cup {0}
    BY DEF ToneInv, TypeOK
  <2> QED
    BY <1>6, <1>7, <1>8, <2>1 DEF ToneSend, Messages
<1>9. CASE NoToneSend
  <2>1. queue = <<>>
    BY <1>9 DEF NoToneSend, ToneInv, Committed
  <2> QED
    BY <1>6, <1>7, <1>9, <2>1 DEF NoToneSend, Messages
<1> QED
  BY <1>3, <1>4, <1>5, <1>8, <1>9

(* The steps of the tone task.                                              *)
LEMMA TaskStep ==
  ASSUME ToneInv, ToneTask
  PROVE  ToneInv'
<1>1. CASE EndTwice
  BY <1>1, RestartStep DEF EndTwice
<1>2. CASE Expire
  <2>1. delayed \in Pins /\ board \in Board
    BY <1>2 DEF Expire, ToneInv, TypeOK
  <2>2. board' \in Board
    BY <1>2, <2>1, WriteToneType DEF Expire
  <2>3. raced' \in BOOLEAN
    BY <1>2 DEF Expire, Awake
  <2> QED
    BY <1>2, <2>2, <2>3 DEF Expire, Awake, program, ToneInv, TypeOK, OneTonePin, NoToneOverrides,
       Committed
<1>3. ASSUME Start \/ End PROVE ToneInv'
  <2> DEFINE m == Head(queue)
  <2>1. queue \in Seq(Messages) /\ queue # <<>> /\ queue' = Tail(queue) /\ delayed = None
    BY <1>3 DEF Start, End, Receive, ToneInv, TypeOK
  <2>2. /\ queue' \in Seq(Messages) /\ Len(queue') = Len(queue) - 1
        /\ \A i \in 1 .. Len(queue') : queue'[i] = queue[i + 1] /\ i + 1 \in 2 .. Len(queue)
        /\ m = queue[1] /\ 1 \in 1 .. Len(queue)
    BY <2>1
  <2>3. m \in Messages /\ m.pin \in Pins
    BY <2>1 DEF Messages
  <2>4. UNCHANGED program /\ raced' \in BOOLEAN /\ made' = made
    BY <1>3 DEF Start, End, Awake
  <2>5. \A i \in 1 .. Len(queue') : queue'[i].pin = m.pin
    BY <2>2 DEF ToneInv, OneTonePin
  <2>6. tonePin \in {None, m.pin}
    BY <2>2 DEF ToneInv, OneTonePin
  <2>7. board \in Board
    BY DEF ToneInv, TypeOK
  <2>8. board' \in Board /\ tonePin' \in {None, m.pin} /\ delayed' \in {tonePin', None}
    <3>1. CASE Start
      <4> DEFINE can == CanAttach(board, m.pin, m.freq)
                 ok == tonePin # None \/ (can /\ m.freq \in Reachable)
                 attached == IF tonePin = None /\ can
                               THEN Attach(board, m.pin, m.freq, "tone") ELSE board
      <4>1. attached \in Board
        BY <2>3, <2>7, AttachType DEF CanAttach, Tasks
      <4>2. WriteTone(attached, m.pin, m.freq) \subseteq Board
        BY <2>3, <4>1, WriteToneType
      <4>3. /\ board' \in (IF ok THEN WriteTone(attached, m.pin, m.freq) ELSE {attached})
            /\ tonePin' = IF ok /\ tonePin = None THEN m.pin ELSE tonePin
            /\ delayed' = IF ok /\ m.timed THEN m.pin ELSE None
        BY <3>1 DEF Start
      <4>4. board' \in Board
        BY <4>1, <4>2, <4>3
      <4> HIDE DEF can, attached, m
      <4>5. ok /\ tonePin # None => tonePin = m.pin
        BY <2>6
      <4> QED
        BY <2>6, <4>3, <4>4, <4>5
    <3>2. CASE End
      <4>1. tonePin' = None /\ delayed' = None
        BY <2>1, <3>2 DEF End
      <4>2. CASE IsLedc(board, m.pin)
        <5>1. PICK found \in Scan(board, m.pin, HandleOf(board, m.pin).channel) :
                board' = Detached(Play(board, HandleOf(board, m.pin).channel, FALSE), m.pin, found)
          BY <3>2, <4>2 DEF End
        <5>2. found \in BOOLEAN
          BY <5>1, ScanType
        <5>3. /\ Play(board, HandleOf(board, m.pin).channel, FALSE) \in Board
              /\ IsLedc(Play(board, HandleOf(board, m.pin).channel, FALSE), m.pin)
          BY <2>3, <2>7, <4>2, HandleType, PlayType DEF Play, IsLedc, Board
        <5> QED
          BY <2>3, <4>1, <5>1, <5>2, <5>3, DetachedType
      <4>3. CASE ~IsLedc(board, m.pin)
        BY <2>7, <3>2, <4>1, <4>3 DEF End
      <4> QED
        BY <4>2, <4>3
    <3> QED
      BY <1>3, <3>1, <3>2
  <2> HIDE DEF m
  <2>9. TypeOK'
    BY <2>1, <2>2, <2>3, <2>4, <2>8 DEF ToneInv, TypeOK, program
  <2>10. OneTonePin'
    BY <2>5, <2>8 DEF OneTonePin
  <2>11. NoToneOverrides'
    BY <2>2 DEF ToneInv, NoToneOverrides
  <2>12. Committed'
    <3>1. pc \in {"send", "reset", "sendend"} => m.pin = call.pin
      BY <2>2 DEF ToneInv, Committed
    <3>2. pc # "sendend"
      BY <2>1 DEF ToneInv, Committed
    <3> QED
      BY <2>4, <2>5, <2>8, <3>1, <3>2 DEF Committed, program
  <2> QED
    BY <2>9, <2>10, <2>11, <2>12 DEF ToneInv
<1> QED
  BY <1>1, <1>2, <1>3 DEF ToneTask

LEMMA StepTone == ToneInv /\ [Next]_vars => ToneInv'
<1> SUFFICES ASSUME ToneInv, [Next]_vars PROVE ToneInv'
  OBVIOUS
<1>1. CASE UNCHANGED vars
  BY <1>1 DEF ToneInv, TypeOK, OneTonePin, NoToneOverrides, Committed, vars
<1>2. CASE Next
  BY <1>2, CallStep, BoardStep, QueueStep, TaskStep, RestartStep DEF Next, MainGoesOn, PressReset
<1> QED
  BY <1>1, <1>2

(* The invariant holds whatever the pins, the channels and the queue.        *)
THEOREM ToneInvariant == Spec => []ToneInv
BY InitTone, StepTone, PTL DEF Spec

(* Every variable has its type.                                              *)
THEOREM ToneTypes == Spec => []TypeOK
<1>1. ToneInv => TypeOK
  BY DEF ToneInv
<1> QED
  BY <1>1, ToneInvariant, PTL

(* Two pins never have a tone at a time.                                     *)
THEOREM TonesOnOnePin == Spec => []OneTonePin
<1>1. ToneInv => OneTonePin
  BY DEF ToneInv
<1> QED
  BY <1>1, ToneInvariant, PTL

(* noTone overrides what is queued.                                          *)
THEOREM NoToneOverridesQueue == Spec => []NoToneOverrides
<1>1. ToneInv => NoToneOverrides
  BY DEF ToneInv
<1> QED
  BY <1>1, ToneInvariant, PTL

(* ---- the books ---- *)

(* What balanced books rest on.                                             *)
LEMMA SameBooks ==
  ASSUME NEW b, NEW d, d.bus = b.bus, d.handle = b.handle, d.used = b.used, Balanced(b)
  PROVE  Balanced(d)
BY DEF Balanced, LedcPins, IsLedc, HandleOf

LEMMA PlayBooks ==
  ASSUME NEW b \in Board, NEW c, NEW on, Balanced(b)
  PROVE  Balanced(Play(b, c, on))
<1>1. /\ Play(b, c, on).bus = b.bus /\ Play(b, c, on).handle = b.handle
      /\ Play(b, c, on).used = b.used
  BY DEF Play, Board
<1> QED
  BY <1>1, SameBooks

LEMMA ThroughBooks ==
  ASSUME NEW b \in Board, NEW h, NEW on, Balanced(b), NEW d \in Through(b, h, on)
  PROVE  Balanced(d)
BY PlayBooks DEF Through

LEMMA WriteToneBooks ==
  ASSUME NEW b \in Board, NEW p, NEW freq, Balanced(b), NEW d \in WriteTone(b, p, freq)
  PROVE  Balanced(d)
BY ThroughBooks DEF WriteTone

LEMMA ResetBooks == Balanced(Reset)
<1>1. LedcPins(Reset) = {} /\ Reset.used = {}
  BY DEF LedcPins, IsLedc, Reset, Tasks
<1> QED
  BY <1>1 DEF Balanced

(* In balanced books nobody shares a channel.                               *)
LEMMA ScanAlone ==
  ASSUME NEW b, NEW p \in Pins, IsLedc(b, p), Balanced(b)
  PROVE  Scan(b, p, HandleOf(b, p).channel) = {FALSE}
BY DEF Scan, Balanced, LedcPins

(* Taking a pin out of the table, with its channel.                         *)
LEMMA DetachBooks ==
  ASSUME NEW b \in Board, NEW p \in Pins, IsLedc(b, p), Balanced(b), NEW d \in Board,
         d.used = b.used \ {HandleOf(b, p).channel},
         d.bus = [b.bus EXCEPT ![p] = "init"],
         d.handle = [b.handle EXCEPT ![<<p, b.bus[p]>>] = Freed]
  PROVE  Balanced(d)
<1>1. LedcPins(d) = LedcPins(b) \ {p}
  BY DEF LedcPins, IsLedc, Board, Tasks
<1>2. \A q \in LedcPins(d) : HandleOf(d, q) = HandleOf(b, q)
  <2> SUFFICES ASSUME NEW q \in LedcPins(d) PROVE HandleOf(d, q) = HandleOf(b, q)
    OBVIOUS
  <2>1. q \in Pins /\ q # p /\ d.bus[q] = b.bus[q]
    BY <1>1 DEF LedcPins, Board
  <2>2. <<q, b.bus[q]>> # <<p, b.bus[p]>>
    BY <2>1
  <2>3. <<q, b.bus[q]>> \in Handles
    BY <1>1 DEF LedcPins, IsLedc, Handles
  <2> QED
    BY <2>1, <2>2, <2>3 DEF HandleOf, Board
<1> QED
  BY <1>1, <1>2 DEF Balanced, LedcPins

(* Putting a pin into it, on a free channel.                                *)
LEMMA AttachBooks ==
  ASSUME NEW b \in Board, NEW p \in Pins, ~IsLedc(b, p), Balanced(b), NEW d \in Board,
         NEW t \in Tasks, NEW c \in Channels \ b.used,
         d.used = b.used \cup {c},
         d.bus = [b.bus EXCEPT ![p] = t],
         d.handle = [b.handle EXCEPT ![<<p, t>>] = [live |-> TRUE, channel |-> c]]
  PROVE  Balanced(d)
<1>1. LedcPins(d) = LedcPins(b) \cup {p} /\ p \notin LedcPins(b)
  BY DEF LedcPins, IsLedc, Board
<1>2. \A q \in LedcPins(b) : HandleOf(d, q) = HandleOf(b, q)
  <2> SUFFICES ASSUME NEW q \in LedcPins(b) PROVE HandleOf(d, q) = HandleOf(b, q)
    OBVIOUS
  <2>1. q \in Pins /\ q # p /\ d.bus[q] = b.bus[q]
    BY <1>1 DEF LedcPins, Board
  <2>2. <<q, b.bus[q]>> # <<p, t>>
    BY <2>1
  <2>3. <<q, b.bus[q]>> \in Handles
    BY DEF LedcPins, IsLedc, Handles
  <2> QED
    BY <2>1, <2>2, <2>3 DEF HandleOf, Board
<1>3. HandleOf(d, p) = [live |-> TRUE, channel |-> c]
  <2>1. d.bus[p] = t /\ <<p, t>> \in Handles
    BY DEF Board, Handles
  <2> QED
    BY <2>1 DEF HandleOf, Board
<1>4. \A q \in LedcPins(b) : HandleOf(b, q).channel # c
  BY DEF Balanced
<1> QED
  BY <1>1, <1>2, <1>3, <1>4 DEF Balanced

(* A pin without a channel may change its role.                             *)
LEMMA RoleBooks ==
  ASSUME NEW b \in Board, NEW p \in Pins, ~IsLedc(b, p), Balanced(b),
         NEW new \in {"init", "gpio"}
  PROVE  Balanced([b EXCEPT !.bus[p] = new])
<1> DEFINE d == [b EXCEPT !.bus[p] = new]
<1>1. d.handle = b.handle /\ d.used = b.used /\ d.bus = [b.bus EXCEPT ![p] = new]
  BY DEF Board
<1> HIDE DEF d
<1>2. LedcPins(d) = LedcPins(b) /\ p \notin LedcPins(b)
  BY <1>1 DEF LedcPins, IsLedc, Board, Tasks
<1>3. \A q \in LedcPins(b) : HandleOf(d, q) = HandleOf(b, q)
  <2> SUFFICES ASSUME NEW q \in LedcPins(b) PROVE HandleOf(d, q) = HandleOf(b, q)
    OBVIOUS
  <2>1. q \in Pins /\ q # p
    BY <1>2 DEF LedcPins
  <2>2. d.bus[q] = b.bus[q]
    BY <1>1, <2>1 DEF Board
  <2> QED
    BY <1>1, <2>2 DEF HandleOf
<1>4. Balanced(d)
  BY <1>1, <1>2, <1>3 DEF Balanced
<1> QED
  BY <1>4 DEF d

(* Where the program stands in pinMode or analogWrite, and what the books    *)
(* will be when it has entered what it is about to enter.                    *)
Rebound(bus) == [board EXCEPT !.bus[call.pin] = bus]
Detaching == {"scan", "load", "store"}
Attaching == {"config", "ownload", "ownstore"}
BooksInv ==
  ~raced =>
    /\ pc \notin {"unbind", "bind"} => Balanced(board)
    /\ pc = "unbind" => Balanced(Rebound("init"))
    /\ pc = "bind" => Balanced(Rebound("main"))
    /\ pc \in Detaching => board.bus[call.pin] \in Tasks /\ local.owner = board.bus[call.pin]
    /\ pc \in {"load", "store"} =>
         ~local.found /\ local.channel = board.handle[Handle].channel
    /\ pc \in {"attach"} \cup Attaching => local.channel \in Channels \ board.used
    /\ pc \in {"pick", "attach", "bind"} \cup Attaching => board.bus[call.pin] = "init"
    /\ pc = "gpio" => ~IsLedc(board, call.pin)
    /\ pc \in {"ownload", "ownstore"} => ~local.found
    /\ pc \in {"store", "ownstore"} => local.loaded = board.used

(* Without a handle there is nothing to do for the LEDC.                     *)
LEMMA ClearBooks ==
  ASSUME ToneInv, BooksInv, pc \in {"mode", "value", "pick"}, NEW next \in {"gpio", "pick"},
         Clear(next)
  PROVE  BooksInv'
<1>1. /\ board' = board /\ call' = call /\ raced' = raced /\ board \in Board /\ call.pin \in Pins
      /\ local.after \in {"idle", "gpio", "pick"}
  BY DEF Clear, Goto, OnlyBoard, ToneInv, TypeOK
<1>2. ~raced => Balanced(board)
  BY DEF BooksInv
<1>3. CASE board.bus[call.pin] = "init"
  <2>1. pc' = next
    BY <1>3 DEF Clear, Goto
  <2> QED
    BY <1>1, <1>2, <1>3, <2>1 DEF BooksInv, Detaching, Attaching, IsLedc, Tasks
<1>4. CASE board.bus[call.pin] = "gpio"
  <2>1. pc' = "unbind"
    BY <1>4 DEF Clear, Goto
  <2>2. ~IsLedc(board, call.pin)
    BY <1>4 DEF IsLedc, Tasks
  <2>3. ~raced => Balanced(Rebound("init"))
    BY <1>1, <1>2, <2>2, RoleBooks DEF Rebound
  <2>4. Rebound("init")' = Rebound("init")
    BY <1>1 DEF Rebound
  <2> QED
    BY <1>1, <2>1, <2>3, <2>4 DEF BooksInv, Detaching, Attaching
<1>5. CASE board.bus[call.pin] \in Tasks
  <2>1. pc' = "scan" /\ local' = [local EXCEPT !.after = next, !.owner = board.bus[call.pin]]
    BY <1>5 DEF Clear, Goto, Tasks
  <2>2. local'.owner = board.bus[call.pin]
    BY <2>1 DEF ToneInv, TypeOK
  <2> QED
    BY <1>1, <1>2, <1>5, <2>1, <2>2 DEF BooksInv, Detaching, Attaching
<1> QED
  BY <1>1, <1>3, <1>4, <1>5 DEF Board

(* With the books balanced at the end of a call, or unchanged between calls.  *)
LEMMA RestBooks ==
  ASSUME ~raced' => Balanced(board'), pc' \in {"idle", "mode", "value", "fetch", "write"} \cup OnQueue
  PROVE  BooksInv'
BY DEF BooksInv, OnQueue, Detaching, Attaching

(* The steps of pinMode.                                                     *)
LEMMA DetachStepBooks ==
  ASSUME ToneInv, BooksInv, board' \in Board,
         \/ PinMode \/ AsGpio \/ DetachScan \/ DetachLoad \/ DetachStore \/ DetachTwice \/ Unbind
  PROVE  BooksInv'
<1> USE DEF Goto, OnlyBoard, At
<1>1. /\ board \in Board /\ call.pin \in Pins
      /\ local \in [after : {"idle", "gpio", "pick"}, channel : Channels, found : BOOLEAN,
                    loaded : SUBSET Channels, owner : Tasks]
  BY DEF ToneInv, TypeOK
<1>2. CASE DetachTwice
  BY <1>2, ResetBooks, RestBooks DEF DetachTwice, Restart, Return
<1>3. CASE PinMode
  <2>1. pc = "mode"
    BY <1>3 DEF PinMode
  <2>2. CASE board.bus[call.pin] = "gpio"
    <3>1. pc' = "gpio" /\ board' = board /\ call' = call /\ raced' = raced
      BY <1>3, <2>2 DEF PinMode
    <3>2. ~IsLedc(board, call.pin) /\ (~raced => Balanced(board))
      BY <2>1, <2>2 DEF BooksInv, IsLedc, Tasks
    <3> QED
      BY <3>1, <3>2 DEF BooksInv, Detaching, Attaching
  <2>3. CASE board.bus[call.pin] # "gpio"
    BY <1>3, <2>1, <2>3, ClearBooks DEF PinMode
  <2> QED
    BY <2>2, <2>3
<1>. SUFFICES ASSUME ~raced', ~DetachTwice, ~PinMode PROVE BooksInv'
  BY Zenon, <1>2, <1>3 DEF BooksInv
<1>4. ~raced /\ raced' = raced
  <2>1. raced' = raced
    BY Zenon DEF AsGpio, DetachScan, DetachLoad, DetachStore, Unbind
  <2> QED
    BY Zenon, <2>1
<1>5. CASE AsGpio
  <2>1. pc = "gpio" /\ pc' = "idle" /\ Balanced(board) /\ ~IsLedc(board, call.pin)
    BY <1>4, <1>5 DEF AsGpio, Return, BooksInv
  <2>2. board' = [board EXCEPT !.bus[call.pin] = "gpio"]
    BY <1>5, <2>1 DEF AsGpio, SetBus
  <2> QED
    BY <1>1, <2>1, <2>2, RoleBooks, RestBooks
<1>6. CASE DetachScan
  <2>1. /\ pc = "scan" /\ Balanced(board) /\ board.bus[call.pin] \in Tasks
        /\ local.owner = board.bus[call.pin]
    BY <1>4, <1>6 DEF DetachScan, BooksInv, Detaching
  <2>2. IsLedc(board, call.pin) /\ HandleOf(board, call.pin) = board.handle[Handle]
    BY <2>1 DEF IsLedc, HandleOf, Handle
  <2>3. Scan(board, call.pin, board.handle[Handle].channel) = {FALSE}
    <3>1. Scan(board, call.pin, HandleOf(board, call.pin).channel) = {FALSE}
      BY <1>1, <2>1, <2>2, ScanAlone
    <3> QED
      BY <2>2, <3>1
  <2>4. /\ local' = [local EXCEPT !.channel = board.handle[Handle].channel, !.found = FALSE]
        /\ pc' = "load" /\ call' = call /\ board' = board
    BY <1>6, <2>3 DEF DetachScan
  <2>5. /\ local'.owner = local.owner /\ ~local'.found
        /\ local'.channel = board.handle[Handle].channel
    BY <1>1, <2>4
  <2>6. Handle' = Handle
    BY <2>4, <2>5 DEF Handle
  <2> QED
    BY <2>1, <2>4, <2>5, <2>6 DEF BooksInv, Detaching, Attaching
<1>7. CASE DetachLoad
  <2>1. /\ pc = "load" /\ Balanced(board) /\ board.bus[call.pin] \in Tasks
        /\ local.owner = board.bus[call.pin] /\ ~local.found
        /\ local.channel = board.handle[Handle].channel
    BY <1>4, <1>7 DEF DetachLoad, BooksInv, Detaching
  <2>2. /\ local' = [local EXCEPT !.loaded = board.used]
        /\ pc' = "store" /\ call' = call /\ board' = board
    BY <1>7 DEF DetachLoad
  <2>3. /\ local'.owner = local.owner /\ local'.found = local.found
        /\ local'.channel = local.channel /\ local'.loaded = board.used
    BY <1>1, <2>2
  <2>4. Handle' = Handle
    BY <2>2, <2>3 DEF Handle
  <2> QED
    BY <2>1, <2>2, <2>3, <2>4 DEF BooksInv, Detaching, Attaching
<1>8. CASE DetachStore
  <2>1. /\ pc = "store" /\ Balanced(board) /\ board.bus[call.pin] \in Tasks
        /\ local.owner = board.bus[call.pin] /\ ~local.found /\ local.loaded = board.used
        /\ local.channel = board.handle[Handle].channel
    BY <1>4, <1>8 DEF DetachStore, BooksInv, Detaching
  <2>2. /\ board' = [board EXCEPT !.used = local.loaded \ {local.channel}, !.handle[Handle] = Freed]
        /\ pc' = "unbind" /\ call' = call
    BY <1>8, <2>1 DEF DetachStore
  <2>3. IsLedc(board, call.pin) /\ HandleOf(board, call.pin) = board.handle[Handle]
        /\ Handle = <<call.pin, board.bus[call.pin]>>
    BY <2>1 DEF IsLedc, HandleOf, Handle
  <2> DEFINE d == [board' EXCEPT !.bus[call.pin] = "init"]
  <2>4. d \in Board
    BY <1>1 DEF Board
  <2>5. /\ d.used = board.used \ {HandleOf(board, call.pin).channel}
        /\ d.bus = [board.bus EXCEPT ![call.pin] = "init"]
        /\ d.handle = [board.handle EXCEPT ![<<call.pin, board.bus[call.pin]>>] = Freed]
    BY <1>1, <2>1, <2>2, <2>3 DEF Board
  <2> HIDE DEF d
  <2>6. Balanced(d)
    BY <1>1, <2>1, <2>3, <2>4, <2>5, DetachBooks
  <2>7. Rebound("init")' = d
    BY <2>2 DEF Rebound, d
  <2> QED
    BY <2>2, <2>6, <2>7 DEF BooksInv, Detaching, Attaching
<1>9. CASE Unbind
  <2>1. pc = "unbind" /\ Balanced(Rebound("init"))
    BY <1>4, <1>9 DEF Unbind, BooksInv
  <2>2. board' = Rebound("init") /\ pc' = local.after /\ call' = call
    BY <1>9 DEF Unbind, Rebound
  <2>3. board'.bus[call.pin] = "init"
    BY <1>1, <2>2 DEF Rebound, Board
  <2> QED
    BY <1>1, <2>1, <2>2, <2>3 DEF BooksInv, Detaching, Attaching, IsLedc, Tasks
<1> QED
  BY <1>4, <1>5, <1>6, <1>7, <1>8, <1>9

(* The steps of analogWrite.                                                 *)
LEMMA AttachStepBooks ==
  ASSUME ToneInv, BooksInv, board' \in Board,
         \/ AnalogWrite \/ PickChannel \/ AttachChannel \/ Configure \/ OwnLoad \/ OwnStore
         \/ Bind \/ Fetch \/ WriteDuty
  PROVE  BooksInv'
<1> USE DEF Goto, OnlyBoard, At
<1>1. /\ board \in Board /\ call.pin \in Pins
      /\ local \in [after : {"idle", "gpio", "pick"}, channel : Channels, found : BOOLEAN,
                    loaded : SUBSET Channels, owner : Tasks]
  BY DEF ToneInv, TypeOK
<1>2. CASE AnalogWrite
  <2>1. pc = "value"
    BY <1>2 DEF AnalogWrite
  <2>2. CASE IsLedc(board, call.pin)
    BY <1>2, <2>1, <2>2, RestBooks DEF AnalogWrite, BooksInv
  <2>3. CASE ~IsLedc(board, call.pin)
    BY <1>2, <2>1, <2>3, ClearBooks DEF AnalogWrite
  <2> QED
    BY <2>2, <2>3
<1>. SUFFICES ASSUME ~raced', ~AnalogWrite PROVE BooksInv'
  BY Zenon, <1>2 DEF BooksInv
<1>3. ~raced /\ raced' = raced
  <2>1. raced' = raced
    BY Zenon DEF PickChannel, AttachChannel, Configure, OwnLoad, OwnStore, Bind, Fetch, WriteDuty
  <2> QED
    BY Zenon, <2>1
<1>4. CASE PickChannel
  <2>1. pc = "pick" /\ Balanced(board) /\ board.bus[call.pin] = "init" /\ board' = board
    BY <1>3, <1>4 DEF PickChannel, BooksInv
  <2>2. CASE FreeChannels(board) = {}
    BY <1>4, <2>1, <2>2, RestBooks DEF PickChannel, Return
  <2>3. CASE FreeChannels(board) # {}
    <3>1. Lowest(FreeChannels(board)) \in Channels \ board.used
      BY <2>3, LowestIsFree DEF FreeChannels
    <3>2. /\ pc' = "attach" /\ call' = call
          /\ local' = [local EXCEPT !.channel = Lowest(FreeChannels(board))]
      BY <1>4, <2>3 DEF PickChannel
    <3>3. local'.channel = Lowest(FreeChannels(board))
      BY <1>1, <3>2
    <3> QED
      BY <2>1, <3>1, <3>2, <3>3 DEF BooksInv, Detaching, Attaching
  <2> QED
    BY <2>2, <2>3
<1>5. CASE Configure
  <2>1. /\ pc = "config" /\ Balanced(board) /\ board.bus[call.pin] = "init"
        /\ local.channel \in Channels \ board.used
    BY <1>3, <1>5 DEF Configure, BooksInv, Attaching
  <2>2. /\ pc' = "ownload" /\ call' = call /\ board' = board
        /\ local' = [local EXCEPT !.found = local.channel \in board.used]
    BY <1>5 DEF Configure
  <2>3. local'.channel = local.channel /\ ~local'.found
    BY <1>1, <2>1, <2>2
  <2> QED
    BY <2>1, <2>2, <2>3 DEF BooksInv, Detaching, Attaching
<1>6. CASE OwnLoad
  <2>1. /\ pc = "ownload" /\ Balanced(board) /\ board.bus[call.pin] = "init" /\ ~local.found
        /\ local.channel \in Channels \ board.used
    BY <1>3, <1>6 DEF OwnLoad, BooksInv, Attaching
  <2>2. /\ pc' = "ownstore" /\ call' = call /\ board' = board
        /\ local' = [local EXCEPT !.loaded = board.used]
    BY <1>6 DEF OwnLoad
  <2>3. /\ local'.channel = local.channel /\ local'.found = local.found
        /\ local'.loaded = board.used
    BY <1>1, <2>2
  <2> QED
    BY <2>1, <2>2, <2>3 DEF BooksInv, Detaching, Attaching
<1>7. CASE OwnStore
  <2>1. /\ pc = "ownstore" /\ Balanced(board) /\ board.bus[call.pin] = "init" /\ ~local.found
        /\ local.channel \in Channels \ board.used /\ local.loaded = board.used
    BY <1>3, <1>7 DEF OwnStore, BooksInv, Attaching
  <2>2. /\ pc' = "bind" /\ call' = call
        /\ board' = [board EXCEPT
             !.used = local.loaded \cup {local.channel},
             !.handle[<<call.pin, "main">>] = [live |-> TRUE, channel |-> local.channel]]
    BY <1>7, <2>1 DEF OwnStore
  <2> DEFINE d == [board' EXCEPT !.bus[call.pin] = "main"]
  <2>3. d \in Board
    BY <1>1 DEF Board, Tasks
  <2>4. /\ d.used = board.used \cup {local.channel}
        /\ d.bus = [board.bus EXCEPT ![call.pin] = "main"]
        /\ d.handle = [board.handle EXCEPT
             ![<<call.pin, "main">>] = [live |-> TRUE, channel |-> local.channel]]
    BY <1>1, <2>1, <2>2 DEF Board
  <2> HIDE DEF d
  <2>5. ~IsLedc(board, call.pin) /\ "main" \in Tasks
    BY <2>1 DEF IsLedc, Tasks
  <2>6. Balanced(d)
    BY <1>1, <2>1, <2>3, <2>4, <2>5, AttachBooks
  <2>7. Rebound("main")' = d
    BY <2>2 DEF Rebound, d
  <2>8. board'.bus[call.pin] = "init"
    BY <2>1, <2>2
  <2> QED
    BY <2>2, <2>6, <2>7, <2>8 DEF BooksInv, Detaching, Attaching
<1>8. CASE Bind
  <2>1. pc = "bind" /\ Balanced(Rebound("main")) /\ board.bus[call.pin] = "init"
    BY <1>3, <1>8 DEF Bind, BooksInv
  <2>2. board' = Rebound("main") /\ pc' = "fetch"
    BY <1>8, <2>1 DEF Bind, SetBus, IsLedc, Tasks, Rebound
  <2> QED
    BY <2>1, <2>2, RestBooks
<1>9. CASE Fetch
  <2>1. pc = "fetch" /\ Balanced(board) /\ board' = board
    BY <1>3, <1>9 DEF Fetch, BooksInv
  <2>2. pc' \in {"write", "idle"}
    BY <1>9 DEF Fetch, Return
  <2> QED
    BY <2>1, <2>2, RestBooks
<1>10. CASE WriteDuty
  <2>1. pc = "write" /\ Balanced(board) /\ pc' = "idle" /\ board' \in Through(board, Handle, FALSE)
    BY <1>3, <1>10 DEF WriteDuty, BooksInv, Return
  <2> QED
    BY <1>1, <2>1, ThroughBooks, RestBooks
<1>11. CASE AttachChannel
  <2>1. /\ pc = "attach" /\ Balanced(board) /\ board.bus[call.pin] = "init"
        /\ local.channel \in Channels \ board.used /\ board' = board
    BY <1>3, <1>11 DEF AttachChannel, BooksInv
  <2>2. pc' = "config" /\ call' = call /\ local' = local
    BY <1>11, <2>1 DEF AttachChannel, IsLedc, Tasks
  <2> QED
    BY <2>1, <2>2 DEF BooksInv, Detaching, Attaching
<1> QED
  BY <1>3, <1>4, <1>5, <1>6, <1>7, <1>8, <1>9, <1>10, <1>11

(* Calls, and the steps of tone and noTone, leave the board alone.           *)
LEMMA QueueStepBooks ==
  ASSUME BooksInv,
         \/ CallPinMode \/ CallAnalogWrite \/ CallNoTone \/ CallTone
         \/ ToneCheck \/ ToneSend \/ NoToneCheck \/ QueueReset \/ NoToneSend
  PROVE  BooksInv'
<1> USE DEF CallPinMode, CallAnalogWrite, CallNoTone, CallTone, Begin, Idle, ToneCheck, ToneSend,
            NoToneCheck, QueueReset, NoToneSend, Send, At, Goto, Return
<1>1. board' = board /\ raced' = raced
  BY Zenon
<1>2. /\ pc \in {"idle"} \cup OnQueue
      /\ pc' \in {"idle", "mode", "value", "fetch", "write"} \cup OnQueue
  BY DEF OnQueue
<1>3. ~raced => Balanced(board)
  BY <1>2 DEF BooksInv, OnQueue
<1> QED
  BY <1>1, <1>2, <1>3, RestBooks

(* The tone task attaches the pin of its message, if it can.                 *)
LEMMA StartBooks ==
  ASSUME NEW b \in Board, Balanced(b), NEW p \in Pins, NEW freq, NEW once
  PROVE  LET attached == IF once /\ CanAttach(b, p, freq) THEN Attach(b, p, freq, "tone") ELSE b
         IN attached \in Board /\ Balanced(attached)
<1> DEFINE c == Lowest(FreeChannels(b))
           d == Attach(b, p, freq, "tone")
<1> SUFFICES ASSUME CanAttach(b, p, freq) PROVE d \in Board /\ Balanced(d)
  OBVIOUS
<1>1. c \in Channels \ b.used /\ ~IsLedc(b, p) /\ "tone" \in Tasks
  BY LowestIsFree DEF CanAttach, FreeChannels, Tasks
<1>2. d \in Board
  BY <1>1, AttachType DEF CanAttach
<1>3. CASE freq \in Reachable
  <2> HIDE DEF c
  <2>1. d = [b EXCEPT !.bus[p] = "tone", !.used = @ \cup {c},
               !.handle[<<p, "tone">>] = [live |-> TRUE, channel |-> c]]
    BY <1>3 DEF Attach, c
  <2> HIDE DEF d
  <2>2. /\ d.used = b.used \cup {c} /\ d.bus = [b.bus EXCEPT ![p] = "tone"]
        /\ d.handle = [b.handle EXCEPT ![<<p, "tone">>] = [live |-> TRUE, channel |-> c]]
    BY <2>1 DEF Board
  <2> QED
    BY <1>1, <1>2, <2>2, AttachBooks
<1>4. CASE freq \notin Reachable
  <2>1. d = [b EXCEPT !.bus[p] = "init"]
    BY <1>4 DEF Attach
  <2> QED
    BY <1>1, <1>2, <2>1, RoleBooks
<1> QED
  BY <1>3, <1>4

(* The tone task attaches and detaches between two calls of the program.     *)
LEMMA TaskStepBooks ==
  ASSUME ToneInv, BooksInv, ToneTask
  PROVE  BooksInv'
<1>1. CASE EndTwice
  BY <1>1, ResetBooks, RestBooks DEF EndTwice, Restart, Return
<1> SUFFICES ASSUME ~raced', ~EndTwice PROVE BooksInv'
  BY Zenon, <1>1 DEF BooksInv
<1>2. ~raced /\ pc \in {"idle"} \cup OnQueue /\ pc' = pc
  <2>1. raced' = (raced \/ pc \in OnBoard) /\ pc' = pc
    BY DEF ToneTask, Start, Expire, End, Awake, program
  <2>2. ~raced /\ pc \notin OnBoard
    BY Zenon, <2>1
  <2> QED
    BY <2>1, <2>2 DEF ToneInv, TypeOK
<1>3. board \in Board /\ Balanced(board)
  BY <1>2 DEF ToneInv, TypeOK, BooksInv, OnQueue
<1>4. SUFFICES Balanced(board')
  BY <1>2, <1>4, RestBooks
<1>5. CASE Expire
  BY <1>3, <1>5, WriteToneBooks DEF Expire
<1>6. ASSUME Start \/ End PROVE Head(queue) \in Messages /\ Head(queue).pin \in Pins
  <2>1. queue \in Seq(Messages) /\ queue # <<>>
    BY <1>6 DEF Start, End, Receive, ToneInv, TypeOK
  <2>2. Head(queue) \in Messages
    BY <2>1
  <2> QED
    BY <2>2 DEF Messages
<1>7. CASE Start
  <2> DEFINE m == Head(queue)
             can == tonePin = None /\ CanAttach(board, m.pin, m.freq)
             attached == IF can THEN Attach(board, m.pin, m.freq, "tone") ELSE board
  <2>1. board' \in WriteTone(attached, m.pin, m.freq) \/ board' = attached
    BY <1>7 DEF Start
  <2>2. attached \in Board /\ Balanced(attached)
    BY <1>3, <1>6, <1>7, StartBooks
  <2> HIDE DEF attached
  <2> QED
    BY <2>1, <2>2, WriteToneBooks
<1>8. CASE End
  <2> DEFINE p == Head(queue).pin
             quiet == Play(board, HandleOf(board, p).channel, FALSE)
  <2>1. p \in Pins
    BY <1>6, <1>8
  <2>2. CASE ~IsLedc(board, p)
    BY <1>3, <1>8, <2>2 DEF End
  <2>3. CASE IsLedc(board, p)
    <3>1. quiet \in Board /\ quiet.bus = board.bus /\ quiet.handle = board.handle
          /\ quiet.used = board.used
      BY <1>3, <2>1, <2>3, HandleType, PlayType DEF Play, Board
    <3>2. Balanced(quiet)
      BY <1>3, PlayBooks
    <3>3. Scan(board, p, HandleOf(board, p).channel) = {FALSE}
      BY <1>3, <2>1, <2>3, ScanAlone
    <3>4. board' = Detached(quiet, p, FALSE)
      BY <1>8, <2>3, <3>3 DEF End
    <3> HIDE DEF quiet
    <3>5. IsLedc(quiet, p) /\ HandleOf(quiet, p) = HandleOf(board, p)
      BY <2>3, <3>1 DEF IsLedc, HandleOf
    <3>6. board' \in Board
      BY <2>1, <3>1, <3>4, <3>5, DetachedType
    <3>7. /\ board'.used = quiet.used \ {HandleOf(quiet, p).channel}
          /\ board'.bus = [quiet.bus EXCEPT ![p] = "init"]
          /\ board'.handle = [quiet.handle EXCEPT ![<<p, quiet.bus[p]>>] = Freed]
      BY <3>1, <3>4 DEF Detached, Board
    <3> QED
      BY <2>1, <3>1, <3>2, <3>5, <3>6, <3>7, DetachBooks
  <2> QED
    BY <2>2, <2>3
<1> QED
  BY <1>5, <1>7, <1>8 DEF ToneTask

LEMMA StepBooks == ToneInv /\ BooksInv /\ [Next]_vars => BooksInv'
<1> SUFFICES ASSUME ToneInv, BooksInv, [Next]_vars PROVE BooksInv'
  OBVIOUS
<1>1. board' \in Board
  BY StepTone DEF ToneInv, TypeOK
<1>2. CASE UNCHANGED vars
  BY <1>2 DEF BooksInv, Rebound, Handle, vars
<1>3. CASE PressReset
  BY <1>3, ResetBooks, RestBooks DEF PressReset, Restart, Return
<1>4. CASE ToneTask
  BY <1>4, TaskStepBooks
<1>5. CASE Next /\ ~PressReset /\ ~ToneTask
  BY <1>1, <1>5, QueueStepBooks, DetachStepBooks, AttachStepBooks DEF Next, MainGoesOn
<1> QED
  BY <1>2, <1>3, <1>4, <1>5

(* Between two calls the books are balanced, whichever task attached and     *)
(* detached the pins, unless the tone task ran in the middle of a call.      *)
THEOREM BooksBalanced == Spec => []Books
<1>1. Init => BooksInv
  BY ResetBooks DEF Init, BooksInv, Detaching, Attaching
<1>2. BooksInv => Books
  BY DEF BooksInv, Books, Settled
<1> QED
  BY <1>1, <1>2, StepBooks, ToneInvariant, PTL DEF Spec

(* ---- the sounds ---- *)

(* Only the pin of the tone sounds, and the pin of the call that is about to *)
(* be taken off its channel, or whose new channel is about to be silenced.   *)
Busy == IF pc \in {"unbind", "bind", "fetch", "write"} THEN {call.pin} ELSE {}
Quiet(b, loud) ==
  \A p \in LedcPins(b) : HandleOf(b, p).channel \in b.sound => p \in loud
SoundsInv ==
  ~raced =>
    /\ Quiet(board, {tonePin} \cup Busy)
    /\ pc = "write" => board.bus[call.pin] \in Tasks /\ local.owner = board.bus[call.pin]

(* A step at pin p, seen from the other pins.                                *)
Beside(b, d, p) ==
  \A q \in Pins \ {p} :
    /\ d.bus[q] = b.bus[q]
    /\ \A t \in Tasks : d.handle[<<q, t>>] = b.handle[<<q, t>>]

LEMMA QuietMore ==
  ASSUME NEW b, NEW loud, Quiet(b, loud), NEW more, loud \subseteq more
  PROVE  Quiet(b, more)
BY DEF Quiet

LEMMA QuietBeside ==
  ASSUME NEW b, NEW d, NEW p, NEW loud, Quiet(b, loud), Beside(b, d, p), d.sound \subseteq b.sound
  PROVE  /\ Quiet(d, loud \cup {p})
         /\ ~IsLedc(d, p) => Quiet(d, loud \ {p})
<1>1. ASSUME NEW q \in LedcPins(d), q # p, HandleOf(d, q).channel \in d.sound
      PROVE  q \in loud
  <2>1. q \in Pins /\ d.bus[q] \in Tasks /\ d.bus[q] = b.bus[q]
    BY <1>1 DEF Beside, LedcPins, IsLedc
  <2>2. HandleOf(d, q) = HandleOf(b, q)
    BY <1>1, <2>1 DEF Beside, HandleOf
  <2>3. q \in LedcPins(b)
    BY <2>1 DEF LedcPins, IsLedc
  <2> QED
    BY <1>1, <2>2, <2>3 DEF Quiet
<1>2. ~IsLedc(d, p) => p \notin LedcPins(d)
  BY DEF LedcPins
<1> QED
  BY <1>1, <1>2 DEF Quiet

LEMMA ResetQuiet ==
  ASSUME NEW loud
  PROVE  Quiet(Reset, loud)
BY DEF Quiet, Reset

(* Setting what a channel puts out: off is heard nowhere, and on only at the  *)
(* pin that has the channel.                                                *)
LEMMA PlayQuiet ==
  ASSUME NEW b \in Board, NEW p \in Pins, IsLedc(b, p), Balanced(b), NEW loud, Quiet(b, loud),
         NEW on \in BOOLEAN, NEW d \in Through(b, <<p, b.bus[p]>>, on)
  PROVE  Quiet(d, loud \cup {p}) /\ (~on => Quiet(d, loud \ {p}))
<1>1. p \in LedcPins(b)
  BY DEF LedcPins
<1>2. d = Play(b, HandleOf(b, p).channel, on)
  BY <1>1 DEF Through, Balanced, HandleOf
<1>3. /\ d.bus = b.bus /\ d.handle = b.handle
      /\ d.sound = IF on THEN b.sound \cup {HandleOf(b, p).channel}
                   ELSE b.sound \ {HandleOf(b, p).channel}
  BY <1>2 DEF Play, Board
<1>4. LedcPins(d) = LedcPins(b) /\ \A q \in LedcPins(b) : HandleOf(d, q) = HandleOf(b, q)
  BY <1>3 DEF LedcPins, IsLedc, HandleOf
<1>5. \A q \in LedcPins(b) : HandleOf(b, q).channel = HandleOf(b, p).channel => q = p
  BY <1>1 DEF Balanced
<1> QED
  BY <1>3, <1>4, <1>5 DEF Quiet

(* With only the pin of the tone loud.                                       *)
LEMMA RestSounds ==
  ASSUME ~raced' => Quiet(board', {tonePin'}), pc' # "write"
  PROVE  SoundsInv'
<1>1. {tonePin'} \subseteq {tonePin'} \cup Busy'
  OBVIOUS
<1> QED
  BY <1>1, QuietMore DEF SoundsInv

(* Most steps leave the board and _pin alone.                                *)
LEMMA SameSounds ==
  ASSUME SoundsInv, board' = board, tonePin' = tonePin, raced' = raced,
         pc \notin {"unbind", "bind", "fetch", "write"}, pc' # "write"
  PROVE  SoundsInv'
<1>1. ~raced => Quiet(board, {tonePin})
  BY DEF SoundsInv, Busy
<1> QED
  BY <1>1, RestSounds

(* The steps of pinMode and analogWrite.                                     *)
LEMMA BoardStepSounds ==
  ASSUME ToneInv, BooksInv, SoundsInv,
         \/ PinMode \/ AsGpio \/ DetachScan \/ DetachLoad \/ DetachStore \/ DetachTwice \/ Unbind
         \/ AnalogWrite \/ PickChannel \/ AttachChannel \/ Configure \/ OwnLoad \/ OwnStore
         \/ Bind \/ Fetch \/ WriteDuty
  PROVE  SoundsInv'
<1> USE DEF Goto, OnlyBoard, At, tones
<1>1. /\ board \in Board /\ call.pin \in Pins
      /\ local \in [after : {"idle", "gpio", "pick"}, channel : Channels, found : BOOLEAN,
                    loaded : SUBSET Channels, owner : Tasks]
  BY DEF ToneInv, TypeOK
<1>2. CASE DetachTwice
  BY <1>2, ResetQuiet, RestSounds DEF DetachTwice, Restart, Return
<1>3. CASE PinMode \/ AnalogWrite
  <2>1. board' = board /\ tonePin' = tonePin /\ raced' = raced /\ pc \in {"mode", "value"}
    BY <1>3 DEF PinMode, AnalogWrite, Clear
  <2>2. pc' # "write"
    BY <1>3 DEF PinMode, AnalogWrite, Clear, Return
  <2> QED
    BY <2>1, <2>2, SameSounds
<1>4. CASE \/ DetachScan \/ DetachLoad \/ PickChannel \/ AttachChannel \/ Configure
           \/ OwnLoad
  BY <1>4, SameSounds
     DEF DetachScan, DetachLoad, PickChannel, AttachChannel, Configure, OwnLoad, Return
<1> SUFFICES ASSUME ~raced', AsGpio \/ DetachStore \/ Unbind \/ OwnStore \/ Bind \/ Fetch \/ WriteDuty
             PROVE  SoundsInv'
  BY Zenon, <1>2, <1>3, <1>4 DEF SoundsInv
<1>5. ~raced /\ tonePin' = tonePin
  <2>1. raced' = raced /\ tonePin' = tonePin
    BY Zenon DEF AsGpio, DetachStore, Unbind, OwnStore, Bind, Fetch, WriteDuty
  <2> QED
    BY Zenon, <2>1
<1>6. Quiet(board, {tonePin} \cup Busy)
  BY <1>5 DEF SoundsInv
<1>7. CASE AsGpio
  <2>1. pc = "gpio" /\ pc' = "idle" /\ ~IsLedc(board, call.pin)
    BY <1>5, <1>7 DEF AsGpio, Return, BooksInv
  <2>2. board' = [board EXCEPT !.bus[call.pin] = "gpio"]
    BY <1>7, <2>1 DEF AsGpio, SetBus
  <2>3. Beside(board, board', call.pin) /\ board'.sound = board.sound
    BY <1>1, <2>2 DEF Beside, Board
  <2>4. ~IsLedc(board', call.pin)
    BY <1>1, <2>2 DEF IsLedc, Board, Tasks
  <2>5. Quiet(board, {tonePin})
    BY <1>6, <2>1 DEF Busy
  <2>6. Quiet(board', {tonePin} \ {call.pin})
    BY <2>3, <2>4, <2>5, QuietBeside
  <2>7. Quiet(board', {tonePin})
    BY <2>6, QuietMore
  <2> QED
    BY <1>5, <2>1, <2>7, RestSounds
<1>8. CASE DetachStore \/ OwnStore
  <2> DEFINE owner == IF pc = "store" THEN local.owner ELSE "main"
  <2>1. /\ pc \in {"store", "ownstore"} /\ pc' \in {"unbind", "bind"} /\ call' = call
        /\ board'.bus = board.bus /\ board'.sound = board.sound
    BY <1>1, <1>8 DEF DetachStore, OwnStore, Board
  <2>2. owner \in Tasks
    BY <1>1 DEF Tasks
  <2>3. PICK v : board'.handle = [board.handle EXCEPT ![<<call.pin, owner>>] = v]
    BY <1>1, <1>8 DEF DetachStore, OwnStore, Board, Handle
  <2>4. Beside(board, board', call.pin)
    <3> SUFFICES ASSUME NEW q \in Pins \ {call.pin}, NEW t \in Tasks
                 PROVE  board'.handle[<<q, t>>] = board.handle[<<q, t>>]
      BY <2>1 DEF Beside
    <3>1. <<q, t>> \in Handles /\ <<q, t>> # <<call.pin, owner>>
      BY DEF Handles
    <3> HIDE DEF owner
    <3> QED
      BY <1>1, <2>3, <3>1 DEF Board
  <2>5. Quiet(board', ({tonePin} \cup Busy) \cup {call.pin})
    BY <1>6, <2>1, <2>4, QuietBeside
  <2>6. ({tonePin} \cup Busy) \cup {call.pin} = {tonePin'} \cup Busy'
    BY <1>5, <2>1 DEF Busy
  <2>7. Quiet(board', {tonePin'} \cup Busy')
    BY <2>5, <2>6
  <2> QED
    BY <2>1, <2>7 DEF SoundsInv
<1>9. CASE Unbind
  <2>1. pc = "unbind" /\ pc' = local.after /\ board' = [board EXCEPT !.bus[call.pin] = "init"]
    BY <1>9 DEF Unbind
  <2>2. Beside(board, board', call.pin) /\ board'.sound = board.sound
    BY <1>1, <2>1 DEF Beside, Board
  <2>3. ~IsLedc(board', call.pin)
    BY <1>1, <2>1 DEF IsLedc, Board, Tasks
  <2>4. Quiet(board', ({tonePin} \cup Busy) \ {call.pin})
    BY <1>6, <2>2, <2>3, QuietBeside
  <2>5. ({tonePin} \cup Busy) \ {call.pin} \subseteq {tonePin}
    BY <2>1 DEF Busy
  <2>6. Quiet(board', {tonePin})
    BY <2>4, <2>5, QuietMore
  <2> QED
    BY <1>1, <1>5, <2>1, <2>6, RestSounds
<1>10. CASE Bind
  <2>1. pc = "bind" /\ board.bus[call.pin] = "init" /\ pc' = "fetch" /\ call' = call
    BY <1>5, <1>10 DEF Bind, BooksInv
  <2>2. board' = [board EXCEPT !.bus[call.pin] = "main"]
    BY <1>10, <2>1 DEF Bind, SetBus, IsLedc, Tasks
  <2>3. Beside(board, board', call.pin) /\ board'.sound = board.sound
    BY <1>1, <2>2 DEF Beside, Board
  <2>4. Quiet(board', ({tonePin} \cup Busy) \cup {call.pin})
    BY <1>6, <2>3, QuietBeside
  <2>5. ({tonePin} \cup Busy) \cup {call.pin} = {tonePin'} \cup Busy'
    BY <1>5, <2>1 DEF Busy
  <2>6. Quiet(board', {tonePin'} \cup Busy')
    BY <2>4, <2>5
  <2> QED
    BY <2>1, <2>6 DEF SoundsInv
<1>11. CASE Fetch
  <2>1. pc = "fetch" /\ board' = board
    BY <1>11 DEF Fetch
  <2>2. CASE IsLedc(board, call.pin)
    <3>1. /\ pc' = "write" /\ call' = call
          /\ local' = [local EXCEPT !.owner = board.bus[call.pin]]
      BY <1>11, <2>2 DEF Fetch
    <3>2. local'.owner = board.bus[call.pin] /\ board.bus[call.pin] \in Tasks
      BY <1>1, <2>2, <3>1 DEF IsLedc
    <3>3. {tonePin} \cup Busy = {tonePin'} \cup Busy'
      BY <1>5, <2>1, <3>1 DEF Busy
    <3>4. Quiet(board', {tonePin'} \cup Busy')
      BY <1>6, <2>1, <3>3
    <3> QED
      BY <2>1, <3>1, <3>2, <3>4 DEF SoundsInv
  <2>3. CASE ~IsLedc(board, call.pin)
    <3>1. pc' = "idle"
      BY <1>11, <2>3 DEF Fetch, Return
    <3>2. Quiet(board, {tonePin})
      BY <1>6, <2>1, <2>3 DEF Quiet, Busy, LedcPins
    <3> QED
      BY <1>5, <2>1, <3>1, <3>2, RestSounds
  <2> QED
    BY <2>2, <2>3
<1>12. CASE WriteDuty
  <2>1. /\ pc = "write" /\ pc' = "idle" /\ board' \in Through(board, Handle, FALSE)
    BY <1>12 DEF WriteDuty, Return
  <2>2. /\ Balanced(board) /\ IsLedc(board, call.pin)
        /\ Handle = <<call.pin, board.bus[call.pin]>>
    BY <1>5, <2>1 DEF BooksInv, SoundsInv, IsLedc, Handle
  <2>3. Quiet(board', ({tonePin} \cup Busy) \ {call.pin})
    <3> DEFINE loud == {tonePin} \cup Busy
               on == FALSE
    <3>1. Quiet(board, loud) /\ on \in BOOLEAN /\ ~on
      BY <1>6
    <3>2. board' \in Through(board, <<call.pin, board.bus[call.pin]>>, on)
      BY <2>1, <2>2
    <3> HIDE DEF loud, on
    <3>3. Quiet(board', loud \ {call.pin})
      BY <1>1, <2>2, <3>1, <3>2, PlayQuiet
    <3> QED
      BY <3>3 DEF loud
  <2>4. ({tonePin} \cup Busy) \ {call.pin} \subseteq {tonePin}
    BY <2>1 DEF Busy
  <2>5. Quiet(board', {tonePin})
    BY <2>3, <2>4, QuietMore
  <2> QED
    BY <1>5, <2>1, <2>5, RestSounds
<1> QED
  BY <1>7, <1>8, <1>9, <1>10, <1>11, <1>12

(* The steps of the tone task. It plays on the pin of the tone, and End      *)
(* takes that pin off its channel before the next pin may have a tone.       *)
LEMMA TaskStepSounds ==
  ASSUME ToneInv, BooksInv, SoundsInv, ToneTask
  PROVE  SoundsInv'
<1>1. CASE EndTwice
  BY <1>1, ResetQuiet, RestSounds DEF EndTwice, Restart, Return
<1> SUFFICES ASSUME ~raced', Start \/ Expire \/ End PROVE SoundsInv'
  BY Zenon, <1>1 DEF SoundsInv, ToneTask
<1>2. ~raced /\ pc \in {"idle"} \cup OnQueue /\ pc' = pc
  <2>1. raced' = (raced \/ pc \in OnBoard) /\ pc' = pc
    BY DEF Start, Expire, End, Awake, program
  <2>2. ~raced /\ pc \notin OnBoard
    BY Zenon, <2>1
  <2> QED
    BY <2>1, <2>2 DEF ToneInv, TypeOK
<1>3. board \in Board /\ Balanced(board) /\ Quiet(board, {tonePin})
  BY <1>2 DEF ToneInv, TypeOK, BooksInv, SoundsInv, Busy, OnQueue
<1>4. SUFFICES Quiet(board', {tonePin'})
  BY <1>2, <1>4, RestSounds DEF OnQueue
<1>5. CASE Expire
  <2>1. delayed \in Pins /\ board' \in WriteTone(board, delayed, 0) /\ tonePin' = tonePin
    BY <1>5 DEF Expire, ToneInv, TypeOK
  <2>2. CASE ~IsLedc(board, delayed)
    BY <1>3, <2>1, <2>2 DEF WriteTone
  <2>3. CASE IsLedc(board, delayed)
    <3> DEFINE loud == {tonePin}
               on == 0 # 0
    <3>1. board' \in Through(board, <<delayed, board.bus[delayed]>>, on)
      BY <2>1, <2>3 DEF WriteTone
    <3>2. Quiet(board, loud) /\ on \in BOOLEAN /\ ~on
      BY <1>3
    <3> HIDE DEF loud, on
    <3>3. Quiet(board', loud \ {delayed})
      BY <1>3, <2>1, <2>3, <3>1, <3>2, PlayQuiet
    <3>4. Quiet(board', loud)
      BY <3>3, QuietMore
    <3> QED
      BY <2>1, <3>4 DEF loud
  <2> QED
    BY <2>2, <2>3
<1>6. ASSUME Start \/ End
      PROVE  Head(queue) \in Messages /\ Head(queue).pin \in Pins /\ tonePin \in {None, Head(queue).pin}
  <2>1. queue \in Seq(Messages) /\ queue # <<>>
    BY <1>6 DEF Start, End, Receive, ToneInv, TypeOK
  <2>2. Head(queue) \in Messages /\ Head(queue) = queue[1] /\ 1 \in 1 .. Len(queue)
    BY <2>1
  <2> QED
    BY <2>2 DEF Messages, ToneInv, OneTonePin
<1>7. CASE Start
  <2> DEFINE m == Head(queue)
             ok == tonePin # None \/ (CanAttach(board, m.pin, m.freq) /\ m.freq \in Reachable)
             can == tonePin = None /\ CanAttach(board, m.pin, m.freq)
             attached == IF can THEN Attach(board, m.pin, m.freq, "tone") ELSE board
  <2>1. /\ board' \in (IF ok THEN WriteTone(attached, m.pin, m.freq) ELSE {attached})
        /\ tonePin' = IF ok /\ tonePin = None THEN m.pin ELSE tonePin
    BY <1>7 DEF Start
  <2>2. m.pin \in Pins /\ tonePin \in {None, m.pin}
    BY <1>6, <1>7
  <2>3. attached \in Board /\ Balanced(attached)
    BY <1>3, <1>6, <1>7, StartBooks
  <2>4. Beside(board, attached, m.pin) /\ attached.sound = board.sound
    <3>1. CASE ~can
      BY <3>1 DEF Beside
    <3>2. CASE can
      <4> DEFINE c == Lowest(FreeChannels(board))
      <4>1. attached = Attach(board, m.pin, m.freq, "tone")
        BY <3>2
      <4> HIDE DEF attached, m
      <4>2. attached = IF m.freq \in Reachable
              THEN [board EXCEPT !.bus[m.pin] = "tone", !.used = @ \cup {c},
                                 !.handle[<<m.pin, "tone">>] = [live |-> TRUE, channel |-> c]]
              ELSE [board EXCEPT !.bus[m.pin] = "init"]
        BY <4>1 DEF Attach
      <4> HIDE DEF c
      <4> QED
        BY <1>3, <2>2, <4>2 DEF Beside, Board, Handles
    <3> QED
      BY <3>1, <3>2
  <2>5. ~IsLedc(attached, m.pin) => Quiet(attached, {tonePin} \ {m.pin})
    BY <1>3, <2>4, QuietBeside
  <2>6. Quiet(attached, {tonePin} \cup {m.pin})
    BY <1>3, <2>4, QuietBeside
  <2>7. CASE ok
    <3>1. tonePin' = m.pin
      BY <2>1, <2>2, <2>7
    <3>2. {tonePin} \cup {m.pin} \subseteq {None, m.pin}
      BY <2>2
    <3> HIDE DEF attached, ok, can
    <3>3. Quiet(attached, {m.pin})
      <4>1. None \notin LedcPins(attached)
        BY DEF LedcPins
      <4> QED
        BY <2>6, <3>2, <4>1 DEF Quiet
    <3>4. board' \in WriteTone(attached, m.pin, m.freq)
      BY <2>1, <2>7
    <3>5. CASE board' = attached
      BY <3>1, <3>3, <3>5
    <3>6. CASE board' # attached
      <4>1. /\ IsLedc(attached, m.pin)
            /\ board' \in Through(attached, <<m.pin, attached.bus[m.pin]>>, m.freq # 0)
        BY <3>4, <3>6 DEF WriteTone
      <4> DEFINE on == m.freq # 0
      <4>2. on \in BOOLEAN /\ board' \in Through(attached, <<m.pin, attached.bus[m.pin]>>, on)
        BY <4>1
      <4> DEFINE loud == {m.pin}
      <4> HIDE DEF on
      <4>3. Quiet(attached, loud)
        BY <3>3
      <4> HIDE DEF m, loud
      <4>4. Quiet(board', loud \cup {m.pin})
        BY <2>2, <2>3, <4>1, <4>2, <4>3, PlayQuiet
      <4> QED
        BY <3>1, <4>4 DEF loud
    <3> QED
      BY <3>5, <3>6
  <2>8. CASE ~ok
    <3>1. tonePin' = tonePin /\ board' = attached /\ tonePin = None
      BY <2>1, <2>8
    <3>2. attached = board \/ ~IsLedc(attached, m.pin)
      <4>1. can => attached = [board EXCEPT !.bus[m.pin] = "init"]
        BY <2>8, <3>1 DEF Attach
      <4> QED
        BY <1>3, <2>2, <4>1 DEF IsLedc, Board, Tasks
    <3> HIDE DEF attached
    <3>3. Quiet(attached, {tonePin})
      <4>1. CASE attached = board
        BY <1>3, <4>1
      <4>2. CASE ~IsLedc(attached, m.pin)
        BY <2>5, <4>2, QuietMore
      <4> QED
        BY <3>2, <4>1, <4>2
    <3> QED
      BY <3>1, <3>3
  <2> QED
    BY <2>7, <2>8
<1>8. CASE End
  <2> DEFINE p == Head(queue).pin
             quiet == Play(board, HandleOf(board, p).channel, FALSE)
  <2>1. p \in Pins /\ tonePin \in {None, p} /\ tonePin' = None
    BY <1>6, <1>8 DEF End
  <2>2. CASE ~IsLedc(board, p)
    <3>1. board' = board
      BY <1>8, <2>2 DEF End
    <3>2. Quiet(board, {None})
      BY <1>3, <2>1, <2>2 DEF Quiet, LedcPins
    <3> QED
      BY <2>1, <3>1, <3>2
  <2>3. CASE IsLedc(board, p)
    <3>1. Quiet(quiet, {tonePin} \ {p})
      <4> DEFINE loud == {tonePin}
                 on == FALSE
      <4>1. Quiet(board, loud) /\ on \in BOOLEAN /\ ~on
        BY <1>3
      <4>2. quiet \in Through(board, <<p, board.bus[p]>>, on)
        <5>1. p \in LedcPins(board)
          BY <2>1, <2>3 DEF LedcPins
        <5>2. HandleOf(board, p).live /\ HandleOf(board, p) = board.handle[<<p, board.bus[p]>>]
          BY <1>3, <5>1 DEF Balanced, HandleOf
        <5> QED
          BY <5>2 DEF Through
      <4> HIDE DEF loud, on, p, quiet
      <4>3. Quiet(quiet, loud \ {p})
        BY <1>3, <2>1, <2>3, <4>1, <4>2, PlayQuiet
      <4> QED
        BY <4>3 DEF loud
    <3>2. PICK found : board' = Detached(quiet, p, found)
      BY <1>8, <2>3 DEF End
    <3>3. quiet \in Board
      BY <1>3, <2>1, <2>3, HandleType, PlayType
    <3> HIDE DEF quiet
    <3>4. Beside(quiet, board', p) /\ board'.sound = quiet.sound
      BY <2>1, <3>2, <3>3 DEF Detached, Beside, Board, Handles
    <3>5. ~IsLedc(board', p)
      BY <2>1, <3>2, <3>3 DEF Detached, IsLedc, Board, Tasks
    <3>6. Quiet(board', ({tonePin} \ {p}) \ {p})
      BY <3>1, <3>4, <3>5, QuietBeside
    <3> QED
      BY <2>1, <3>6, QuietMore
  <2> QED
    BY <2>2, <2>3
<1> QED
  BY <1>5, <1>7, <1>8

LEMMA StepSounds == ToneInv /\ BooksInv /\ SoundsInv /\ [Next]_vars => SoundsInv'
<1> SUFFICES ASSUME ToneInv, BooksInv, SoundsInv, [Next]_vars PROVE SoundsInv'
  OBVIOUS
<1>1. CASE UNCHANGED vars
  BY <1>1 DEF SoundsInv, Busy, Quiet, vars
<1>2. CASE PressReset
  BY <1>2, ResetQuiet, RestSounds DEF PressReset, Restart, Return
<1>3. CASE ToneTask
  BY <1>3, TaskStepSounds
<1>4. CASE \/ CallPinMode \/ CallAnalogWrite \/ CallNoTone \/ CallTone
           \/ ToneCheck \/ ToneSend \/ NoToneCheck \/ QueueReset \/ NoToneSend
  BY <1>4, SameSounds
     DEF CallPinMode, CallAnalogWrite, CallNoTone, CallTone, Begin, Idle, ToneCheck, ToneSend,
         NoToneCheck, QueueReset, NoToneSend, Send, At, Goto, Return, tones
<1>5. CASE Next /\ ~PressReset /\ ~ToneTask
  BY <1>4, <1>5, BoardStepSounds DEF Next, MainGoesOn
<1> QED
  BY <1>1, <1>2, <1>3, <1>5

(* Between two calls nothing sounds but the pin of the tone, which is the    *)
(* one noTone can end, unless the tone task ran in the middle of a call.     *)
THEOREM OnlyToneSounds == Spec => []SoundsOnTonePin
<1>1. Init => BooksInv
  BY ResetBooks DEF Init, BooksInv, Detaching, Attaching
<1>2. Init => SoundsInv
  BY ResetQuiet DEF Init, SoundsInv
<1>3. SoundsInv => SoundsOnTonePin
  BY DEF SoundsInv, SoundsOnTonePin, Settled, Quiet, Busy
<1> QED
  BY <1>1, <1>2, <1>3, StepBooks, StepSounds, ToneInvariant, PTL DEF Spec
=============================================================================
