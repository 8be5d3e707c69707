------------------------------ MODULE PinTable ------------------------------
(***************************************************************************)
(* The table of pins of the Arduino core (esp32-hal-periman.c) and the     *)
(* channels of the LED controller (esp32-hal-ledc.c), as operators on a    *)
(* record "b":                                                             *)
(*   bus     what a pin is bound to: nothing ("init"), a GPIO, or the LEDC *)
(*           handle that the main task or the tone task allocated          *)
(*   handle  the handles: allocated or free, and their channel             *)
(*   used    ledc_handle.used_channels                                     *)
(*   sound   the channels that put out a tone                              *)
(* A handle is named by its pin and the task that allocates it: a task     *)
(* never has two for one pin.                                              *)
(***************************************************************************)
EXTENDS Integers

CONSTANTS
  Pins,            \* the pins in use
  LEDC_CHANNELS,   \* 6 on an ESP32-C3
  Freqs,           \* frequencies a program asks for
  Reachable,       \* those the LEDC timers can make
  None

ASSUME PinAssumption ==
  /\ LEDC_CHANNELS \in Nat \ {0}
  /\ Reachable \subseteq Freqs
  /\ 0 \notin Reachable
  /\ None \notin Pins

Channels == 0 .. LEDC_CHANNELS - 1
Tasks == {"main", "tone"}
Handles == Pins \X Tasks

Board ==
  [bus : [Pins -> {"init", "gpio"} \cup Tasks],
   handle : [Handles -> [live : BOOLEAN, channel : Channels]],
   used : SUBSET Channels,
   sound : SUBSET Channels]

Freed == [live |-> FALSE, channel |-> 0]

\* After a reset no pin is bound and no channel is in use.
Reset ==
  [bus |-> [p \in Pins |-> "init"],
   handle |-> [h \in Handles |-> Freed],
   used |-> {},
   sound |-> {}]

\* perimanGetPinBus(p, ESP32_BUS_TYPE_LEDC), and whether it is NULL
IsLedc(b, p) == b.bus[p] \in Tasks
HandleOf(b, p) == b.handle[<<p, b.bus[p]>>]
LedcPins(b) == {p \in Pins : IsLedc(b, p)}

\* The loop of ledcDetachBus: is a pin other than p on channel c? A handle that
\* was freed and is still in the table reads as any channel.
Scan(b, p, c) ==
  LET others == LedcPins(b) \ {p}
  IN IF \E q \in others : HandleOf(b, q).live /\ HandleOf(b, q).channel = c THEN {TRUE}
     ELSE IF \E q \in others : ~HandleOf(b, q).live THEN BOOLEAN
     ELSE {FALSE}

\* perimanClearPinBus on an LEDC pin, when "found" is what the loop found.
DetachedOnly(b, p, found) == \* mutant: the channel stays in use
  [b EXCEPT !.handle[<<p, b.bus[p]>>] = Freed, !.bus[p] = "init"]
Detached(b, p, found) ==
  [b EXCEPT !.used = IF found THEN @ ELSE @ \ {HandleOf(b, p).channel},
            !.handle[<<p, b.bus[p]>>] = Freed,
            !.bus[p] = "init"]

\* ledcAttach: the channels to choose from; the lowest is taken.
FreeChannelsWide(b) == (0 .. LEDC_CHANNELS) \ b.used \* mutant: one bit too many
FreeChannels(b) == Channels \ b.used
Lowest(S) == CHOOSE c \in S : \A d \in S : c <= d

\* ledcAttachChannel: what it refuses before anything is changed, and its
\* work. That a frequency is out of reach is found when the pin has already
\* been taken from whatever it was bound to.
CanAttach(b, p, freq) == FreeChannels(b) # {} /\ freq # 0 /\ ~IsLedc(b, p)
Attach(b, p, freq, task) ==
  LET c == Lowest(FreeChannels(b))
  IN IF freq \in Reachable
       THEN [b EXCEPT !.bus[p] = task, !.used = @ \cup {c},
                      !.handle[<<p, task>>] = [live |-> TRUE, channel |-> c]]
       ELSE [b EXCEPT !.bus[p] = "init"]

\* ledcWrite and ledcWriteTone set what a channel puts out.
Play(b, c, on) == [b EXCEPT !.sound = IF on THEN @ \cup {c} ELSE @ \ {c}]

\* What may become of it through handle h: through a freed one it is lost or
\* hits any channel.
Through(b, h, on) ==
  IF b.handle[h].live THEN {Play(b, b.handle[h].channel, on)}
  ELSE {b} \cup {Play(b, c, on) : c \in Channels}

\* ledcWriteTone(p, freq): nothing happens on a pin without a handle, or when
\* the timer cannot make the frequency.
WriteTone(b, p, freq) ==
  IF IsLedc(b, p) /\ freq \in Reachable \cup {0}
    THEN Through(b, <<p, b.bus[p]>>, freq # 0) ELSE {b}
=============================================================================
