------------------------------- MODULE Serial -------------------------------
(***************************************************************************)
(* The serial functions of CREATino (creatino.cpp) over the Arduino core:  *)
(* Stream.cpp searches and parses, HardwareSerial.cpp and esp32-hal-uart.c *)
(* keep one byte that was peeked apart from the ring of the UART driver.   *)
(* One step is one byte. A timeout may end a wait whenever there is        *)
(* nothing to read. Echoes and delays are left out.                        *)
(***************************************************************************)
EXTENDS Integers, Sequences

CONSTANTS
  Bytes,        \* bytes that may arrive
  INT_CHARS,    \* cells ecall_read_int fills at most: 11
  FIND_BUFFER,  \* sizeof(buffer) of serial_findUntil: 1024
  Targets, Terminators, Lengths, Ignores, \* bounds: what programs ask for
  MaxUnread     \* bound: bytes taken by the current call or not yet taken

Lookahead == {"SKIP_ALL", "SKIP_NONE", "SKIP_WHITESPACE"}

ASSUME SerialAssumption ==
  /\ Bytes \subseteq 0 .. 255 /\ Terminators \subseteq Bytes
  /\ Ignores \subseteq Bytes \ {255} \* 255 is what the -1 of a timeout is cast to
  /\ Targets \subseteq Seq(Bytes \ {0}) /\ Lengths \subseteq Nat
  /\ INT_CHARS \in Nat \ {0} /\ FIND_BUFFER \in Nat \ {0} /\ MaxUnread \in Nat

VARIABLES
  installed, \* the driver of the UART
  rx,        \* ring of the driver
  peeked,    \* <<peek_byte>> if has_peek
  call,      \* function the program is in, its arguments and locals
  result,    \* what it answered, as a sequence
  taken      \* history: bytes that counted for this call

vars == <<installed, rx, peeked, call, result, taken>>

Idle == [op |-> "none"]
Digit == 48 .. 57
Minus == 45
Newline == {10, 13}
Whitespace == {9, 10, 13, 32}

Init ==
  /\ installed = FALSE /\ rx = <<>> /\ peeked = <<>>
  /\ call = Idle /\ result = <<>> /\ taken = <<>>

(* ---- the UART ---- *)

\* uartAvailable
Unread == IF installed THEN peeked \o rx ELSE <<>>

\* Without a driver what arrives is lost.
Receive(c) ==
  /\ installed /\ Len(Unread) + Len(taken) < MaxUnread
  /\ rx' = Append(rx, c)
  /\ UNCHANGED <<installed, peeked, call, result, taken>>

\* uartReadBytes of one byte that is there
TakeRing(c) == \* mutant: forgets the byte that was peeked
  /\ Unread # <<>> /\ UNCHANGED installed
  /\ IF rx # <<>> THEN c = Head(rx) /\ rx' = Tail(rx) /\ UNCHANGED peeked
     ELSE c = Head(peeked) /\ peeked' = <<>> /\ UNCHANGED rx

Take(c) ==
  /\ Unread # <<>> /\ c = Head(Unread) /\ UNCHANGED installed
  /\ IF peeked # <<>> THEN peeked' = <<>> /\ UNCHANGED rx
     ELSE rx' = Tail(rx) /\ UNCHANGED peeked

\* uartPeek of a byte that is there
Peek(c) ==
  /\ Unread # <<>> /\ c = Head(Unread) /\ UNCHANGED installed
  /\ peeked' = <<c>> /\ rx' = IF peeked # <<>> THEN rx ELSE Tail(rx)

NoByte == Unread = <<>> /\ UNCHANGED <<installed, rx, peeked>>

(* ---- calls ---- *)

Call(op) == call = Idle /\ call' = op /\ result' = <<>> /\ UNCHANGED taken
Return(answer) == call' = Idle /\ result' = answer /\ taken' = <<>>
Goes(on, c) == call' = on /\ taken' = Append(taken, c) /\ UNCHANGED result
\* A byte that is read over.
Discard(c) == Take(c) /\ UNCHANGED <<call, result, taken>>

\* uartBegin; the ecalls begin what is not begun.
BeginKeeps == \* mutant: a byte peeked before the end is still there
  /\ installed' = TRUE /\ UNCHANGED <<rx, peeked>>

Begin ==
  /\ installed' = TRUE
  /\ IF installed THEN UNCHANGED <<rx, peeked>> ELSE rx' = <<>> /\ peeked' = <<>>

serial_begin == call = Idle /\ Begin /\ UNCHANGED <<call, result, taken>>

\* uartEnd: has_peek stays as it is.
serial_end ==
  /\ call = Idle /\ installed
  /\ installed' = FALSE /\ rx' = <<>> /\ UNCHANGED <<peeked, call, result, taken>>

Start ==
  \/ /\ \/ \E n \in Lengths :
             \/ Call([op |-> "bytes", length |-> n, buffer |-> <<>>])
             \/ \E c \in Terminators :
                  Call([op |-> "until", end |-> c, length |-> n, buffer |-> <<>>])
        \/ \E t \in Targets :
             \/ Call([op |-> "find", target |-> t, index |-> 0])
             \/ \E c \in Terminators :
                  Call([op |-> "findUntil", target |-> t, end |-> c,
                        length |-> FIND_BUFFER - 1, buffer |-> <<>>])
        \/ \E mode \in Lookahead, c \in Ignores :
             Call([op |-> "parse", lookahead |-> mode, ignore |-> c,
                   started |-> FALSE, isNegative |-> FALSE, value |-> 0])
        \/ \E op \in {"read", "peek"} : Call([op |-> op])
     /\ UNCHANGED <<installed, rx, peeked>>
  \/ /\ \/ Call([op |-> "ecall_int", buffer |-> <<>>])
        \/ \E n \in Lengths : Call([op |-> "ecall_string", size |-> n, buffer |-> <<>>])
        \/ Call([op |-> "ecall_char"])
     /\ Begin

(* ---- serial_read, serial_peek ---- *)

serial_read ==
  /\ call.op = "read"
  /\ \/ \E c \in Bytes : Take(c) /\ Return(<<c>>)
     \/ NoByte /\ Return(<<-1>>)

serial_peek ==
  /\ call.op = "peek"
  /\ \/ \E c \in Bytes : Peek(c) /\ Return(<<c>>)
     \/ NoByte /\ Return(<<-1>>)

(* ---- readBytes, readBytesUntil and what is built on them ---- *)

\* strstr looks at the string before the first zero.
CString(s) ==
  LET stop == {n \in 1 .. Len(s) : s[n] = 0}
  IN IF stop = {} THEN s ELSE SubSeq(s, 1, (CHOOSE n \in stop : \A m \in stop : n <= m) - 1)

strstr(s, t) == \E n \in 0 .. Len(s) - Len(t) : SubSeq(s, n + 1, n + Len(t)) = t

Filled(buffer) ==
  IF call.op = "findUntil" THEN Return(<<IF strstr(CString(buffer), call.target) THEN 1 ELSE 0>>)
  ELSE Return(buffer)

Stores == call.op \in {"bytes", "until", "findUntil"}
FullBeyond == Len(call.buffer) > call.length \* mutant: one byte too many

Full == Len(call.buffer) = call.length

StoreFull == Stores /\ Full /\ Filled(call.buffer) /\ UNCHANGED <<installed, rx, peeked>>

Store ==
  /\ Stores /\ ~Full
  /\ \E c \in Bytes :
       /\ Take(c)
       /\ IF call.op # "bytes" /\ c = call.end THEN Filled(call.buffer)
          ELSE Goes([call EXCEPT !.buffer = Append(@, c)], c)

StoreTimeoutWaits == \* mutant: waits for the first byte without an end
  /\ Stores /\ ~Full /\ NoByte
  /\ IF call.buffer = <<>> THEN UNCHANGED <<call, result, taken>> ELSE Filled(call.buffer)

StoreTimeout == Stores /\ ~Full /\ NoByte /\ Filled(call.buffer)

(* ---- find ---- *)

\* findMulti after a mismatch with index bytes matched: the longest shorter
\* match that c prolongs.
WalkBackReset(t, index, c) == IF c = t[1] THEN 1 ELSE 0 \* mutant

WalkBack(t, index, c) ==
  LET fits == {j \in 0 .. index - 1 :
                 c = t[j + 1] /\ \A i \in 1 .. j : t[i] = t[i + index - j]}
  IN IF fits = {} THEN 0 ELSE (CHOOSE j \in fits : \A i \in fits : i <= j) + 1

Advance(t, index, c) ==
  IF c = t[index + 1] THEN index + 1 ELSE WalkBack(t, index, c)

FindEmpty ==
  /\ call.op = "find" /\ call.target = <<>>
  /\ Return(<<1>>) /\ UNCHANGED <<installed, rx, peeked>>

FindByte ==
  /\ call.op = "find" /\ call.target # <<>>
  /\ \E c \in Bytes :
       /\ Take(c)
       /\ LET index == Advance(call.target, call.index, c)
          IN IF index = Len(call.target) THEN Return(<<1>>)
             ELSE Goes([call EXCEPT !.index = index], c)

FindTimeout == call.op = "find" /\ call.target # <<>> /\ NoByte /\ Return(<<0>>)

(* ---- parseInt ---- *)

Number == IF call.isNegative THEN -call.value ELSE call.value

\* The body of the loop: c counts, unless it is to be ignored.
Counted(c) ==
  IF c = call.ignore THEN [call EXCEPT !.started = TRUE]
  ELSE IF c = Minus THEN [call EXCEPT !.started = TRUE, !.isNegative = TRUE]
  ELSE [call EXCEPT !.started = TRUE, !.value = @ * 10 + c - 48]

ParseSkip(c) == \* peekNextDigit
  /\ call.op = "parse" /\ ~call.started /\ c \notin Digit \cup {Minus}
  /\ \/ call.lookahead = "SKIP_ALL"
     \/ call.lookahead = "SKIP_WHITESPACE" /\ c \in Whitespace
  /\ Discard(c)

ParseByte(c) ==
  /\ call.op = "parse"
  /\ c \in Digit \/ (~call.started /\ c = Minus) \/ (call.started /\ c = call.ignore)
  /\ Take(c) /\ Goes(Counted(c), c)

\* The byte behind the number has been peeked and stays.
ParseEnd(c) ==
  /\ call.op = "parse" /\ c \notin Digit
  /\ \/ call.started /\ c # call.ignore
     \/ /\ ~call.started /\ c # Minus
        /\ \/ call.lookahead = "SKIP_NONE"
           \/ call.lookahead = "SKIP_WHITESPACE" /\ c \notin Whitespace
  /\ Peek(c) /\ Return(<<Number>>)

ParseTimeout == call.op = "parse" /\ NoByte /\ Return(<<Number>>)

(* ---- ecall_read_int, ecall_read ---- *)

\* atoi, one byte after the other
atoi(s) ==
  LET start == IF s # <<>> /\ s[1] = Minus THEN 1 ELSE 0
      value[i \in 0 .. Len(s)] ==
        IF i <= start THEN 0
        ELSE IF \A k \in start + 1 .. i : s[k] \in Digit THEN value[i - 1] * 10 + s[i] - 48
        ELSE value[i - 1]
  IN IF start = 1 THEN -value[Len(s)] ELSE value[Len(s)]

ecall_read_int(c) ==
  /\ call.op = "ecall_int" /\ Len(call.buffer) < INT_CHARS
  /\ IF c \in Digit \cup {Minus} THEN Take(c) /\ Goes([call EXCEPT !.buffer = Append(@, c)], c)
     ELSE IF c \in Newline THEN Take(c) /\ Return(<<atoi(call.buffer)>>)
     ELSE Discard(c)

IntFull ==
  /\ call.op = "ecall_int" /\ Len(call.buffer) = INT_CHARS
  /\ Return(<<-1>>) /\ UNCHANGED <<installed, rx, peeked>>

\* size++, and the zero is put behind what the loop has stored.
ecall_read_string(c) ==
  /\ call.op = "ecall_string" /\ Len(call.buffer) < call.size + 1
  /\ IF c = 0 THEN Discard(c)
     ELSE Take(c) /\ IF c \in Newline THEN Return(Append(call.buffer, c))
                     ELSE Goes([call EXCEPT !.buffer = Append(@, c)], c)

StringFull ==
  /\ call.op = "ecall_string" /\ Len(call.buffer) = call.size + 1
  /\ Return(call.buffer) /\ UNCHANGED <<installed, rx, peeked>>

ecall_read_char(c) ==
  /\ call.op = "ecall_char"
  /\ IF c = 0 THEN Discard(c) ELSE Take(c) /\ Return(<<c>>)

(* ---- the program ---- *)

Parses(c) == ParseSkip(c) \/ ParseByte(c) \/ ParseEnd(c)
Reads(c) == ecall_read_int(c) \/ ecall_read_string(c) \/ ecall_read_char(c)

Step ==
  \/ serial_read \/ serial_peek
  \/ Store \/ StoreFull \/ StoreTimeout
  \/ FindEmpty \/ FindByte \/ FindTimeout
  \/ ParseTimeout \/ \E c \in Bytes : Parses(c)
  \/ IntFull \/ StringFull \/ \E c \in Bytes : Reads(c)

Next ==
  \/ \E c \in Bytes : Receive(c)
  \/ serial_begin \/ serial_end \/ Start
  \/ Step

\* The program goes on reading, its timeouts expire, and somebody goes on
\* pressing Enter.
Fairness ==
  /\ WF_vars(Step)
  /\ \A c \in Newline \cap Bytes : SF_vars(Receive(c))

Spec == Init /\ [][Next]_vars /\ Fairness

(* ---- properties ---- *)

\* Functions with their arguments and locals.
Calls ==
  [op : {"none", "read", "peek", "ecall_char"}]
  \cup [op : {"bytes"}, length : Lengths, buffer : Seq(Bytes)]
  \cup [op : {"until"}, end : Terminators, length : Lengths, buffer : Seq(Bytes)]
  \cup [op : {"findUntil"}, target : Targets, end : Terminators,
       length : {FIND_BUFFER - 1}, buffer : Seq(Bytes)]
  \cup [op : {"find"}, target : Targets, index : Nat]
  \cup [op : {"parse"}, lookahead : Lookahead, ignore : Ignores,
       started : BOOLEAN, isNegative : BOOLEAN, value : Nat]
  \cup [op : {"ecall_int"}, buffer : Seq(Bytes)]
  \cup [op : {"ecall_string"}, size : Lengths, buffer : Seq(Bytes)]

\* Every variable has its type, and no buffer is filled beyond its length.
TypeOK ==
  /\ installed \in BOOLEAN
  /\ rx \in Seq(Bytes) /\ peeked \in Seq(Bytes) /\ taken \in Seq(Bytes)
  /\ call \in Calls
  /\ Stores => Len(call.buffer) <= call.length
  /\ call.op = "ecall_int" => Len(call.buffer) <= INT_CHARS
  /\ Len(peeked) <= 1

\* The first j bytes of t are the last j of s.
Matches(j, t, s) == j <= Len(s) /\ \A k \in 1 .. j : t[k] = s[Len(s) - j + k]

\* find knows the longest beginning of its target that the bytes it read end
\* with, also after a mismatch inside a target that repeats itself, and it never
\* runs past the target.
FindsLongest ==
  call.op = "find" /\ call.target # <<>> =>
    /\ call.index < Len(call.target)
    /\ Matches(call.index, call.target, taken)
    /\ \A j \in call.index + 1 .. Len(call.target) : ~Matches(j, call.target, taken)

\* Whatever arrives and when: the calls that have a length or end with a line
\* come back.
BoundedCallsEnd ==
  call.op \in {"bytes", "until", "findUntil", "ecall_int", "ecall_string", "ecall_char"}
    ~> call = Idle

Locals == {"buffer", "index", "started", "isNegative", "value"}
Stream == INSTANCE ByteStream WITH
  pending <- Unread,
  call <- [f \in DOMAIN call \ (Locals \cup IF call.op = "findUntil" THEN {"length"} ELSE {})
             |-> call[f]]

\* Refinement: between the ring and the peeked byte nothing is lost, doubled or
\* turned round, no call takes a byte it does not need, and what it answers is
\* what the bytes it took say.
ImplementsByteStream == Stream!Spec

\* "Deja espacio para el carácter nulo": the zero has room in the cells the
\* program asked for and the one that was added for it.
SpaceForNul == call.op = "ecall_string" => Len(call.buffer) <= call.size
=============================================================================
