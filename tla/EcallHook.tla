------------------------------ MODULE EcallHook ------------------------------
(***************************************************************************)
(* Ecalls in CREATOR mode. The program runs in machine mode, so its ecall  *)
(* is a panic; the wrapped panic handler (syscall/test_panic.c) takes it   *)
(* for a system call and returns behind it. While it waits for input no    *)
(* interrupt is served: it polls the receive FIFO of the UART itself.      *)
(* While the program runs, the UART driver that app_main installed empties *)
(* the FIFO into its own buffer, where no ecall looks.                     *)
(***************************************************************************)
EXTENDS Integers, Sequences

CONSTANTS
  INT_LEN,        \* sizeof(buffer_int): 16
  POOL_CAPACITY,  \* 65536
  FIFO_LEN,       \* bytes the UART holds: 128
  WORD,           \* values of an int: 2^32
  Bytes,          \* bytes that may be typed
  MaxLength       \* bound: the longest string asked for

ASSUME HookAssumption ==
  /\ INT_LEN \in Nat \ {0} /\ POOL_CAPACITY \in Nat /\ FIFO_LEN \in Nat
  /\ MaxLength \in Nat
  /\ WORD \in Nat /\ WORD \div 2 > POOL_CAPACITY
  /\ Bytes \subseteq 0 .. 255

VARIABLES
  fifo,             \* the receive FIFO of the UART
  mode,             \* what the handler waits for, or "run": the program runs
  idx,              \* next free cell, of buffer_int and of the string alike
  buffer_int,
  dest, length,     \* the string the program asked for: its cells, and a1
  a0,               \* answer of the last ecall
  current_offset,   \* of the break in memory_pool
  ra,               \* where the program would return to
  owned             \* history: the cells of memory_pool the program was given

vars == <<fifo, mode, idx, buffer_int, dest, length, a0, current_offset, ra, owned>>
input == <<idx, buffer_int, dest>>
pool == <<current_offset, owned>>

Digits == (48 .. 57) \cap Bytes
Newline == {10, 13}

Int32 == -(WORD \div 2) .. WORD - WORD \div 2 - 1
\* An int keeps the low bits of what is put into it.
Wrap(n) == ((n + WORD \div 2) % WORD) - WORD \div 2

Plus(m, n) ==
  IF m + n >= WORD - WORD \div 2 THEN m + n - WORD
  ELSE IF m + n < -(WORD \div 2) THEN m + n + WORD ELSE m + n

Init ==
  /\ fifo = <<>> /\ mode = "run" /\ idx = 0 /\ length = 0 /\ a0 = 0
  /\ buffer_int = [i \in 0 .. INT_LEN - 1 |-> 0]
  /\ dest = [i \in 0 .. MaxLength |-> 0]
  /\ current_offset = 0 /\ ra = "app_main" /\ owned = {}

(* ---- the UART ---- *)

\* A byte that finds the FIFO full is lost.
Type(c) ==
  /\ Len(fifo) < FIFO_LEN
  /\ fifo' = Append(fifo, c)
  /\ UNCHANGED <<mode, input, length, a0, pool, ra>>

DriverInterrupt ==
  /\ mode \in {"run", "finished"} /\ fifo # <<>>
  /\ fifo' = <<>>
  /\ UNCHANGED <<mode, input, length, a0, pool, ra>>

(* ---- the program ---- *)

Runs == mode = "run"

\* jal, and loading the return address of main again.
JumpAndLink ==
  /\ Runs
  /\ ra' \in {"program", "app_main"}
  /\ UNCHANGED <<fifo, mode, input, length, a0, pool>>

Wait(for) == mode' = for /\ UNCHANGED <<fifo, input, a0, pool, ra>>

EcallReadInt == Runs /\ Wait("int") /\ UNCHANGED length
EcallReadChar == Runs /\ Wait("char") /\ UNCHANGED length
EcallReadString ==
  /\ Runs
  /\ length' \in -1 .. MaxLength
  /\ Wait("string")

\* The old break is the answer. Too much and too little are refused with -1;
\* the sum may overflow.
EcallSbrkDown(increment) == \* mutant: gives back more than there is
  /\ Runs
  /\ LET break == Plus(current_offset, increment)
         ok == break <= POOL_CAPACITY
     IN /\ a0' = IF ok THEN current_offset ELSE -1
        /\ current_offset' = IF ok THEN break ELSE current_offset
        /\ owned' = IF ~ok THEN owned
                    ELSE (owned \cup a0' .. a0' + increment - 1) \ (a0' + increment .. a0' - 1)
  /\ UNCHANGED <<fifo, mode, input, length, ra>>

EcallSbrkEach(increment) == \* mutant: compares the increment alone
  /\ Runs
  /\ LET break == Plus(current_offset, increment)
         ok == increment <= POOL_CAPACITY /\ break >= 0
     IN /\ a0' = IF ok THEN current_offset ELSE -1
        /\ current_offset' = IF ok THEN break ELSE current_offset
        /\ owned' = IF ~ok THEN owned
                    ELSE (owned \cup a0' .. a0' + increment - 1) \ (a0' + increment .. a0' - 1)
  /\ UNCHANGED <<fifo, mode, input, length, ra>>

EcallSbrk(increment) ==
  /\ Runs
  /\ LET break == Plus(current_offset, increment)
         ok == break <= POOL_CAPACITY /\ break >= 0
     IN /\ a0' = IF ok THEN current_offset ELSE -1
        /\ current_offset' = IF ok THEN break ELSE current_offset
        /\ owned' = IF ~ok THEN owned
                    ELSE (owned \cup a0' .. a0' + increment - 1) \ (a0' + increment .. a0' - 1)
  /\ UNCHANGED <<fifo, mode, input, length, ra>>

\* mepc = ra: to app_main, or behind the jal the program made last.
EcallExit ==
  /\ Runs
  /\ mode' = IF ra = "app_main" THEN "finished" ELSE "run"
  /\ UNCHANGED <<fifo, input, length, a0, pool, ra>>

(* ---- waiting for input: uart_rx_one_char, then what the byte means ---- *)

PollFlush(for, c) == \* mutant: what was typed ahead is flushed
  /\ mode = for /\ fifo # <<>> /\ c = Head(fifo)
  /\ fifo' = <<>>
  /\ UNCHANGED <<pool, ra>>

Poll(for, c) ==
  /\ mode = for /\ fifo # <<>> /\ c = Head(fifo)
  /\ fifo' = Tail(fifo)
  /\ UNCHANGED <<pool, ra>>

\* atoi up to the terminating zero.
Value(buffer) ==
  LET end == CHOOSE z \in 0 .. INT_LEN - 1 : buffer[z] = 0 /\ \A y \in 0 .. z - 1 : buffer[y] # 0
      value[z \in 0 .. INT_LEN - 1] ==
        IF z = 0 THEN 0 ELSE Wrap(value[z - 1] * 10 + buffer[z - 1] - 48)
  IN value[end]

\* read_buffer_int and read_int
IntEndNonEmpty(c) == \* mutant: an empty line is no number
  /\ Poll("int", c) /\ c \in Newline
  /\ IF idx = 0 THEN UNCHANGED <<mode, a0, buffer_int, idx>>
     ELSE /\ a0' = Value([buffer_int EXCEPT ![idx] = 0])
          /\ buffer_int' = [i \in 0 .. INT_LEN - 1 |-> 0]
          /\ idx' = 0 /\ mode' = "run"
  /\ UNCHANGED <<dest, length>>

IntEnd(c) ==
  /\ Poll("int", c) /\ c \in Newline
  /\ a0' = Value([buffer_int EXCEPT ![idx] = 0])
  /\ buffer_int' = [i \in 0 .. INT_LEN - 1 |-> 0]
  /\ idx' = 0 /\ mode' = "run" /\ UNCHANGED <<dest, length>>

IntDigitFull(c) == \* mutant: no cell is kept for the zero
  /\ Poll("int", c) /\ c \in Digits /\ idx < INT_LEN
  /\ buffer_int' = [buffer_int EXCEPT ![idx] = c]
  /\ idx' = idx + 1 /\ UNCHANGED <<mode, dest, length, a0>>

IntDigit(c) ==
  /\ Poll("int", c) /\ c \in Digits /\ idx < INT_LEN - 1
  /\ buffer_int' = [buffer_int EXCEPT ![idx] = c]
  /\ idx' = idx + 1 /\ UNCHANGED <<mode, dest, length, a0>>

IntOther(c) ==
  /\ Poll("int", c) /\ c \notin Newline /\ (c \in Digits => idx >= INT_LEN - 1)
  /\ UNCHANGED <<mode, input, length, a0>>

\* read_buffer_string and read_string
StringEnd(c) ==
  /\ Poll("string", c) /\ c \in Newline
  /\ dest' = [dest EXCEPT ![idx] = 0]
  /\ idx' = 0 /\ mode' = "run" /\ length' = 0 /\ UNCHANGED <<buffer_int, a0>>

StringByte(c) ==
  /\ Poll("string", c) /\ c \notin Newline /\ c # 0 /\ idx < length
  /\ dest' = [dest EXCEPT ![idx] = c]
  /\ idx' = idx + 1 /\ UNCHANGED <<mode, buffer_int, length, a0>>

StringOther(c) ==
  /\ Poll("string", c) /\ c \notin Newline /\ (c = 0 \/ idx >= length)
  /\ UNCHANGED <<mode, input, length, a0>>

\* read_char; a zero byte is no byte.
CharByte(c) ==
  /\ Poll("char", c) /\ c # 0
  /\ a0' = c /\ mode' = "run" /\ UNCHANGED <<input, length>>

CharZero(c) ==
  /\ Poll("char", c) /\ c = 0
  /\ UNCHANGED <<mode, input, length, a0>>

Handles(c) ==
  \/ IntEnd(c) \/ IntDigit(c) \/ IntOther(c)
  \/ StringEnd(c) \/ StringByte(c) \/ StringOther(c)
  \/ CharByte(c) \/ CharZero(c)

Program ==
  \/ JumpAndLink \/ EcallReadInt \/ EcallReadChar \/ EcallReadString \/ EcallExit
  \/ \E increment \in Int32 : EcallSbrk(increment)

Next ==
  \/ \E c \in Bytes : Type(c)
  \/ DriverInterrupt
  \/ Program
  \/ \E c \in Bytes : Handles(c)

\* The handler polls for ever; somebody goes on pressing Enter.
Fairness ==
  /\ WF_vars(\E c \in Bytes : Handles(c))
  /\ \A c \in Newline \cap Bytes : SF_vars(Type(c))

Spec == Init /\ [][Next]_vars /\ Fairness

(* ---- properties ---- *)

\* Every variable has its type.
TypeOK ==
  /\ fifo \in Seq(Bytes) /\ Len(fifo) <= FIFO_LEN
  /\ mode \in {"run", "int", "char", "string", "finished"}
  /\ idx \in Nat /\ length \in -1 .. MaxLength
  /\ buffer_int \in [0 .. INT_LEN - 1 -> Bytes \cup {0}]
  /\ dest \in [0 .. MaxLength -> Bytes \cup {0}]
  /\ a0 \in Int32 \cup Bytes
  /\ current_offset \in Int /\ ra \in {"app_main", "program"}
  /\ owned \subseteq 0 .. POOL_CAPACITY - 1

\* Both readers stay in their buffers, although they share one index that only
\* the end of a line resets: buffer_int keeps a cell for the zero and is clean
\* before every read; of a string no cell behind a1 is written (but the first,
\* whatever a1 is).
InBuffers ==
  /\ mode \notin {"int", "string"} => idx = 0
  /\ mode = "int" => idx < INT_LEN
  /\ mode = "string" => idx = 0 \/ idx <= length
  /\ \A i \in idx .. INT_LEN - 1 : buffer_int[i] = 0
  /\ mode # "int" => \A i \in 0 .. INT_LEN - 1 : buffer_int[i] = 0

\* What sbrk hands out is in the pool and was not handed out before, whatever is
\* asked for or given back, refused or overflowing.
PoolSound ==
  /\ current_offset \in 0 .. POOL_CAPACITY
  /\ owned = 0 .. current_offset - 1

Reads == mode \in {"int", "char", "string"}
\* Every read ends if somebody goes on pressing Enter.
ReadsEnd == Reads ~> ~Reads

Cells(f, n) == [i \in 1 .. n |-> f[i - 1]]
CString(f) ==
  Cells(f, CHOOSE n \in 0 .. MaxLength : f[n] = 0 /\ \A m \in 0 .. n - 1 : f[m] # 0)

Line == INSTANCE LineInput WITH
  unread <- fifo,
  reading <- IF Reads THEN mode ELSE "nothing",
  room <- CASE mode = "int" -> INT_LEN - 1
            [] mode = "string" -> (IF length < 0 THEN 0 ELSE length) [] OTHER -> 0,
  text <- CASE mode = "int" -> Cells(buffer_int, idx)
            [] mode = "string" -> Cells(dest, idx) [] OTHER -> <<>>,
  number <- a0,
  string <- IF mode = "string" THEN <<>> ELSE CString(dest)

\* Refinement: a read takes the bytes of the FIFO one by one, none lost and none
\* twice, drops only what has no place in its answer, answers at the end of the
\* line with what the others spell, the number in a machine word, and leaves
\* nothing behind for the next (test_panic.c:79-175).
ImplementsLineInput == Line!Spec
=============================================================================
