----------------------------- MODULE LineEditor -----------------------------
(***************************************************************************)
(* The console input of a program on the board (creator/main/io.s, and the *)
(* same file in creatino/main): read_line lets the user edit a line in a   *)
(* fixed buffer, get_character and its relatives hand it out.              *)
(*                                                                         *)
(* Everything runs in one task, which only ever waits for the next byte in *)
(* read(0, &next, 1).  A step is what happens from one such wait, or one   *)
(* call or return, to the next.  The loops that shift and redraw the line  *)
(* are written as what they compute.                                       *)
(***************************************************************************)
EXTENDS Naturals, Sequences, Terminal

CONSTANTS
  LINE_SIZE,   (* bytes of the line buffer (80 in the code)                *)
  Chars,       (* the printable characters a user may type                 *)
  StrSizes     (* the lengths programs pass to get_string                  *)

Controls == {"LF", "CR", "ESC", "BS"}
Keys == Chars \cup Controls

ASSUME LineAssumption ==
  /\ LINE_SIZE \in Nat \ {0}
  /\ StrSizes \subseteq Nat
  /\ Chars \cap (Controls \cup {"EOF", "NUL", "go_left", "go_right"}) = {}

VARIABLES
  line,        (* line[]; the last cell is the byte behind it, in begin    *)
  begin, end,  (* what is still to be handed out                           *)
  next, full,  (* the last byte read; is it to be read again?              *)
  s1, s2,      (* read_line: length of the line and the cursor in it       *)
  pc,          (* where the program waits or is about to go on             *)
  call,        (* the function main has called                             *)
  a0,          (* the result of the last call, until the next one          *)
  length, want,  (* get_string: bytes asked for and still to come          *)
  str,         (* get_string: who wrote the bytes from str on              *)
  screen

Cells == 0..LINE_SIZE
StrCells == 0..(length + 2)

buffer   == <<line, begin, end>>
cursor   == <<s1, s2>>
string   == <<length, want, str>>
vars     == <<buffer, next, full, cursor, pc, call, a0, string, screen>>

NoString == [i \in 0..2 |-> "other"]

Init ==
  /\ line = [i \in Cells |-> "NUL"] /\ begin = 0 /\ end = 0
  /\ next = "NUL" /\ full = FALSE
  /\ s1 = 0 /\ s2 = 0
  /\ pc = "main" /\ call = "get_character" /\ a0 = "NUL"
  /\ length = 0 /\ want = 0 /\ str = NoString
  /\ screen = EmptyScreen

(***************************************************************************)
(* Reading bytes.  At the end of the input read leaves next alone.  A read *)
(* that fails (-1) leaves it alone too and get_immediate takes the byte in *)
(* it for a new one, as if that key were typed again: such a step is here, *)
(* but for a failure before the first byte.                                *)
(***************************************************************************)
Read(k) == (k \in Keys /\ next' = k) \/ (k = "EOF" /\ next' = next)

get_immediate(k) ==
  /\ \/ full /\ k = next /\ next' = next
     \/ ~full /\ Read(k)
  /\ full' = FALSE

(* peek returns what is in next, also if get_immediate has said EOF.  The  *)
(* caller says in full' whether it takes the byte.                         *)
peek(k) ==
  \/ full /\ k = next /\ next' = next
  \/ ~full /\ (\E b \in Keys \cup {"EOF"} : Read(b)) /\ k = next'

(***************************************************************************)
(* The program calls a function of io.s.                                   *)
(***************************************************************************)
(* The string of an earlier get_string is the program's again: it is no    *)
(* longer followed.                                                        *)
CallCharacter ==
  /\ pc = "main"
  /\ call' \in {"get_character", "peek_character"}
  /\ pc' = "refill"
  /\ length' = 0 /\ want' = 0 /\ str' = NoString
  /\ UNCHANGED <<buffer, next, full, cursor, a0, screen>>

CallString ==
  /\ pc = "main"
  /\ length' \in StrSizes
  /\ want' = length'
  /\ str' = [i \in 0..(length' + 2) |-> "other"]
  /\ call' = "get_string"
  /\ pc' = IF want' = 0 THEN "main" ELSE "refill"
  /\ UNCHANGED <<buffer, next, full, cursor, a0, screen>>

(* The byte goes to main past the line.                                    *)
CallImmediate ==
  /\ pc = "main"
  /\ \E k \in Keys \cup {"EOF"} : get_immediate(k)
  /\ UNCHANGED <<buffer, cursor, pc, call, a0, string, screen>>

(* refill; the result register is lost in it.                              *)
refill ==
  /\ pc = "refill"
  /\ IF begin < end THEN pc' = "get" /\ UNCHANGED screen
     ELSE pc' = "loop" /\ screen' = EmptyScreen
  /\ a0' = "NUL"
  /\ UNCHANGED <<buffer, next, full, cursor, call, string>>

(* The rest of peek_character, get_character and a round of get_string's   *)
(* loop.  The store is a word (sw): four bytes, the upper three zero.      *)
PeekCharacter ==
  /\ pc = "get" /\ call = "peek_character"
  /\ a0' = line[begin]
  /\ pc' = "main"
  /\ UNCHANGED <<buffer, next, full, cursor, call, string, screen>>

GetCharacter ==
  /\ pc = "get" /\ call = "get_character"
  /\ a0' = line[begin]
  /\ begin' = begin + 1
  /\ pc' = "main"
  /\ UNCHANGED <<line, end, next, full, cursor, call, string, screen>>

GetString ==
  /\ pc = "get" /\ call = "get_string"
  /\ a0' = line[begin]
  /\ begin' = begin + 1
  /\ str' = [i \in StrCells |-> IF i = length - want THEN "byte"
                                ELSE IF i \in (length - want + 1)..(length - want + 3)
                                THEN "zero" ELSE str[i]]
  /\ want' = want - 1
  /\ pc' = IF want' = 0 THEN "main" ELSE "refill"
  /\ UNCHANGED <<line, end, next, full, cursor, call, length, screen>>

(***************************************************************************)
(* read_line.                                                              *)
(***************************************************************************)
Segment(f, from, to) == [i \in 1..(to - from) |-> f[from + i - 1]]

SendBack(n) == [i \in 1..n |-> "go_left"]

Text(from, to) == Segment(line', from, to)

InsertUnchecked(k) ==             \* mutant: counts the room without the line feed
  /\ pc = "loop" /\ get_immediate(k) /\ k \in Chars
  /\ s1 < LINE_SIZE
  /\ line' = [i \in Cells |-> IF i = s2 THEN k
                              ELSE IF i \in (s2 + 1)..(s1 + 1) THEN line[i - 1]
                              ELSE line[i]]
  /\ s1' = s1 + 1 /\ s2' = s2 + 1
  /\ screen' = Display(screen, Text(s2, s1 + 1) \o SendBack(s1 - s2))
  /\ UNCHANGED <<begin, end, pc, call, a0, string>>

InsertNoReturn(k) ==              \* mutant: leaves the cursor behind what it redraws
  /\ pc = "loop" /\ get_immediate(k) /\ k \in Chars
  /\ s1 < LINE_SIZE - 1
  /\ line' = [i \in Cells |-> IF i = s2 THEN k
                              ELSE IF i \in (s2 + 1)..(s1 + 1) THEN line[i - 1]
                              ELSE line[i]]
  /\ s1' = s1 + 1 /\ s2' = s2 + 1
  /\ screen' = Display(screen, Text(s2, s1 + 1))
  /\ UNCHANGED <<begin, end, pc, call, a0, string>>

(* read_line_normal: shift, insert, redraw, move back.                     *)
Insert(k) ==
  /\ pc = "loop" /\ get_immediate(k) /\ k \in Chars
  /\ s1 < LINE_SIZE - 1
  /\ line' = [i \in Cells |-> IF i = s2 THEN k
                              ELSE IF i \in (s2 + 1)..(s1 + 1) THEN line[i - 1]
                              ELSE line[i]]
  /\ s1' = s1 + 1 /\ s2' = s2 + 1
  /\ screen' = Display(screen, Text(s2, s1 + 1) \o SendBack(s1 - s2))
  /\ UNCHANGED <<begin, end, pc, call, a0, string>>

LineTooLong(k) ==
  /\ pc = "loop" /\ get_immediate(k) /\ k \in Chars
  /\ s1 >= LINE_SIZE - 1
  /\ UNCHANGED <<buffer, cursor, pc, call, a0, string, screen>>

DeleteAtEnd(k) ==                 \* mutant: deletes without shifting what follows
  /\ pc = "loop" /\ get_immediate(k) /\ k = "BS"
  /\ s2 > 0
  /\ s1' = s1 - 1 /\ s2' = s2 - 1
  /\ UNCHANGED line
  /\ screen' = Display(screen, <<"BS">> \o Text(s2 - 1, s1 - 1)
                                 \o <<Blank, "BS">> \o SendBack(s1 - s2))
  /\ UNCHANGED <<begin, end, pc, call, a0, string>>

(* read_line_on_DEL.                                                       *)
Delete(k) ==
  /\ pc = "loop" /\ get_immediate(k) /\ k = "BS"
  /\ s2 > 0
  /\ s1' = s1 - 1 /\ s2' = s2 - 1
  /\ line' = [i \in Cells |-> IF i \in s2'..(s1' - 1) THEN line[i + 1] ELSE line[i]]
  /\ screen' = Display(screen, <<"BS">> \o Text(s2 - 1, s1 - 1)
                                 \o <<Blank, "BS">> \o SendBack(s1 - s2))
  /\ UNCHANGED <<begin, end, pc, call, a0, string>>

NothingToDelete(k) ==
  /\ pc = "loop" /\ get_immediate(k) /\ k = "BS"
  /\ s2 = 0
  /\ UNCHANGED <<buffer, cursor, pc, call, a0, string, screen>>

(* read_line_end, in line[0..n-1].  The registers of read_line are dead.   *)
Return(n) ==
  /\ begin' = 0 /\ end' = n
  /\ s1' = 0 /\ s2' = 0
  /\ pc' = "get"
  /\ UNCHANGED <<call, a0, string>>

AtEOF(k) ==
  /\ pc = "loop" /\ get_immediate(k) /\ k = "EOF"
  /\ Return(s1)
  /\ UNCHANGED <<line, screen>>

(* read_line_LF.                                                           *)
LineFeed ==
  /\ line' = [line EXCEPT ![s1] = "LF"]
  /\ screen' = Display(screen, <<"LF">>)
  /\ Return(s1 + 1)

Enter(k) == pc = "loop" /\ get_immediate(k) /\ k = "LF" /\ LineFeed

(* A key that waits for the next byte to know what it means.               *)
Look(k, key, label) ==
  /\ pc = "loop" /\ get_immediate(k) /\ k = key
  /\ pc' = label
  /\ UNCHANGED <<buffer, cursor, call, a0, string, screen>>

CarriageReturn(k) == Look(k, "CR", "CR")
Escape(k) == Look(k, "ESC", "ESC")

AfterCRForgets(k) ==             \* mutant: the byte behind \r is lost
  /\ pc = "CR" /\ peek(k)
  /\ full' = FALSE
  /\ LineFeed

(* \r\n is one line end; what else follows \r stays for later.             *)
AfterCR(k) ==
  /\ pc = "CR" /\ peek(k)
  /\ full' = (k # "LF")
  /\ LineFeed

AfterESC(k) ==
  /\ pc = "ESC" /\ peek(k)
  /\ full' = (k # "[")
  /\ pc' = IF k = "[" THEN "CSI" ELSE "loop"
  /\ UNCHANGED <<buffer, cursor, call, a0, string, screen>>

(* ESC [ and a letter: C right, D left, A and B nothing, else not taken.   *)
Move(k, key, ok, cursor2, out) ==
  /\ pc = "CSI" /\ peek(k) /\ k = key
  /\ full' = FALSE
  /\ pc' = "loop"
  /\ IF ok THEN s2' = cursor2 /\ screen' = Display(screen, <<out>>)
     ELSE UNCHANGED <<s2, screen>>
  /\ UNCHANGED <<buffer, s1, call, a0, string>>

RightUnchecked(k) ==             \* mutant: moves right of the end of the line
  Move(k, "C", TRUE, s2 + 1, "go_right")

Left(k)  == Move(k, "D", s2 > 0, s2 - 1, "go_left")
Right(k) == Move(k, "C", s2 < s1, s2 + 1, "go_right")

OtherArrow(k) ==
  /\ pc = "CSI" /\ peek(k)
  /\ k \notin {"C", "D"}
  /\ full' = (k \notin {"A", "B"})
  /\ pc' = "loop"
  /\ UNCHANGED <<buffer, cursor, call, a0, string, screen>>

(* The next byte is k: a new one, or the one to be read again.             *)
OnByte(k) ==
  \/ Insert(k) \/ LineTooLong(k) \/ Delete(k) \/ NothingToDelete(k)
  \/ AtEOF(k) \/ Enter(k) \/ CarriageReturn(k) \/ Escape(k)
  \/ AfterCR(k) \/ AfterESC(k) \/ Left(k) \/ Right(k) \/ OtherArrow(k)

read_line == \E k \in Keys \cup {"EOF"} : OnByte(k)

Next == CallCharacter \/ CallString \/ CallImmediate \/ refill
        \/ PeekCharacter \/ GetCharacter \/ GetString \/ read_line

Spec == Init /\ [][Next]_vars

-----------------------------------------------------------------------------
Editing == pc \in {"loop", "CR", "ESC", "CSI"}

(* The type invariant.                                                     *)
TypeOK ==
  /\ line \in [Cells -> Keys \cup {"NUL"}]
  /\ begin \in Cells /\ end \in Cells
  /\ next \in Keys \cup {"NUL"} /\ full \in BOOLEAN
  /\ s1 \in Cells /\ s2 \in Cells
  /\ pc \in {"main", "refill", "get", "loop", "CR", "ESC", "CSI"}
  /\ call \in {"get_character", "peek_character", "get_string"}
  /\ a0 \in Keys \cup {"NUL"}
  /\ length \in Nat /\ want \in 0..length
  /\ str \in [StrCells -> {"other", "byte", "zero"}]

(* However the user edits and however long he types, read_line stays in    *)
(* the 80 bytes of line[] (the check at read_line_normal leaves room for   *)
(* the line feed and for the byte that shifting copies along), and the     *)
(* cursor stays in the text.  The byte behind is the first of begin.       *)
InBuffer ==
  /\ line[LINE_SIZE] = "NUL"
  /\ s2 <= s1
  /\ Editing => s1 < LINE_SIZE

(* While read_line waits for a key, the terminal shows the line that it    *)
(* has, with the cursor at the right place (the redrawing in               *)
(* read_line_normal and read_line_on_DEL): what the user sees is what the  *)
(* program will get.                                                       *)
Mirror ==
  Editing => /\ Shows(screen, Segment(line, 0, s1))
             /\ screen.col = s2

(* Through shifting in a bounded buffer and handing out by get_character,  *)
(* peek_character and get_string, the program gets the lines as they were  *)
(* edited, in order: a character that is taken is gone, one that is looked *)
(* at is not.  That the edits are those of the keys typed is EditedAsTyped *)
(* of KeyStream.                                                           *)
Console == INSTANCE Console WITH
  Capacity <- LINE_SIZE - 1,
  LF       <- "LF",
  left     <- Segment(line, 0, s2),
  right    <- Segment(line, s2, s1),
  reading  <- Editing,
  ready    <- Segment(line, begin, end),
  ended    <- pc = "get" /\ begin >= end,
  peeks    <- call = "peek_character"

ImplementsConsole == Console!Spec
=============================================================================
