---------------------------- MODULE ConsoleProofs ---------------------------
(***************************************************************************)
(* The line editor stays in its buffer, whatever its size, and implements  *)
(* the console.                                                            *)
(* A segment of line[] is a sequence; each step of the editor is a step of *)
(* the console on the segments before and behind the cursor, or none.      *)
(***************************************************************************)
EXTENDS KeyStream, Recursion, TLAPS

-----------------------------------------------------------------------------
(* The invariant of the editor.                                            *)

(* Outside read_line the edited line is empty, in it the old line is used  *)
(* up.  Between refill and the return of get_character there is a byte to  *)
(* hand out, or the line is empty because the input ended; get_string goes *)
(* on only while bytes are wanted.                                         *)
LineInv ==
  /\ TypeOK
  /\ InBuffer
  /\ ~Editing => s1 = 0
  /\ Editing => end <= begin
  /\ pc = "get" => begin < end \/ begin = 0
  /\ pc # "main" /\ call = "get_string" => want > 0

USE LineAssumption DEF Keys, Controls, Cells

LEMMA InitLine == Init => LineInv
<1> SUFFICES ASSUME Init PROVE LineInv
  OBVIOUS
<1>1. StrCells = 0..2
  BY DEF Init, StrCells
<1>2. line \in [Cells -> Keys \cup {"NUL"}] /\ line[LINE_SIZE] = "NUL"
  BY DEF Init
<1>3. str \in [StrCells -> {"other", "byte", "zero"}]
  BY <1>1 DEF Init, NoString
<1>4. full \in BOOLEAN
  BY Zenon DEF Init
<1> QED
  BY <1>2, <1>3, <1>4 DEF Init, LineInv, TypeOK, InBuffer, Editing

(* What a read leaves in next.                                             *)
LEMMA ReadType ==
  ASSUME NEW k \in Keys \cup {"EOF"}, TypeOK, get_immediate(k) \/ peek(k)
  PROVE  next' \in Keys \cup {"NUL"}
BY DEF TypeOK, get_immediate, peek, Read

(* The calls, and what hands the line out.                                 *)
LEMMA ProgramStep ==
  ASSUME LineInv,
         \/ CallCharacter \/ CallString \/ CallImmediate \/ refill
         \/ PeekCharacter \/ GetCharacter \/ GetString
  PROVE  LineInv'
<1> USE DEF buffer, cursor, string
<1>1. CASE CallCharacter
  <2>1. str' \in [StrCells' -> {"other", "byte", "zero"}]
    BY <1>1 DEF CallCharacter, StrCells, NoString
  <2> QED
    BY <1>1, <2>1 DEF LineInv, TypeOK, InBuffer, Editing, CallCharacter
<1>2. CASE CallString
  <2>1. length' \in Nat /\ want' \in 0..length'
    BY <1>2 DEF CallString
  <2>2. str' \in [StrCells' -> {"other", "byte", "zero"}]
    BY <1>2 DEF CallString, StrCells
  <2> QED
    BY <1>2, <2>1, <2>2 DEF LineInv, TypeOK, InBuffer, Editing, CallString
<1>3. CASE CallImmediate
  <2>1. next' \in Keys \cup {"NUL"} /\ full' = FALSE
    BY <1>3, ReadType DEF CallImmediate, LineInv, get_immediate
  <2> QED
    BY <1>3, <2>1 DEF LineInv, TypeOK, InBuffer, Editing, StrCells, CallImmediate
<1>4. CASE refill
  BY <1>4 DEF LineInv, TypeOK, InBuffer, Editing, StrCells, refill
<1>5. CASE PeekCharacter
  BY <1>5 DEF LineInv, TypeOK, InBuffer, Editing, StrCells, PeekCharacter
<1>6. CASE GetCharacter
  BY <1>6 DEF LineInv, TypeOK, InBuffer, Editing, StrCells, GetCharacter
<1>7. CASE GetString
  <2>1. want > 0 /\ want' \in 0..length
    BY <1>7 DEF GetString, LineInv, TypeOK
  <2>2. str' \in [StrCells' -> {"other", "byte", "zero"}]
    BY <1>7 DEF GetString, LineInv, TypeOK, StrCells
  <2> QED
    BY <1>7, <2>1, <2>2 DEF LineInv, TypeOK, InBuffer, Editing, GetString
<1> QED
  BY <1>1, <1>2, <1>3, <1>4, <1>5, <1>6, <1>7

(* A key that changes the text.                                            *)
LEMMA EditStep ==
  ASSUME LineInv, NEW k \in Keys \cup {"EOF"}, Insert(k) \/ Delete(k)
  PROVE  LineInv'
<1> USE DEF string
<1>1. next' \in Keys \cup {"NUL"} /\ full' \in BOOLEAN
  BY ReadType DEF LineInv, Insert, Delete, get_immediate
<1>2. CASE Insert(k)
  <2>1. line' \in [Cells -> Keys \cup {"NUL"}] /\ line'[LINE_SIZE] = "NUL"
    BY <1>2 DEF Insert, LineInv, TypeOK, InBuffer
  <2>2. s1' \in 0..(LINE_SIZE - 1) /\ s2' \in 0..s1' /\ pc = "loop"
    BY <1>2 DEF Insert, LineInv, TypeOK, InBuffer, Editing
  <2>3. UNCHANGED <<begin, end, pc, call, a0, length, want, str>>
    BY <1>2 DEF Insert
  <2>4. TypeOK'
    BY <1>1, <2>1, <2>2, <2>3 DEF LineInv, TypeOK, StrCells
  <2> QED
    BY <2>1, <2>2, <2>3, <2>4 DEF LineInv, InBuffer, Editing
<1>3. CASE Delete(k)
  <2>1. line' \in [Cells -> Keys \cup {"NUL"}] /\ line'[LINE_SIZE] = "NUL"
    BY <1>3 DEF Delete, LineInv, TypeOK, InBuffer, Editing
  <2>2. s1' \in 0..(LINE_SIZE - 1) /\ s2' \in 0..s1' /\ pc = "loop"
    BY <1>3 DEF Delete, LineInv, TypeOK, InBuffer, Editing
  <2>3. UNCHANGED <<begin, end, pc, call, a0, length, want, str>>
    BY <1>3 DEF Delete
  <2>4. TypeOK'
    BY <1>1, <2>1, <2>2, <2>3 DEF LineInv, TypeOK, StrCells
  <2> QED
    BY <2>1, <2>2, <2>3, <2>4 DEF LineInv, InBuffer, Editing
<1> QED
  BY <1>2, <1>3

(* A key that ends the line.                                               *)
LEMMA EndStep ==
  ASSUME LineInv, NEW k \in Keys \cup {"EOF"}, AtEOF(k) \/ Enter(k) \/ AfterCR(k)
  PROVE  LineInv'
<1> USE DEF string
<1>1. next' \in Keys \cup {"NUL"} /\ full' \in BOOLEAN
  BY ReadType DEF LineInv, AtEOF, Enter, AfterCR, get_immediate
<1>2. s1 < LINE_SIZE
  BY DEF LineInv, InBuffer, Editing, AtEOF, Enter, AfterCR
<1>3. CASE AtEOF(k)
  BY <1>1, <1>2, <1>3 DEF AtEOF, Return, LineInv, TypeOK, InBuffer, Editing, StrCells
<1>4. CASE Enter(k) \/ AfterCR(k)
  <2>1. LineFeed
    BY <1>4 DEF Enter, AfterCR
  <2> QED
    BY <1>1, <1>2, <2>1, <1>4
    DEF LineFeed, Return, LineInv, TypeOK, InBuffer, Editing, StrCells, Enter, AfterCR
<1> QED
  BY <1>3, <1>4

(* The other keys move the cursor at most.                                 *)
LEMMA MoveStep ==
  ASSUME LineInv, NEW k \in Keys \cup {"EOF"},
         \/ LineTooLong(k) \/ NothingToDelete(k) \/ CarriageReturn(k) \/ Escape(k)
         \/ AfterESC(k) \/ Left(k) \/ Right(k) \/ OtherArrow(k)
  PROVE  LineInv'
<1> USE DEF string, buffer, cursor
<1>1. next' \in Keys \cup {"NUL"} /\ full' \in BOOLEAN
  BY ReadType DEF LineInv, LineTooLong, NothingToDelete, CarriageReturn, Escape,
                  Look, AfterESC, Left, Right, Move, OtherArrow, get_immediate
<1>2. pc \in {"loop", "ESC", "CSI"} /\ pc' \in {"loop", "CR", "ESC", "CSI"}
  BY DEF LineTooLong, NothingToDelete, CarriageReturn, Escape,
         Look, AfterESC, Left, Right, Move, OtherArrow
<1>3. UNCHANGED <<line, begin, end, s1, call, a0, length, want, str>>
  BY DEF LineTooLong, NothingToDelete, CarriageReturn, Escape,
         Look, AfterESC, Left, Right, Move, OtherArrow
<1>4. s2' \in Cells /\ s2' <= s1
  BY DEF LineInv, TypeOK, InBuffer, LineTooLong, NothingToDelete, CarriageReturn,
         Escape, Look, AfterESC, Left, Right, Move, OtherArrow
<1> QED
  BY <1>1, <1>2, <1>3, <1>4 DEF LineInv, TypeOK, InBuffer, Editing, StrCells

LEMMA NextLine == LineInv /\ [Next]_vars => LineInv'
<1> SUFFICES ASSUME LineInv, [Next]_vars PROVE LineInv'
  OBVIOUS
<1>1. CASE read_line
  BY <1>1, EditStep, EndStep, MoveStep DEF read_line, OnByte
<1>2. CASE UNCHANGED vars
  BY <1>2 DEF vars, buffer, cursor, string, LineInv, TypeOK, InBuffer, Editing, StrCells
<1> QED
  BY <1>1, <1>2, ProgramStep DEF Next

(* The strengthening is an invariant, for every size of the line buffer.  *)
THEOREM LineInvariant == Spec => []LineInv
BY InitLine, NextLine, PTL DEF Spec

(* The type invariant of io.s.                                             *)
THEOREM LineTypeCorrect == Spec => []TypeOK
BY LineInvariant, PTL DEF LineInv

(* For every size of the line buffer, read_line writes only into it.       *)
THEOREM LineInBuffer == Spec => []InBuffer
BY LineInvariant, PTL DEF LineInv

-----------------------------------------------------------------------------
(* Segments of a buffer.                                                   *)

HIDE DEF Keys, Controls, Cells

Bytes == Keys \cup {"NUL"}

LEMMA SegmentEmpty ==
  ASSUME NEW f, NEW a \in Nat, NEW b \in Nat, b <= a
  PROVE  Segment(f, a, b) = << >>
BY DEF Segment

LEMMA SegmentLen ==
  ASSUME NEW f \in [Cells -> Bytes],
         NEW a \in Nat, NEW b \in Nat, a <= b, b <= LINE_SIZE
  PROVE  Segment(f, a, b) \in Seq(Bytes) /\ Len(Segment(f, a, b)) = b - a
<1> USE DEF Cells
<1>1. \A i \in 1..(b - a) : f[a + i - 1] \in Bytes
  OBVIOUS
<1>2. Segment(f, a, b) \in [1..(b - a) -> Bytes]
  BY <1>1 DEF Segment
<1> QED
  BY <1>2, b - a \in Nat

(* Two functions that agree where two segments lie have the same segments. *)
LEMMA SegmentSame ==
  ASSUME NEW f, NEW g, NEW a \in Nat, NEW b \in Nat, NEW c \in Nat, NEW d \in Nat,
         b - a = d - c,
         \A i \in 1..(b - a) : f[a + i - 1] = g[c + i - 1]
  PROVE  Segment(f, a, b) = Segment(g, c, d)
BY DEF Segment

LEMMA SegmentAppend ==
  ASSUME NEW f \in [Cells -> Bytes],
         NEW a \in Nat, NEW b \in Nat, a <= b, b < LINE_SIZE
  PROVE  Segment(f, a, b + 1) = Append(Segment(f, a, b), f[b])
<1> DEFINE s == Segment(f, a, b)
           t == Append(s, f[b])
           u == Segment(f, a, b + 1)
<1>1. s \in Seq(Bytes) /\ Len(s) = b - a /\ f[b] \in Bytes
  <2>1. f[b] \in Bytes
    BY DEF Cells
  <2>2. s \in Seq(Bytes) /\ Len(s) = b - a
    BY SegmentLen
  <2> QED
    BY <2>1, <2>2
<1>2. u \in Seq(Bytes) /\ Len(u) = b - a + 1
  BY SegmentLen, b + 1 \in Nat, b + 1 <= LINE_SIZE, a <= b + 1
<1>3. t \in Seq(Bytes) /\ Len(t) = b - a + 1
  BY <1>1
<1>4. \A i \in 1..(b - a + 1) : t[i] = u[i]
  <2> TAKE i \in 1..(b - a + 1)
  <2>1. u[i] = f[a + i - 1]
    BY DEF Segment
  <2>2. CASE i <= b - a
    <3>1. t[i] = s[i]
      BY <1>1, <2>2
    <3>2. s[i] = f[a + i - 1]
      BY <2>2 DEF Segment
    <3> QED
      BY <2>1, <3>1, <3>2
  <2>3. CASE i = b - a + 1
    BY <1>1, <2>1, <2>3
  <2>4. i <= b - a \/ i = b - a + 1
    OBVIOUS
  <2> QED
    BY <2>2, <2>3, <2>4
<1> HIDE DEF s, t, u
<1>5. t = u
  BY <1>2, <1>3, <1>4
<1> QED
  BY <1>5 DEF s, t, u

LEMMA SegmentConcat ==
  ASSUME NEW f \in [Cells -> Bytes],
         NEW a \in Nat, NEW b \in Nat, NEW c \in Nat, a <= b, b <= c, c <= LINE_SIZE
  PROVE  Segment(f, a, b) \o Segment(f, b, c) = Segment(f, a, c)
<1> DEFINE s == Segment(f, a, b)
           t == Segment(f, b, c)
           u == Segment(f, a, c)
           v == s \o t
<1>1. s \in Seq(Bytes) /\ Len(s) = b - a
  BY SegmentLen, b <= LINE_SIZE
<1>2. t \in Seq(Bytes) /\ Len(t) = c - b
  BY SegmentLen
<1>3. u \in Seq(Bytes) /\ Len(u) = c - a
  BY SegmentLen, a <= c
<1>4. v \in Seq(Bytes) /\ Len(v) = c - a
  BY <1>1, <1>2
<1>5. \A i \in 1..(c - a) : v[i] = u[i]
  <2> TAKE i \in 1..(c - a)
  <2>1. u[i] = f[a + i - 1]
    BY DEF Segment
  <2>2. CASE i <= b - a
    <3>1. v[i] = s[i]
      BY <1>1, <1>2, <2>2
    <3>2. s[i] = f[a + i - 1]
      BY <2>2 DEF Segment
    <3> QED
      BY <2>1, <3>1, <3>2
  <2>3. CASE i > b - a
    <3>1. v[i] = t[i - (b - a)]
      BY <1>1, <1>2, <2>3
    <3>2. t[i - (b - a)] = f[b + (i - (b - a)) - 1]
      BY <2>3 DEF Segment
    <3> QED
      BY <2>1, <3>1, <3>2
  <2>4. i <= b - a \/ i > b - a
    OBVIOUS
  <2> QED
    BY <2>2, <2>3, <2>4
<1> HIDE DEF s, t, u, v
<1>6. v = u
  BY <1>3, <1>4, <1>5
<1> QED
  BY <1>6 DEF s, t, u, v

LEMMA SegmentHead ==
  ASSUME NEW f \in [Cells -> Bytes],
         NEW a \in Nat, NEW b \in Nat, a < b, b <= LINE_SIZE
  PROVE  /\ Segment(f, a, b) # << >>
         /\ Head(Segment(f, a, b)) = f[a]
         /\ Tail(Segment(f, a, b)) = Segment(f, a + 1, b)
<1> DEFINE s == Segment(f, a, b)
           t == Tail(s)
           u == Segment(f, a + 1, b)
<1>1. s \in Seq(Bytes) /\ Len(s) = b - a /\ Len(s) > 0
  BY SegmentLen
<1>2. u \in Seq(Bytes) /\ Len(u) = b - a - 1
  <2>1. PICK n \in Nat : n = a + 1
    OBVIOUS
  <2>2. Segment(f, n, b) \in Seq(Bytes) /\ Len(Segment(f, n, b)) = b - n
    BY <2>1, SegmentLen
  <2> QED
    BY <2>1, <2>2
<1>3. s # << >> /\ Head(s) = s[1] /\ t \in Seq(Bytes) /\ Len(t) = b - a - 1
  BY <1>1
<1>4. s[1] = f[a]
  BY DEF Segment
<1>5. \A i \in 1..(b - a - 1) : t[i] = u[i]
  <2> TAKE i \in 1..(b - a - 1)
  <2>1. t[i] = s[i + 1]
    BY <1>1
  <2>2. s[i + 1] = f[a + (i + 1) - 1]
    BY DEF Segment
  <2>3. u[i] = f[(a + 1) + i - 1]
    BY DEF Segment
  <2>4. a + (i + 1) - 1 = (a + 1) + i - 1
    OBVIOUS
  <2> QED
    BY <2>1, <2>2, <2>3, <2>4
<1> HIDE DEF s, t, u
<1>6. t = u
  BY <1>2, <1>3, <1>5
<1> QED
  BY <1>3, <1>4, <1>6 DEF s, t, u

LEMMA SegmentFront ==
  ASSUME NEW f \in [Cells -> Bytes],
         NEW a \in Nat, NEW b \in Nat, a < b, b <= LINE_SIZE
  PROVE  /\ Segment(f, a, b) # << >>
         /\ SubSeq(Segment(f, a, b), 1, Len(Segment(f, a, b)) - 1) = Segment(f, a, b - 1)
         /\ Segment(f, a, b)[Len(Segment(f, a, b))] = f[b - 1]
<1> DEFINE s == Segment(f, a, b)
           t == SubSeq(s, 1, b - a - 1)
           u == Segment(f, a, b - 1)
<1>1. s \in Seq(Bytes) /\ Len(s) = b - a /\ Len(s) > 0
  BY SegmentLen
<1>2. u \in Seq(Bytes) /\ Len(u) = b - a - 1
  <2>1. PICK n \in Nat : n = b - 1 /\ a <= n /\ n <= LINE_SIZE
    OBVIOUS
  <2>2. Segment(f, a, n) \in Seq(Bytes) /\ Len(Segment(f, a, n)) = n - a
    BY <2>1, SegmentLen
  <2> QED
    BY <2>1, <2>2
<1>3. t \in Seq(Bytes) /\ Len(t) = b - a - 1
  BY <1>1
<1>4. \A i \in 1..(b - a - 1) : t[i] = u[i]
  <2> TAKE i \in 1..(b - a - 1)
  <2>1. t[i] = s[i]
    BY <1>1
  <2>2. s[i] = f[a + i - 1] /\ u[i] = f[a + i - 1]
    BY DEF Segment
  <2> QED
    BY <2>1, <2>2
<1>5. s[b - a] = f[b - 1]
  BY DEF Segment
<1>6. s # << >>
  BY <1>1
<1> HIDE DEF s, t, u
<1>7. t = u
  BY <1>2, <1>3, <1>4
<1> QED
  BY <1>1, <1>5, <1>6, <1>7 DEF s, t, u

(* The same from the beginning.                                            *)
LEMMA PrefixConcat ==
  ASSUME NEW f \in [Cells -> Bytes], NEW b \in Nat, NEW c \in Nat, b <= c, c <= LINE_SIZE
  PROVE  Segment(f, 0, b) \o Segment(f, b, c) = Segment(f, 0, c)
<1>1. PICK z \in Nat : z = 0 /\ z <= b
  OBVIOUS
<1>2. Segment(f, z, b) \o Segment(f, b, c) = Segment(f, z, c)
  BY <1>1, SegmentConcat
<1> QED
  BY <1>1, <1>2

LEMMA PrefixFront ==
  ASSUME NEW f \in [Cells -> Bytes], NEW b \in Nat, 0 < b, b <= LINE_SIZE
  PROVE  /\ Segment(f, 0, b) # << >>
         /\ SubSeq(Segment(f, 0, b), 1, Len(Segment(f, 0, b)) - 1) = Segment(f, 0, b - 1)
         /\ Segment(f, 0, b)[Len(Segment(f, 0, b))] = f[b - 1]
<1>1. PICK z \in Nat : z = 0 /\ z < b
  OBVIOUS
<1>2. /\ Segment(f, z, b) # << >>
      /\ SubSeq(Segment(f, z, b), 1, Len(Segment(f, z, b)) - 1) = Segment(f, z, b - 1)
      /\ Segment(f, z, b)[Len(Segment(f, z, b))] = f[b - 1]
  BY <1>1, SegmentFront
<1> QED
  BY <1>1, <1>2

LEMMA PrefixAppend ==
  ASSUME NEW f \in [Cells -> Bytes], NEW b \in Nat, b < LINE_SIZE
  PROVE  Segment(f, 0, b + 1) = Append(Segment(f, 0, b), f[b])
<1>1. PICK z \in Nat : z = 0
  OBVIOUS
<1>2. Segment(f, z, b + 1) = Append(Segment(f, z, b), f[b])
  BY <1>1, SegmentAppend
<1> QED
  BY <1>1, <1>2

-----------------------------------------------------------------------------
LEMMA LineType == LineInv => line \in [Cells -> Bytes] /\ LINE_SIZE \in Nat
BY DEF LineInv, TypeOK, Bytes

LEMMA ConsoleInit == Init => Console!Init
<1> SUFFICES ASSUME Init PROVE Console!Init
  OBVIOUS
<1>1. Segment(line, 0, s2) = << >> /\ Segment(line, s2, s1) = << >>
      /\ Segment(line, begin, end) = << >>
  BY SegmentEmpty DEF Init
<1>2. Editing = FALSE /\ (pc = "get" /\ begin >= end) = FALSE
  BY DEF Init, Editing
<1> QED
  BY <1>1, <1>2 DEF Console!Init, Init

(* What a step of the editor that the console does not see leaves alone.   *)
LEMMA Unseen ==
  ASSUME UNCHANGED <<line, begin, end, s1, s2, a0>>,
         Editing' = Editing,
         (call = "peek_character") = (call = "peek_character")',
         (pc = "get" /\ begin >= end) = (pc = "get" /\ begin >= end)'
  PROVE  UNCHANGED Console!vars
BY DEF Console!vars

LEMMA LengthOfLine ==
  ASSUME LineInv, Editing
  PROVE  Len(Segment(line, 0, s2)) + Len(Segment(line, s2, s1)) = s1
<1>1. s1 \in Nat /\ s2 \in Nat /\ s2 <= s1 /\ s1 < LINE_SIZE
  BY DEF LineInv, TypeOK, InBuffer, Cells
<1>2. LINE_SIZE \in Nat /\ s2 <= LINE_SIZE /\ s1 <= LINE_SIZE
  BY <1>1
<1>3. Len(Segment(line, 0, s2)) = s2
  BY <1>1, <1>2, LineType, SegmentLen
<1>4. Len(Segment(line, s2, s1)) = s1 - s2
  BY <1>1, <1>2, LineType, SegmentLen
<1> QED
  BY <1>1, <1>3, <1>4

(* What an insertion and a deletion do to the text around the cursor.      *)
LEMMA InsertSegments ==
  ASSUME LineInv, NEW k \in Keys \cup {"EOF"}, Insert(k)
  PROVE  /\ Segment(line', 0, s2') = Append(Segment(line, 0, s2), k)
         /\ Segment(line', s2', s1') = Segment(line, s2, s1)
         /\ Len(Segment(line, 0, s2)) + Len(Segment(line, s2, s1)) = s1
<1>1. /\ pc = "loop" /\ pc' = pc /\ k \in Chars
      /\ s1 \in Nat /\ s2 \in Nat /\ s2 <= s1 /\ s1 < LINE_SIZE - 1
      /\ s1' = s1 + 1 /\ s2' = s2 + 1
      /\ line' = [i \in Cells |-> IF i = s2 THEN k
                                  ELSE IF i \in (s2 + 1)..(s1 + 1) THEN line[i - 1]
                                  ELSE line[i]]
      /\ UNCHANGED <<begin, end, call, a0>>
  BY DEF Insert, LineInv, TypeOK, InBuffer, Cells
<1>2. line' \in [Cells -> Bytes]
  BY EditStep DEF LineInv, TypeOK, Bytes
<1>3. begin \in Nat /\ end \in Nat /\ LINE_SIZE \in Nat
  BY DEF LineInv, TypeOK, Cells
<1>4. Segment(line', 0, s2) = Segment(line, 0, s2)
  <2>1. \A i \in 1..(s2 - 0) : line'[0 + i - 1] = line[0 + i - 1]
    BY <1>1, <1>3 DEF Cells
  <2> QED
    BY <2>1, <1>1 DEF Segment
<1>5. Segment(line', 0, s2') = Append(Segment(line, 0, s2), k)
  <2>1. line'[s2] = k
    BY <1>1, <1>3 DEF Cells
  <2>2. s2 < LINE_SIZE
    BY <1>1, <1>3
  <2>3. Segment(line', 0, s2 + 1) = Append(Segment(line', 0, s2), line'[s2])
    BY <1>2, <1>3, <2>2, <1>1, PrefixAppend
  <2> QED
    BY <1>1, <1>4, <2>1, <2>3
<1>6. Segment(line', s2', s1') = Segment(line, s2, s1)
  <2>1. s2' \in Nat /\ s1' \in Nat /\ s1' - s2' = s1 - s2 /\ s1 \in Nat /\ s2 \in Nat
    BY <1>1
  <2>2. \A i \in 1..(s1' - s2') : line'[s2' + i - 1] = line[s2 + i - 1]
    BY <1>1, <1>3 DEF Cells
  <2> QED
    BY <2>1, <2>2 DEF Segment
<1>7. Len(Segment(line, 0, s2)) + Len(Segment(line, s2, s1)) = s1
  BY <1>1, LengthOfLine DEF Editing
<1> QED
  BY <1>5, <1>6, <1>7

LEMMA SimulateInsert ==
  ASSUME LineInv, NEW k \in Keys \cup {"EOF"}, Insert(k)
  PROVE  Console!Next
<1>1. /\ pc = "loop" /\ pc' = pc /\ k \in Chars
      /\ s1 \in Nat /\ s1 < LINE_SIZE - 1
      /\ begin \in Nat /\ end \in Nat /\ LINE_SIZE \in Nat
      /\ UNCHANGED <<begin, end, call, a0>>
  BY DEF Insert, LineInv, TypeOK, Cells
<1>2. Segment(line', begin', end') = Segment(line, begin, end)
  BY <1>1, SegmentEmpty DEF LineInv, Editing
<1> QED
  BY <1>1, <1>2, InsertSegments DEF Console!Next, Console!Edit, Editing

LEMMA DeleteSegments ==
  ASSUME LineInv, NEW k \in Keys \cup {"EOF"}, Delete(k)
  PROVE  /\ Segment(line, 0, s2) # << >>
         /\ Segment(line', 0, s2')
            = SubSeq(Segment(line, 0, s2), 1, Len(Segment(line, 0, s2)) - 1)
         /\ Segment(line', s2', s1') = Segment(line, s2, s1)
<1>1. /\ pc = "loop" /\ pc' = pc
      /\ s1 \in Nat /\ s2 \in Nat /\ 0 < s2 /\ s2 <= s1 /\ s1 < LINE_SIZE
      /\ s1' = s1 - 1 /\ s2' = s2 - 1
      /\ line' = [i \in Cells |-> IF i \in s2'..(s1' - 1) THEN line[i + 1] ELSE line[i]]
      /\ UNCHANGED <<begin, end, call, a0>>
  BY DEF Delete, LineInv, TypeOK, InBuffer, Editing, Cells
<1>2. begin \in Nat /\ end \in Nat /\ LINE_SIZE \in Nat
  BY DEF LineInv, TypeOK, Cells
<1>3. Segment(line', 0, s2') = Segment(line, 0, s2 - 1)
  <2>1. \A i \in 1..(s2' - 0) : line'[0 + i - 1] = line[0 + i - 1]
    BY <1>1, <1>2 DEF Cells
  <2> QED
    BY <2>1, <1>1 DEF Segment
<1>4. Segment(line', s2', s1') = Segment(line, s2, s1)
  <2>1. s2' \in Nat /\ s1' \in Nat /\ s1' - s2' = s1 - s2 /\ s1 \in Nat /\ s2 \in Nat
    BY <1>1
  <2>2. \A i \in 1..(s1' - s2') : line'[s2' + i - 1] = line[s2 + i - 1]
    BY <1>1, <1>2 DEF Cells
  <2> QED
    BY <2>1, <2>2 DEF Segment
<1>5. /\ Segment(line, 0, s2) # << >>
      /\ SubSeq(Segment(line, 0, s2), 1, Len(Segment(line, 0, s2)) - 1)
         = Segment(line, 0, s2 - 1)
  <2>1. s2 \in Nat /\ 0 < s2 /\ s2 <= LINE_SIZE
    BY <1>1, <1>2
  <2> QED
    BY <2>1, LineType, PrefixFront
<1> QED
  BY <1>3, <1>4, <1>5

LEMMA SimulateDelete ==
  ASSUME LineInv, NEW k \in Keys \cup {"EOF"}, Delete(k)
  PROVE  Console!Next
<1>1. /\ pc = "loop" /\ pc' = pc
      /\ begin \in Nat /\ end \in Nat /\ LINE_SIZE \in Nat
      /\ UNCHANGED <<begin, end, call, a0>>
  BY DEF Delete, LineInv, TypeOK, Cells
<1>2. Segment(line', begin', end') = Segment(line, begin, end)
  BY <1>1, SegmentEmpty DEF LineInv, Editing
<1> QED
  BY <1>1, <1>2, DeleteSegments DEF Console!Next, Console!Edit, Editing

(* What the arrows do to it: nothing at the ends of the line.              *)
LEMMA LeftSegments ==
  ASSUME LineInv, NEW k \in Keys \cup {"EOF"}, Left(k)
  PROVE  IF Segment(line, 0, s2) = << >>
         THEN /\ Segment(line', 0, s2') = Segment(line, 0, s2)
              /\ Segment(line', s2', s1') = Segment(line, s2, s1)
         ELSE /\ Segment(line', 0, s2')
                 = SubSeq(Segment(line, 0, s2), 1, Len(Segment(line, 0, s2)) - 1)
              /\ Segment(line', s2', s1')
                 = <<Segment(line, 0, s2)[Len(Segment(line, 0, s2))]>> \o Segment(line, s2, s1)
<1>1. /\ pc = "CSI" /\ pc' = "loop"
      /\ s1 \in Nat /\ s2 \in Nat /\ s2 <= s1 /\ s1 < LINE_SIZE
      /\ UNCHANGED <<line, begin, end, s1, call, a0>>
      /\ IF s2 > 0 THEN s2' = s2 - 1 ELSE s2' = s2
  BY DEF Left, Move, LineInv, TypeOK, InBuffer, Editing, Cells, buffer
<1>2. CASE s2 = 0
  BY <1>1, <1>2, SegmentEmpty
<1>3. CASE s2 > 0
  <2>1. s2 \in Nat /\ 0 < s2 /\ s2 <= LINE_SIZE /\ s2' = s2 - 1
    BY <1>1, <1>3
  <2>2. /\ Segment(line, 0, s2) # << >>
        /\ SubSeq(Segment(line, 0, s2), 1, Len(Segment(line, 0, s2)) - 1)
           = Segment(line, 0, s2')
        /\ Segment(line, 0, s2)[Len(Segment(line, 0, s2))] = line[s2']
    BY <2>1, LineType, PrefixFront
  <2>3. Segment(line, s2', s1) = <<line[s2']>> \o Segment(line, s2, s1)
    <3>1. Segment(line, s2', s2) \o Segment(line, s2, s1) = Segment(line, s2', s1)
      <4>1. s2' \in Nat /\ s2' <= s2 /\ s1 \in Nat /\ s2 <= s1 /\ s1 <= LINE_SIZE
        BY <1>1, <2>1
      <4> QED
        BY <2>1, <4>1, LineType, SegmentConcat
    <3>2. Segment(line, s2', s2) = <<line[s2']>>
      BY <2>1 DEF Segment
    <3> QED
      BY <3>1, <3>2
  <2> QED
    BY <1>1, <2>1, <2>2, <2>3
<1> QED
  BY <1>1, <1>2, <1>3

LEMMA RightSegments ==
  ASSUME LineInv, NEW k \in Keys \cup {"EOF"}, Right(k)
  PROVE  IF Segment(line, s2, s1) = << >>
         THEN /\ Segment(line', 0, s2') = Segment(line, 0, s2)
              /\ Segment(line', s2', s1') = Segment(line, s2, s1)
         ELSE /\ Segment(line', 0, s2')
                 = Append(Segment(line, 0, s2), Head(Segment(line, s2, s1)))
              /\ Segment(line', s2', s1') = Tail(Segment(line, s2, s1))
<1>1. /\ pc = "CSI" /\ pc' = "loop"
      /\ s1 \in Nat /\ s2 \in Nat /\ s2 <= s1 /\ s1 < LINE_SIZE
      /\ UNCHANGED <<line, begin, end, s1, call, a0>>
      /\ IF s2 < s1 THEN s2' = s2 + 1 ELSE s2' = s2
  BY DEF Right, Move, LineInv, TypeOK, InBuffer, Editing, Cells, buffer
<1>2. CASE s2 = s1
  BY <1>1, <1>2, SegmentEmpty
<1>3. CASE s2 < s1
  <2>1. s2 \in Nat /\ s1 \in Nat /\ s1 <= LINE_SIZE /\ s2 < LINE_SIZE /\ s2' = s2 + 1
    BY <1>1, <1>3
  <2>2. /\ Segment(line, s2, s1) # << >>
        /\ Head(Segment(line, s2, s1)) = line[s2]
        /\ Tail(Segment(line, s2, s1)) = Segment(line, s2', s1)
    BY <1>3, <2>1, LineType, SegmentHead
  <2>3. Segment(line, 0, s2') = Append(Segment(line, 0, s2), line[s2])
    BY <2>1, LineType, PrefixAppend
  <2> QED
    BY <1>1, <2>2, <2>3
<1> QED
  BY <1>1, <1>2, <1>3

LEMMA SimulateArrow ==
  ASSUME LineInv, NEW k \in Keys \cup {"EOF"}, Left(k) \/ Right(k)
  PROVE  Console!Next \/ UNCHANGED Console!vars
<1>1. pc = "CSI" /\ pc' = "loop" /\ UNCHANGED <<line, begin, end, call, a0>>
  BY DEF Left, Right, Move, buffer
<1>2. CASE Left(k)
  BY <1>1, <1>2, LeftSegments DEF Console!Next, Console!Edit, Console!vars, Editing
<1>3. CASE Right(k)
  BY <1>1, <1>3, RightSegments DEF Console!Next, Console!Edit, Console!vars, Editing
<1> QED
  BY <1>2, <1>3

LEMMA SimulateEnd ==
  ASSUME LineInv, NEW k \in Keys \cup {"EOF"}, AtEOF(k) \/ Enter(k) \/ AfterCR(k)
  PROVE  Console!Next
<1>1. /\ Editing /\ s1 \in Nat /\ s2 \in Nat /\ s2 <= s1 /\ s1 < LINE_SIZE
      /\ s1' = 0 /\ s2' = 0 /\ begin' = 0 /\ pc' = "get" /\ a0' = a0
      /\ call' = call
  BY DEF AtEOF, Enter, AfterCR, LineFeed, Return, LineInv, TypeOK, InBuffer, Editing, Cells
<1>2. Segment(line', 0, s2') = << >> /\ Segment(line', s2', s1') = << >>
  BY <1>1, SegmentEmpty
<1>3. Segment(line, 0, s2) \o Segment(line, s2, s1) = Segment(line, 0, s1)
  BY <1>1, LineType, PrefixConcat
<1>4. CASE AtEOF(k)
  <2>1. line' = line /\ end' = s1
    BY <1>4 DEF AtEOF, Return
  <2>2. Segment(line', begin', end') = Segment(line, 0, s1)
    BY <1>1, <2>1
  <2>3. Segment(line, 0, s1) = << >> <=> s1 = 0
    <3>1. Len(Segment(line, 0, s1)) = s1
      BY <1>1, LineType, SegmentLen
    <3> QED
      BY <1>1, <3>1, SegmentEmpty
  <2>4. (pc = "get" /\ begin >= end)' = (Segment(line', begin', end') = << >>)
    BY <1>1, <2>1, <2>2, <2>3
  <2> QED
    BY <1>1, <1>2, <1>3, <2>2, <2>4 DEF Console!Next, Console!End, Editing
<1>5. CASE Enter(k) \/ AfterCR(k)
  <2>1. line' = [line EXCEPT ![s1] = "LF"] /\ end' = s1 + 1
    BY <1>5 DEF Enter, AfterCR, LineFeed, Return
  <2>2. line' \in [Cells -> Bytes] /\ line'[s1] = "LF"
    BY <1>1, <2>1, LineType DEF Bytes, Keys, Controls, Cells
  <2>3. Segment(line', 0, s1) = Segment(line, 0, s1)
    <3>1. \A i \in 1..(s1 - 0) : line'[0 + i - 1] = line[0 + i - 1]
      BY <1>1, <2>1, LineType DEF Cells
    <3> QED
      BY <3>1, <1>1 DEF Segment
  <2>4. Segment(line', begin', end') = Append(Segment(line, 0, s1), "LF")
    BY <1>1, <2>1, <2>2, <2>3, PrefixAppend
  <2>5. Segment(line, 0, s1) \in Seq(Bytes)
    BY <1>1, LineType, SegmentLen
  <2>6. Append(Segment(line, 0, s1), "LF") = Segment(line, 0, s1) \o <<"LF">>
    BY <2>5 DEF Bytes, Keys, Controls
  <2>7. Append(Segment(line, 0, s1), "LF") # << >>
    <3>1. \A s \in Seq(Bytes) : Append(s, "LF") # << >>
      OBVIOUS
    <3> QED
      BY <2>5, <3>1
  <2>8. (pc = "get" /\ begin >= end)' = (Segment(line', begin', end') = << >>)
    BY <1>1, <2>1, <2>4, <2>7
  <2>9. Segment(line', begin', end')
          = (Segment(line, 0, s2) \o Segment(line, s2, s1)) \o <<"LF">>
    BY <1>3, <2>4, <2>6
  <2>10. Editing' = FALSE
    BY <1>1 DEF Editing
  <2>11. Console!End
    BY <1>1, <1>2, <2>8, <2>9, <2>10 DEF Console!End
  <2> QED
    BY <2>11 DEF Console!Next
<1> QED
  BY <1>4, <1>5


(* The calls and the handing out.                                          *)
LEMMA SimulateProgram ==
  ASSUME LineInv,
         \/ CallCharacter \/ CallString \/ CallImmediate \/ refill
         \/ PeekCharacter \/ GetCharacter \/ GetString
  PROVE  Console!Next \/ UNCHANGED Console!vars
<1>1. begin \in Nat /\ end \in Nat /\ end <= LINE_SIZE /\ LINE_SIZE \in Nat
  BY DEF LineInv, TypeOK, Cells
<1>2. CASE CallCharacter \/ CallString \/ CallImmediate
  <2>1. pc = "main" /\ pc' \in {"main", "refill"}
    BY <1>2 DEF CallCharacter, CallString, CallImmediate
  <2>2. UNCHANGED <<line, begin, end, s1, s2, a0>>
    BY <1>2 DEF CallCharacter, CallString, CallImmediate, buffer, cursor
  <2>3. (call = "peek_character")' \in BOOLEAN
    OBVIOUS
  <2> QED
    BY <2>1, <2>2, <2>3 DEF Console!Next, Console!Choose, Editing
<1>3. CASE refill
  <2>1. UNCHANGED <<line, begin, end, s1, s2, call>> /\ pc = "refill" /\ a0' = "NUL"
    BY <1>3 DEF refill, buffer, cursor
  <2>2. CASE begin < end
    <3>1. pc' = "get"
      BY <1>3, <2>2 DEF refill
    <3>2. Segment(line, begin, end) # << >>
      BY <1>1, <2>2, LineType, SegmentHead
    <3> QED
      BY <1>1, <2>1, <2>2, <3>1, <3>2 DEF Console!Next, Console!Ask, Editing
  <2>3. CASE ~(begin < end)
    <3>1. pc' = "loop"
      BY <1>3, <2>3 DEF refill
    <3>2. Segment(line, begin, end) = << >>
      BY <1>1, <2>3, SegmentEmpty
    <3> QED
      BY <1>1, <2>1, <2>3, <3>1, <3>2 DEF Console!Next, Console!Ask, Editing
  <2> QED
    BY <2>2, <2>3
<1>4. CASE PeekCharacter \/ GetCharacter \/ GetString
  <2>1. /\ pc = "get" /\ pc' \in {"main", "refill"}
        /\ UNCHANGED <<line, end, s1, s2, call>>
        /\ begin' = IF call = "peek_character" THEN begin ELSE begin + 1
        /\ a0' = line[begin]
    BY <1>4, <1>1 DEF PeekCharacter, GetCharacter, GetString, buffer, cursor
  <2>2. CASE begin < end
    <3>1. /\ Segment(line, begin, end) # << >>
          /\ Head(Segment(line, begin, end)) = line[begin]
          /\ Tail(Segment(line, begin, end)) = Segment(line, begin + 1, end)
      BY <1>1, <2>2, LineType, SegmentHead
    <3>2. Segment(line', begin', end') = IF call = "peek_character"
                                         THEN Segment(line, begin, end)
                                         ELSE Tail(Segment(line, begin, end))
      <4>1. CASE call = "peek_character"
        BY <2>1, <4>1
      <4>2. CASE call # "peek_character"
        <5>1. begin' = begin + 1 /\ line' = line /\ end' = end
          BY <2>1, <4>2
        <5> QED
          BY <3>1, <4>2, <5>1
      <4> QED
        BY <4>1, <4>2
    <3>3. UNCHANGED <<Segment(line, 0, s2), Segment(line, s2, s1), Editing,
                      pc = "get" /\ begin >= end, call = "peek_character">>
      BY <1>1, <2>1, <2>2 DEF Editing
    <3>4. Console!Look
      BY <2>1, <3>1, <3>2, <3>3 DEF Console!Look
    <3> QED
      BY <3>4 DEF Console!Next
  <2>3. CASE ~(begin < end)
    <3>1. begin' \in Nat /\ end' <= begin' /\ end' \in Nat
      BY <1>1, <2>1, <2>3
    <3>2. Segment(line, begin, end) = << >> /\ Segment(line', begin', end') = << >>
      BY <1>1, <2>3, <3>1, SegmentEmpty
    <3> QED
      BY <1>1, <2>1, <2>3, <3>2 DEF Console!Next, Console!LookPastEnd, Editing
  <2> QED
    BY <2>2, <2>3
<1> QED
  BY <1>2, <1>3, <1>4

LEMMA SimulateStep == LineInv /\ [Next]_vars => [Console!Next]_Console!vars
<1> SUFFICES ASSUME LineInv, [Next]_vars PROVE Console!Next \/ UNCHANGED Console!vars
  OBVIOUS
<1>1. CASE read_line
  <2>1. PICK k \in Keys \cup {"EOF"} : OnByte(k)
    BY <1>1 DEF read_line
  <2>2. CASE LineTooLong(k) \/ NothingToDelete(k) \/ CarriageReturn(k)
             \/ Escape(k) \/ AfterESC(k) \/ OtherArrow(k)
    <3>1. /\ pc \in {"loop", "ESC", "CSI"} /\ pc' \in {"loop", "CR", "ESC", "CSI"}
          /\ UNCHANGED <<line, begin, end, s1, s2, call, a0>>
      BY <2>2 DEF LineTooLong, NothingToDelete, CarriageReturn, Escape, Look,
                  AfterESC, OtherArrow, buffer, cursor
    <3> QED
      BY <3>1, Unseen DEF Editing
  <2> QED
    BY <2>1, <2>2, SimulateInsert, SimulateDelete, SimulateArrow,
       SimulateEnd DEF OnByte
<1>2. CASE UNCHANGED vars
  BY <1>2, Unseen DEF vars, buffer, cursor, Editing
<1> QED
  BY <1>1, <1>2, SimulateProgram DEF Next

(* What main gets from get_character, peek_character and get_string is the *)
(* edited line, in order, whatever the size of the line buffer (io.s).     *)
THEOREM EditorImplementsConsole == Spec => ImplementsConsole
<1>1. Spec => []LineInv
  BY LineInvariant
<1> QED
  BY <1>1, ConsoleInit, SimulateStep, PTL DEF Spec, ImplementsConsole, Console!Spec
-----------------------------------------------------------------------------
(* The edited line is what the bytes spell.                                *)

(* Nothing is edited between two lines.                                    *)
LEMMA EditedNothing ==
  ASSUME s1 = 0, s2 = 0, pc \notin {"CR", "ESC", "CSI"}
  PROVE  Edited = NoLine
<1>1. Segment(line, 0, 0) = << >>
  BY SegmentEmpty
<1> QED
  BY <1>1 DEF Edited, NoLine

(* A byte is read once, when it comes, also if it is kept for later.       *)
LEMMA ByteRead ==
  ASSUME EditedAsTyped, NEW k \in Keys \cup {"EOF"}, OnByte(k),
         typed' = IF full THEN typed ELSE Take(typed, k)
  PROVE  typed' = Take(Edited, k)
<1>1. full => k = next
  BY DEF OnByte, Insert, LineTooLong, Delete, NothingToDelete, AtEOF, Enter, CarriageReturn,
         Escape, Look, AfterCR, AfterESC, Left, Right, Move, OtherArrow, get_immediate, peek
<1> QED
  BY <1>1 DEF EditedAsTyped

LEMMA CharFirst ==
  ASSUME NEW k \in Chars
  PROVE  k \notin {"LF", "EOF", "CR", "ESC", "BS"}
BY DEF Controls

(* The four steps that move text or the cursor.                            *)
LEMMA InsertTyped ==
  ASSUME LineInv, NEW k \in Keys \cup {"EOF"}, Insert(k)
  PROVE  Take(Edited, k) = Edited'
<1>1. /\ pc = "loop" /\ pc' = pc /\ k \in Chars
      /\ s1 \in Nat /\ s2 \in Nat /\ s2 <= s1 /\ s1 < LINE_SIZE - 1 /\ LINE_SIZE \in Nat
  BY DEF Insert, LineInv, TypeOK, InBuffer, Cells
<1>2. /\ Segment(line', 0, s2') = Append(Segment(line, 0, s2), k)
      /\ Segment(line', s2', s1') = Segment(line, s2, s1)
      /\ Len(Segment(line, 0, s2)) + Len(Segment(line, s2, s1)) = s1
  BY InsertSegments
<1>3. Take(Edited, k) = [Edited EXCEPT !.left = Append(@, k)]
  <2>1. Take(Edited, k) = Plain(Edited, k)
    BY <1>1 DEF Take, Edited
  <2>2. Len(Edited.left) + Len(Edited.right) < LINE_SIZE - 1
    BY <1>1, <1>2 DEF Edited
  <2>3. Plain(Edited, k) = [Edited EXCEPT !.left = Append(@, k)]
    BY <1>1, <2>2, CharFirst DEF Plain
  <2> QED
    BY <2>1, <2>3
<1> QED
  BY <1>1, <1>2, <1>3 DEF Edited

LEMMA DeleteTyped ==
  ASSUME LineInv, NEW k \in Keys \cup {"EOF"}, Delete(k)
  PROVE  Take(Edited, k) = Edited'
<1>1. pc = "loop" /\ pc' = pc /\ k = "BS" /\ k \notin Chars
  BY DEF Delete, Controls
<1>2. /\ Segment(line, 0, s2) # << >>
      /\ Segment(line', 0, s2') = FrontOf(Segment(line, 0, s2))
      /\ Segment(line', s2', s1') = Segment(line, s2, s1)
  BY DeleteSegments DEF FrontOf
<1>3. Take(Edited, k) = [Edited EXCEPT !.left = FrontOf(@)]
  BY <1>1, <1>2 DEF Edited, Take, Plain
<1> QED
  BY <1>1, <1>2, <1>3 DEF Edited

LEMMA LeftTyped ==
  ASSUME LineInv, NEW k \in Keys \cup {"EOF"}, Left(k)
  PROVE  Take(Edited, k) = Edited'
<1>1. pc = "CSI" /\ pc' = "loop" /\ k = "D" /\ UNCHANGED <<line, s1>>
  BY DEF Left, Move, buffer
<1>2. Take(Edited, k) = GoLeft([Edited EXCEPT !.mode = "plain"])
  BY <1>1 DEF Edited, Take
<1>3. IF Segment(line, 0, s2) = << >>
      THEN Segment(line', 0, s2') = Segment(line, 0, s2)
           /\ Segment(line', s2', s1') = Segment(line, s2, s1)
      ELSE Segment(line', 0, s2') = FrontOf(Segment(line, 0, s2))
           /\ Segment(line', s2', s1')
              = <<Segment(line, 0, s2)[Len(Segment(line, 0, s2))]>> \o Segment(line, s2, s1)
  BY LeftSegments DEF FrontOf
<1> QED
  BY <1>1, <1>2, <1>3 DEF Edited, GoLeft

LEMMA RightTyped ==
  ASSUME LineInv, NEW k \in Keys \cup {"EOF"}, Right(k)
  PROVE  Take(Edited, k) = Edited'
<1>1. pc = "CSI" /\ pc' = "loop" /\ k = "C" /\ UNCHANGED <<line, s1>>
  BY DEF Right, Move, buffer
<1>2. Take(Edited, k) = GoRight([Edited EXCEPT !.mode = "plain"])
  BY <1>1 DEF Edited, Take
<1>3. IF Segment(line, s2, s1) = << >>
      THEN Segment(line', 0, s2') = Segment(line, 0, s2)
           /\ Segment(line', s2', s1') = Segment(line, s2, s1)
      ELSE Segment(line', 0, s2') = Append(Segment(line, 0, s2), Head(Segment(line, s2, s1)))
           /\ Segment(line', s2', s1') = Tail(Segment(line, s2, s1))
  BY RightSegments
<1> QED
  BY <1>1, <1>2, <1>3 DEF Edited, GoRight

(* A byte that ends the line; the one behind \r stays if it is no \n.      *)
LEMMA EndTyped ==
  ASSUME LineInv, NEW k \in Keys \cup {"EOF"}, AtEOF(k) \/ Enter(k) \/ AfterCR(k)
  PROVE  Take(Edited, k) = IF full' THEN Take(Edited', next') ELSE Edited'
<1>1. Edited' = NoLine
  <2>1. s1' = 0 /\ s2' = 0 /\ pc' = "get"
    BY DEF AtEOF, Enter, AfterCR, LineFeed, Return
  <2>2. Segment(line', 0, 0) = << >>
    BY SegmentEmpty
  <2> QED
    BY <2>1, <2>2 DEF Edited, NoLine
<1>2. CASE AtEOF(k) \/ Enter(k)
  <2>1. pc = "loop" /\ full' = FALSE /\ k \in {"LF", "EOF"} /\ k \notin Chars
    BY <1>2 DEF AtEOF, Enter, get_immediate, Controls
  <2>2. Take(Edited, k) = NoLine
    BY <2>1 DEF Take, Plain, Edited
  <2> QED
    BY <1>1, <2>1, <2>2
<1>3. CASE AfterCR(k)
  <2>1. pc = "CR" /\ full' = (k # "LF") /\ k = next'
    BY <1>3 DEF AfterCR, peek
  <2>2. Take(Edited, k) = IF k = "LF" THEN NoLine ELSE Plain(NoLine, k)
    BY <2>1 DEF Take, Edited
  <2>3. Take(NoLine, k) = Plain(NoLine, k)
    BY DEF Take, NoLine
  <2> QED
    BY <1>1, <2>1, <2>2, <2>3
<1> QED
  BY <1>2, <1>3

(* The bytes that change no text.                                          *)
LEMMA ModeTyped ==
  ASSUME LineInv, NEW k \in Keys \cup {"EOF"},
         \/ LineTooLong(k) \/ NothingToDelete(k) \/ CarriageReturn(k) \/ Escape(k)
         \/ AfterESC(k) \/ OtherArrow(k)
  PROVE  Take(Edited, k) = IF full' THEN Take(Edited', next') ELSE Edited'
<1>1. UNCHANGED <<line, s1, s2>>
  BY DEF LineTooLong, NothingToDelete, CarriageReturn, Escape, Look, AfterESC, OtherArrow,
         buffer, cursor
<1>2. Edited' = [Edited EXCEPT !.mode = IF pc' \in {"CR", "ESC", "CSI"} THEN pc' ELSE "plain"]
  BY <1>1 DEF Edited
<1>3. CASE LineTooLong(k)
  <2>1. pc = "loop" /\ pc' = pc /\ full' = FALSE /\ k \in Chars
    BY <1>3 DEF LineTooLong, get_immediate
  <2>2. Take(Edited, k) = Plain(Edited, k)
    BY <2>1 DEF Take, Edited
  <2>3. ~(Len(Edited.left) + Len(Edited.right) < LINE_SIZE - 1)
    <3>1. Len(Edited.left) + Len(Edited.right) = s1
      BY <2>1, LengthOfLine DEF Edited, Editing
    <3>2. ~(s1 < LINE_SIZE - 1)
      BY <1>3 DEF LineTooLong, LineInv, TypeOK, Cells
    <3> QED
      BY <3>1, <3>2
  <2>4. Plain(Edited, k) = Edited
    BY <2>1, <2>3, CharFirst DEF Plain
  <2> QED
    BY <1>2, <2>1, <2>2, <2>4 DEF Edited
<1>4. CASE NothingToDelete(k)
  <2>1. pc = "loop" /\ pc' = pc /\ full' = FALSE /\ k = "BS" /\ k \notin Chars /\ s2 = 0
    BY <1>4 DEF NothingToDelete, get_immediate, Controls
  <2>2. Segment(line, 0, s2) = << >>
    BY <2>1, SegmentEmpty
  <2>3. Take(Edited, k) = Edited
    BY <2>1, <2>2 DEF Take, Plain, Edited
  <2> QED
    BY <1>2, <2>1, <2>3 DEF Edited
<1>5. CASE CarriageReturn(k) \/ Escape(k)
  <2>1. /\ pc = "loop" /\ full' = FALSE /\ k \in {"CR", "ESC"} /\ k \notin Chars
        /\ pc' = k
    BY <1>5 DEF CarriageReturn, Escape, Look, get_immediate, Controls
  <2>2. Take(Edited, k) = [Edited EXCEPT !.mode = k]
    BY <2>1 DEF Take, Plain, Edited
  <2> QED
    BY <1>2, <2>1, <2>2
<1>6. CASE AfterESC(k)
  <2>1. /\ pc = "ESC" /\ full' = (k # "[") /\ k = next'
        /\ pc' = IF k = "[" THEN "CSI" ELSE "loop"
    BY <1>6 DEF AfterESC, peek
  <2> DEFINE out == [Edited EXCEPT !.mode = "plain"]
  <2>2. Take(Edited, k) = IF k = "[" THEN [Edited EXCEPT !.mode = "CSI"] ELSE Plain(out, k)
    BY <2>1 DEF Take, Edited
  <2>3. Take(out, k) = Plain(out, k)
    BY DEF Take, Edited
  <2>4. CASE k = "["
    BY <1>2, <2>1, <2>2, <2>4
  <2>5. CASE k # "["
    BY <1>2, <2>1, <2>2, <2>3, <2>5
  <2> QED
    BY <2>4, <2>5
<1>7. CASE OtherArrow(k)
  <2>1. /\ pc = "CSI" /\ full' = (k \notin {"A", "B"}) /\ k = next' /\ pc' = "loop"
        /\ k \notin {"C", "D"}
    BY <1>7 DEF OtherArrow, peek
  <2> DEFINE out == [Edited EXCEPT !.mode = "plain"]
  <2>2. Take(Edited, k) = IF k \in {"A", "B"} THEN out ELSE Plain(out, k)
    BY <2>1 DEF Take, Edited
  <2>3. Take(out, k) = Plain(out, k)
    BY DEF Take, Edited
  <2>4. Edited' = out
    BY <1>2, <2>1
  <2> QED
    BY <2>1, <2>2, <2>3, <2>4
<1> QED
  BY <1>3, <1>4, <1>5, <1>6, <1>7

LEMMA TypedStep == LineInv /\ EditedAsTyped /\ [StreamNext]_streamVars => EditedAsTyped'
<1> SUFFICES ASSUME LineInv, EditedAsTyped, [StreamNext]_streamVars PROVE EditedAsTyped'
  OBVIOUS
<1>1. CASE /\ \/ CallCharacter \/ CallString \/ refill
              \/ PeekCharacter \/ GetCharacter \/ GetString
           /\ typed' = typed
  <2>1. UNCHANGED <<line, s1, s2, next, full>>
    BY <1>1 DEF CallCharacter, CallString, refill, PeekCharacter, GetCharacter, GetString,
                buffer, cursor
  <2>2. pc \notin {"CR", "ESC", "CSI"} /\ pc' \notin {"CR", "ESC", "CSI"}
    BY <1>1 DEF CallCharacter, CallString, refill, PeekCharacter, GetCharacter, GetString
  <2>3. Edited' = Edited
    BY <2>1, <2>2 DEF Edited
  <2> QED
    BY <1>1, <2>1, <2>3 DEF EditedAsTyped
<1>2. CASE CallImmediate /\ typed' = NoLine
  <2>1. full' = FALSE /\ UNCHANGED <<line, s1, s2, pc>> /\ pc = "main"
    BY <1>2 DEF CallImmediate, get_immediate, buffer, cursor
  <2>2. s1 = 0 /\ s2 = 0
    BY <2>1 DEF LineInv, TypeOK, InBuffer, Editing, Cells
  <2>3. Edited = NoLine
    BY <2>1, <2>2, EditedNothing
  <2>4. Edited' = Edited
    BY <2>1 DEF Edited
  <2> QED
    BY <1>2, <2>1, <2>3, <2>4 DEF EditedAsTyped
<1>3. CASE \E k \in Keys \cup {"EOF"} :
             OnByte(k) /\ typed' = IF full THEN typed ELSE Take(typed, k)
  <2>1. PICK k \in Keys \cup {"EOF"} :
          OnByte(k) /\ typed' = IF full THEN typed ELSE Take(typed, k)
    BY <1>3
  <2>2. typed' = Take(Edited, k)
    BY <2>1, ByteRead
  <2>3. CASE Insert(k) \/ Delete(k) \/ Left(k) \/ Right(k)
    <3>1. full' = FALSE
      BY <2>3 DEF Insert, Delete, Left, Right, Move, get_immediate
    <3>2. Take(Edited, k) = Edited'
      BY <2>3, InsertTyped, DeleteTyped, LeftTyped, RightTyped
    <3> QED
      BY <2>2, <3>1, <3>2 DEF EditedAsTyped
  <2>4. CASE AtEOF(k) \/ Enter(k) \/ AfterCR(k)
    BY <2>2, <2>4, EndTyped DEF EditedAsTyped
  <2>5. CASE \/ LineTooLong(k) \/ NothingToDelete(k) \/ CarriageReturn(k) \/ Escape(k)
             \/ AfterESC(k) \/ OtherArrow(k)
    BY <2>2, <2>5, ModeTyped DEF EditedAsTyped
  <2> QED
    BY <2>1, <2>3, <2>4, <2>5 DEF OnByte
<1>4. CASE UNCHANGED streamVars
  BY <1>4 DEF streamVars, vars, buffer, cursor, EditedAsTyped, Edited
<1> QED
  BY <1>1, <1>2, <1>3, <1>4 DEF StreamNext

(* A step of the stream is one of the editor.                              *)
LEMMA StreamStep == [StreamNext]_streamVars => [Next]_vars
BY DEF StreamNext, streamVars, Next, read_line

(* The line that is edited is what the bytes spell that were delivered,    *)
(* none lost, read twice or mistaken for another in the look-ahead behind  *)
(* \r and ESC, whatever the size of the line buffer and the characters     *)
(* (io.s).                                                                 *)
THEOREM EditedLineIsTyped == StreamSpec => []EditedAsTyped
<1>1. StreamInit => LineInv /\ EditedAsTyped
  <2> SUFFICES ASSUME StreamInit PROVE LineInv /\ EditedAsTyped
    OBVIOUS
  <2>1. LineInv
    BY InitLine DEF StreamInit
  <2>2. s1 = 0 /\ s2 = 0 /\ pc = "main" /\ full = FALSE /\ typed = NoLine
    BY DEF StreamInit, Init
  <2> QED
    BY <2>1, <2>2, EditedNothing DEF EditedAsTyped
<1>2. LineInv /\ EditedAsTyped /\ [StreamNext]_streamVars => (LineInv /\ EditedAsTyped)'
  BY NextLine, StreamStep, TypedStep
<1> QED
  BY <1>1, <1>2, PTL DEF StreamSpec

-----------------------------------------------------------------------------
(* What the terminal shows.                                                *)

(* The screen after each character of out.                                 *)
Shown(scr, out, g) ==
  g = [n \in 0..Len(out) |-> IF n = 0 THEN scr ELSE Receive(g[n - 1], out[n])]

LEMMA ShownSteps ==
  ASSUME NEW T, NEW scr, NEW out \in Seq(T), NEW g
  PROVE  Shown(scr, out, g) <=>
           /\ g = [n \in 0..Len(out) |-> g[n]]
           /\ g[0] = scr
           /\ \A n \in 1..Len(out) : g[n] = Receive(g[n - 1], out[n])
<1> DEFINE h == [n \in 0..Len(out) |-> IF n = 0 THEN scr ELSE Receive(g[n - 1], out[n])]
<1>1. Len(out) \in Nat
  OBVIOUS
<1>2. ASSUME g = h
      PROVE  /\ g = [n \in 0..Len(out) |-> g[n]]
             /\ g[0] = scr
             /\ \A n \in 1..Len(out) : g[n] = Receive(g[n - 1], out[n])
  <2>1. \A n \in 0..Len(out) : g[n] = h[n]
    BY <1>2
  <2>2. h = [n \in 0..Len(out) |-> h[n]]
    OBVIOUS
  <2> QED
    BY <1>1, <1>2, <2>1, <2>2
<1>3. ASSUME g = [n \in 0..Len(out) |-> g[n]], g[0] = scr,
             \A n \in 1..Len(out) : g[n] = Receive(g[n - 1], out[n])
      PROVE  g = h
  <2>1. ASSUME NEW n \in 0..Len(out) PROVE g[n] = h[n]
    <3>1. CASE n = 0
      BY <1>3, <3>1
    <3>2. CASE n # 0
      BY <1>1, <1>3, <3>2, n \in 1..Len(out)
    <3> QED
      BY <3>1, <3>2
  <2>2. [n \in 0..Len(out) |-> g[n]] = h
    BY <2>1
  <2> QED
    BY <1>3, <2>2
<1> QED
  BY <1>2, <1>3 DEF Shown

(* There are such screens, as far as each n.                               *)
LEMMA ShownExists ==
  ASSUME NEW T, NEW scr, NEW out \in Seq(T)
  PROVE  \E g : Shown(scr, out, g)
<1> DEFINE Upto(g, m) == /\ g = [n \in 0..m |-> g[n]]
                         /\ g[0] = scr
                         /\ \A n \in 1..m : g[n] = Receive(g[n - 1], out[n])
           Missing == {m \in 0..Len(out) : ~ \E g : Upto(g, m)}
<1>1. Len(out) \in Nat
  OBVIOUS
<1>2. 0 \notin Missing
  <2> DEFINE g == [n \in 0..0 |-> scr]
  <2>1. Upto(g, 0)
    OBVIOUS
  <2> QED
    BY <2>1
<1>3. ASSUME NEW m \in Missing, \A k \in Missing : m <= k
      PROVE  FALSE
  <2>0. m \in 0..Len(out) /\ m # 0
    <3>1. m \in 0..Len(out)
      OBVIOUS
    <3> HIDE DEF Missing
    <3> QED
      BY <1>2, <3>1
  <2>1. m # 0 /\ m - 1 \in 0..Len(out) /\ m - 1 \notin Missing /\ m \in Nat
    <3> HIDE DEF Missing
    <3> QED
      BY <1>1, <2>0, <1>3
  <2>2. PICK g : Upto(g, m - 1)
    BY <2>1
  <2> DEFINE h == [n \in 0..m |-> IF n = m THEN Receive(g[m - 1], out[m]) ELSE g[n]]
  <2> HIDE DEF Missing
  <2>3. h = [n \in 0..m |-> h[n]]
    OBVIOUS
  <2>4. h[0] = scr
    BY <2>1, <2>2
  <2>6. ASSUME NEW n \in 1..m PROVE h[n] = Receive(h[n - 1], out[n])
    <3>1. h[n - 1] = g[n - 1]
      BY <2>1
    <3>2. CASE n = m
      BY <2>1, <3>1, <3>2
    <3>3. CASE n # m
      <4>1. n \in 1..(m - 1)
        BY <2>1, <3>3
      <4>2. g[n] = Receive(g[n - 1], out[n])
        BY <2>2, <4>1
      <4>3. h[n] = g[n]
        BY <3>3
      <4> QED
        BY <3>1, <4>2, <4>3
    <3> QED
      BY <3>2, <3>3
  <2>5. Upto(h, m)
    BY <2>3, <2>4, <2>6
  <2> QED
    BY <2>5 DEF Missing
<1>4. Missing = {}
  <2>1. Missing \subseteq Nat
    BY <1>1
  <2> HIDE DEF Missing
  <2> QED
    BY <1>3, <2>1, Smallest
<1>5. PICK g : Upto(g, Len(out))
  BY <1>1, <1>4
<1> QED
  BY <1>5, ShownSteps

LEMMA ShownOnce ==
  ASSUME NEW T, NEW scr, NEW out \in Seq(T), NEW g, NEW h,
         Shown(scr, out, g), Shown(scr, out, h)
  PROVE  g = h
<1> DEFINE Apart == {n \in 0..Len(out) : g[n] # h[n]}
<1>1. Len(out) \in Nat
  OBVIOUS
<1>0. \A f : Shown(scr, out, f) =>
               /\ f = [n \in 0..Len(out) |-> f[n]]
               /\ f[0] = scr
               /\ \A n \in 1..Len(out) : f[n] = Receive(f[n - 1], out[n])
  BY ShownSteps
<1>2. /\ g = [n \in 0..Len(out) |-> g[n]]
      /\ g[0] = scr
      /\ \A n \in 1..Len(out) : g[n] = Receive(g[n - 1], out[n])
  BY Zenon, <1>0
<1>3. /\ h = [n \in 0..Len(out) |-> h[n]]
      /\ h[0] = scr
      /\ \A n \in 1..Len(out) : h[n] = Receive(h[n - 1], out[n])
  BY Zenon, <1>0
<1>4. ASSUME NEW m \in Apart, \A k \in Apart : m <= k
      PROVE  FALSE
  <2>1. m # 0 /\ m \in 1..Len(out) /\ m - 1 \in 0..Len(out) /\ m - 1 \notin Apart
    BY <1>1, <1>2, <1>3, <1>4
  <2>2. g[m - 1] = h[m - 1]
    BY <2>1
  <2>3. g[m] = h[m]
    BY <1>2, <1>3, <2>1, <2>2
  <2> QED
    BY <2>3
<1>5. Apart = {}
  <2>1. Apart \subseteq Nat
    BY <1>1
  <2> HIDE DEF Apart
  <2> QED
    BY <1>4, <2>1, Smallest
<1>6. \A n \in 0..Len(out) : g[n] = h[n]
  BY <1>5
<1> QED
  BY <1>2, <1>3, <1>6

(* So the display is whatever such screens end with.                       *)
LEMMA DisplayIs ==
  ASSUME NEW T, NEW scr, NEW out \in Seq(T), NEW g, Shown(scr, out, g)
  PROVE  Display(scr, out) = g[Len(out)]
<1> DEFINE s == CHOOSE h : Shown(scr, out, h)
<1>1. Shown(scr, out, s)
  OBVIOUS
<1>2. s = g
  BY <1>1, ShownOnce
<1>3. Display(scr, out) = s[Len(out)]
  BY DEF Display, Shown
<1> QED
  BY <1>2, <1>3

LEMMA DisplayOne ==
  ASSUME NEW scr, NEW c
  PROVE  Display(scr, <<c>>) = Receive(scr, c)
<1> DEFINE g == [n \in 0..1 |-> IF n = 0 THEN scr ELSE Receive(scr, c)]
<1>1. <<c>> \in Seq({c}) /\ Len(<<c>>) = 1 /\ <<c>>[1] = c
  OBVIOUS
<1>2. /\ g = [n \in 0..1 |-> g[n]] /\ g[0] = scr /\ g[1] = Receive(g[0], c)
  OBVIOUS
<1> HIDE DEF g
<1>3. \A n \in 1..1 : g[n] = Receive(g[n - 1], <<c>>[n])
  BY <1>2
<1>4. Shown(scr, <<c>>, g)
  BY <1>1, <1>2, <1>3, ShownSteps
<1>5. Display(scr, <<c>>) = g[Len(<<c>>)]
  BY <1>1, <1>4, DisplayIs
<1> QED
  BY <1>1, <1>2, <1>5

(* Of two strings the second is shown where the first has left the cursor. *)
LEMMA DisplayBoth ==
  ASSUME NEW T, NEW scr, NEW a \in Seq(T), NEW b \in Seq(T)
  PROVE  Display(scr, a \o b) = Display(Display(scr, a), b)
<1>1. PICK g : Shown(scr, a, g)
  BY ShownExists
<1>2. Display(scr, a) = g[Len(a)]
  BY <1>1, DisplayIs
<1>3. PICK h : Shown(Display(scr, a), b, h)
  BY ShownExists
<1>4. Display(Display(scr, a), b) = h[Len(b)]
  BY <1>3, DisplayIs
<1>5. g[0] = scr /\ \A n \in 1..Len(a) : g[n] = Receive(g[n - 1], a[n])
  BY <1>1, ShownSteps
<1>6. h[0] = g[Len(a)] /\ \A n \in 1..Len(b) : h[n] = Receive(h[n - 1], b[n])
  BY <1>2, <1>3, ShownSteps
<1> DEFINE f == [n \in 0..Len(a \o b) |-> IF n <= Len(a) THEN g[n] ELSE h[n - Len(a)]]
<1>7. /\ a \o b \in Seq(T) /\ Len(a \o b) = Len(a) + Len(b)
      /\ Len(a) \in Nat /\ Len(b) \in Nat
  OBVIOUS
<1>8. /\ \A n \in 1..Len(a) : (a \o b)[n] = a[n]
      /\ \A n \in 1..Len(b) : (a \o b)[Len(a) + n] = b[n]
  OBVIOUS
<1>9. f = [n \in 0..Len(a \o b) |-> f[n]] /\ f[0] = scr
  BY <1>5, <1>7
<1>10. ASSUME NEW n \in 1..Len(a \o b)
       PROVE  f[n] = Receive(f[n - 1], (a \o b)[n])
  <2>1. CASE n <= Len(a)
    <3>1. f[n] = g[n] /\ f[n - 1] = g[n - 1] /\ n \in 1..Len(a)
      BY <1>7, <2>1
    <3> QED
      BY <1>5, <1>8, <3>1
  <2>2. CASE n > Len(a)
    <3> DEFINE k == n - Len(a)
    <3>1. k \in 1..Len(b) /\ n = Len(a) + k
      BY <1>7, <2>2
    <3>2. f[n] = h[k]
      BY <1>7, <2>2
    <3>3. f[n - 1] = h[k - 1]
      <4>1. CASE k = 1
        BY <1>6, <1>7, <3>1, <4>1
      <4>2. CASE k # 1
        BY <1>7, <3>1, <4>2
      <4> QED
        BY <4>1, <4>2
    <3> HIDE DEF f, k
    <3>4. (a \o b)[n] = b[k] /\ h[k] = Receive(h[k - 1], b[k])
      BY <1>6, <1>8, <3>1
    <3> QED
      BY <3>2, <3>3, <3>4
  <2> QED
    BY <1>7, <2>1, <2>2
<1>11. f[Len(a \o b)] = h[Len(b)]
  <2>1. CASE Len(b) = 0
    BY <1>6, <1>7, <2>1
  <2>2. CASE Len(b) # 0
    BY <1>7, <2>2
  <2> QED
    BY <2>1, <2>2
<1> HIDE DEF f
<1>12. Shown(scr, a \o b, f)
  BY <1>7, <1>9, <1>10, ShownSteps
<1>13. Display(scr, a \o b) = f[Len(a \o b)]
  BY <1>7, <1>12, DisplayIs
<1> QED
  BY <1>4, <1>11, <1>13

Moves == {"BS", "go_left", "go_right", "LF"}

Longer(m, n) == IF m < n THEN n ELSE m

(* The screen with the first n characters of a text over what it showed.   *)
Written(scr, text, n) ==
  [col |-> scr.col + n,
   row |-> [i \in 1..Longer(Len(scr.row), scr.col + n) |->
              IF i \in (scr.col + 1)..(scr.col + n) THEN text[i - scr.col]
              ELSE scr.row[i]]]

(* A terminal whose cursor is on its row or right behind it.               *)
Screens(T) ==
  {scr \in [col : Nat, row : Seq(T)] : scr.col <= Len(scr.row)}

LEMMA WriteOne ==
  ASSUME NEW T, NEW scr \in Screens(T), NEW text \in Seq(T),
         NEW n \in 1..Len(text), text[n] \notin Moves
  PROVE  Receive(Written(scr, text, n - 1), text[n]) = Written(scr, text, n)
<1> DEFINE old == Written(scr, text, n - 1)
           old_len == Longer(Len(scr.row), scr.col + n - 1)
           new_len == Longer(Len(scr.row), scr.col + n)
<1>1. /\ scr.col \in Nat /\ Len(scr.row) \in Nat /\ scr.col <= Len(scr.row)
      /\ n \in Nat /\ n >= 1
  BY DEF Screens
<1>2. old_len \in Nat /\ new_len \in Nat
  BY <1>1 DEF Longer
<1>3. /\ old.col = scr.col + n - 1
      /\ old.row = [i \in 1..old_len |->
                      IF i \in (scr.col + 1)..(scr.col + n - 1) THEN text[i - scr.col]
                      ELSE scr.row[i]]
  BY <1>1 DEF Written
<1>4. Len(old.row) = old_len
  BY <1>2, <1>3
<1>5. (IF old.col < Len(old.row) THEN Len(old.row) ELSE old.col + 1) = new_len
  BY <1>1, <1>3, <1>4 DEF Longer
<1>6. ASSUME NEW i \in 1..new_len
      PROVE  (IF i = old.col + 1 THEN text[n]
              ELSE IF i <= Len(old.row) THEN old.row[i] ELSE Blank)
             = (IF i \in (scr.col + 1)..(scr.col + n) THEN text[i - scr.col]
                ELSE scr.row[i])
  <2>1. CASE i = scr.col + n
    BY <1>1, <1>3, <2>1
  <2>2. CASE i # scr.col + n
    <3>1. i \in 1..old_len
      BY <1>1, <1>2, <2>2 DEF Longer
    <3>2. i \in (scr.col + 1)..(scr.col + n) <=> i \in (scr.col + 1)..(scr.col + n - 1)
      BY <1>1, <1>2, <2>2
    <3> HIDE DEF old_len, new_len
    <3>3. i <= Len(old.row) /\ i # old.col + 1
      BY <1>1, <1>2, <1>3, <1>4, <2>2, <3>1
    <3> QED
      BY <1>3, <3>1, <3>2, <3>3
  <2> QED
    BY <2>1, <2>2
<1> HIDE DEF old
<1>7. Receive(old, text[n])
        = [col |-> old.col + 1,
           row |-> [i \in 1..new_len |->
                      IF i = old.col + 1 THEN text[n]
                      ELSE IF i <= Len(old.row) THEN old.row[i] ELSE Blank]]
  BY <1>5 DEF Receive, Moves
<1>8. [i \in 1..new_len |->
         IF i = old.col + 1 THEN text[n]
         ELSE IF i <= Len(old.row) THEN old.row[i] ELSE Blank]
      = [i \in 1..new_len |->
           IF i \in (scr.col + 1)..(scr.col + n) THEN text[i - scr.col]
           ELSE scr.row[i]]
  BY <1>6
<1>9. old.col + 1 = scr.col + n
  BY <1>1, <1>3
<1>10. Receive(old, text[n]) = Written(scr, text, n)
  BY <1>7, <1>8, <1>9 DEF Written
<1> QED
  BY <1>10 DEF old

(* A text without control strings is written from the cursor on.           *)
LEMMA DisplayText ==
  ASSUME NEW T, NEW scr \in Screens(T), NEW text \in Seq(T),
         \A n \in 1..Len(text) : text[n] \notin Moves
  PROVE  Display(scr, text) = Written(scr, text, Len(text))
<1> DEFINE g == [n \in 0..Len(text) |-> Written(scr, text, n)]
<1>1. Len(text) \in Nat
  OBVIOUS
<1>2. \A n \in 1..Len(text) : g[n] = Receive(g[n - 1], text[n])
  BY <1>1, WriteOne
<1>3. scr = [col |-> scr.col, row |-> scr.row] /\ scr.col \in Nat
      /\ scr.row \in Seq(T) /\ scr.col <= Len(scr.row)
  BY DEF Screens
<1>4. Written(scr, text, 0) = scr
  <2>1. Longer(Len(scr.row), scr.col + 0) = Len(scr.row)
    BY <1>3 DEF Longer
  <2>2. [i \in 1..Len(scr.row) |->
              IF i \in (scr.col + 1)..(scr.col + 0) THEN text[i - scr.col]
              ELSE scr.row[i]] = [i \in 1..Len(scr.row) |-> scr.row[i]]
    BY <1>3
  <2>3. [i \in 1..Len(scr.row) |-> scr.row[i]] = scr.row
    BY <1>3
  <2> QED
    BY <1>3, <2>1, <2>2, <2>3 DEF Written
<1>5. g[0] = scr /\ g[Len(text)] = Written(scr, text, Len(text))
  BY <1>1, <1>4
<1>6. g = [n \in 0..Len(text) |-> g[n]]
  OBVIOUS
<1> HIDE DEF g
<1>7. Shown(scr, text, g)
  BY <1>2, <1>5, <1>6, ShownSteps
<1> QED
  BY <1>5, <1>7, DisplayIs

(* go_left_str, n times.                                                   *)
LEMMA DisplayBack ==
  ASSUME NEW T, NEW scr \in Screens(T), NEW n \in 0..scr.col
  PROVE  Display(scr, SendBack(n)) = [scr EXCEPT !.col = scr.col - n]
<1> DEFINE g == [m \in 0..n |-> [scr EXCEPT !.col = scr.col - m]]
           out == SendBack(n)
<1>1. scr.col \in Nat /\ scr = [col |-> scr.col, row |-> scr.row] /\ n \in Nat
  BY DEF Screens
<1>2. out \in Seq({"go_left"}) /\ Len(out) = n /\ \A m \in 1..n : out[m] = "go_left"
  BY <1>1 DEF SendBack
<1>3. ASSUME NEW m \in 1..n PROVE g[m] = Receive(g[m - 1], out[m])
  <2>1. g[m] = [scr EXCEPT !.col = scr.col - m]
    OBVIOUS
  <2>2. g[m - 1] = [scr EXCEPT !.col = scr.col - (m - 1)] /\ m - 1 \in 0..n
    BY <1>1
  <2>3. g[m - 1].col = scr.col - (m - 1) /\ g[m - 1].row = scr.row
        /\ g[m - 1] = [col |-> scr.col - (m - 1), row |-> scr.row]
    BY <1>1, <2>2
  <2>4. scr.col - (m - 1) # 0 /\ scr.col - (m - 1) - 1 = scr.col - m
    BY <1>1
  <2> HIDE DEF g, out
  <2>5. Receive(g[m - 1], "go_left") = [col |-> scr.col - m, row |-> scr.row]
    BY <2>3, <2>4 DEF Receive
  <2> QED
    BY <1>1, <1>2, <2>1, <2>5
<1>4. g[0] = scr /\ g[n] = [scr EXCEPT !.col = scr.col - n]
  BY <1>1
<1>5. g = [m \in 0..n |-> g[m]]
  OBVIOUS
<1> HIDE DEF g, out
<1>6. Shown(scr, out, g)
  BY <1>2, <1>3, <1>4, <1>5, ShownSteps
<1>7. Display(scr, out) = g[n]
  BY <1>2, <1>6, DisplayIs
<1> QED
  BY <1>4, <1>7 DEF out

Printed == Chars \cup {Blank}

LEMMA WrittenType ==
  ASSUME NEW T, NEW scr \in Screens(T), NEW text \in Seq(T)
  PROVE  LET w == Written(scr, text, Len(text)) IN
         /\ w \in Screens(T)
         /\ w.col = scr.col + Len(text)
         /\ Len(w.row) = Longer(Len(scr.row), scr.col + Len(text))
         /\ \A i \in 1..Len(w.row) :
              w.row[i] = IF i \in (scr.col + 1)..(scr.col + Len(text))
                         THEN text[i - scr.col] ELSE scr.row[i]
<1> DEFINE n == Longer(Len(scr.row), scr.col + Len(text))
           e(i) == IF i \in (scr.col + 1)..(scr.col + Len(text))
                   THEN text[i - scr.col] ELSE scr.row[i]
<1>1. /\ scr.col \in Nat /\ scr.row \in Seq(T) /\ Len(scr.row) \in Nat
      /\ scr.col <= Len(scr.row) /\ Len(text) \in Nat
  BY DEF Screens
<1>2. n \in Nat /\ scr.col + Len(text) <= n
  BY <1>1 DEF Longer
<1>3. ASSUME NEW i \in 1..n PROVE e(i) \in T
  <2>1. CASE i \in (scr.col + 1)..(scr.col + Len(text))
    <3>1. i - scr.col \in 1..Len(text)
      BY <1>1, <2>1
    <3> QED
      BY <2>1, <3>1
  <2>2. CASE i \notin (scr.col + 1)..(scr.col + Len(text))
    <3>1. i \in 1..Len(scr.row)
      BY <1>1, <1>2, <2>2 DEF Longer
    <3> QED
      BY <1>1, <2>2, <3>1
  <2> QED
    BY <2>1, <2>2
<1>4. [i \in 1..n |-> e(i)] \in Seq(T) /\ Len([i \in 1..n |-> e(i)]) = n
  <2>1. [i \in 1..n |-> e(i)] \in [1..n -> T]
    BY <1>3
  <2> HIDE DEF n, e
  <2> QED
    BY <1>2, <2>1
<1> QED
  BY <1>1, <1>2, <1>4 DEF Written, Screens

(* A text, and n steps back.                                               *)
LEMMA Redraw ==
  ASSUME NEW T, NEW scr \in Screens(T), NEW text \in Seq(T),
         \A i \in 1..Len(text) : text[i] \notin Moves,
         NEW n \in 0..(scr.col + Len(text))
  PROVE  Display(scr, text \o SendBack(n))
           = [Written(scr, text, Len(text)) EXCEPT !.col = scr.col + Len(text) - n]
<1> DEFINE w == Written(scr, text, Len(text))
<1>1. scr.col \in Nat /\ Len(text) \in Nat /\ n \in Nat
  BY DEF Screens
<1>2. w \in Screens(T) /\ w.col = scr.col + Len(text)
  BY WrittenType
<1>3. text \in Seq(T \cup {"go_left"}) /\ SendBack(n) \in Seq(T \cup {"go_left"})
  BY <1>1 DEF SendBack
<1>4. Display(scr, text \o SendBack(n)) = Display(Display(scr, text), SendBack(n))
  BY <1>3, DisplayBoth
<1>5. Display(scr, text) = w
  BY DisplayText
<1> HIDE DEF w
<1>6. Display(w, SendBack(n)) = [w EXCEPT !.col = scr.col + Len(text) - n]
  <2>1. n \in 0..w.col
    BY <1>1, <1>2
  <2>2. Display(w, SendBack(n)) = [w EXCEPT !.col = w.col - n]
    BY <1>2, <2>1, DisplayBack
  <2>3. w.col - n = scr.col + Len(text) - n
    BY <1>1, <1>2
  <2> QED
    BY Zenon, <2>2, <2>3
<1>7. Display(scr, text \o SendBack(n)) = [w EXCEPT !.col = scr.col + Len(text) - n]
  BY Zenon, <1>4, <1>5, <1>6
<1> QED
  BY <1>7 DEF w

MirrorInv ==
  /\ LineInv
  /\ Mirror
  /\ screen \in Screens(Printed)
  /\ Editing => \A i \in 0..(s1 - 1) : line[i] \in Chars

(* Mirror in terms of the cells.                                           *)
CellsShown(f, n, scr) ==
  /\ n <= Len(scr.row)
  /\ \A i \in 1..Len(scr.row) : scr.row[i] = IF i <= n THEN f[i - 1] ELSE Blank

LEMMA ShowsCells ==
  ASSUME NEW f, NEW n \in Nat, NEW scr \in Screens(Printed)
  PROVE  Shows(scr, Segment(f, 0, n)) <=> CellsShown(f, n, scr)
<1> DEFINE s == Segment(f, 0, n)
<1>1. Len(s) = n /\ \A i \in 1..n : s[i] = f[i - 1]
  BY DEF Segment
<1>2. \A i \in 1..Len(scr.row) : i \in Nat /\ i >= 1
  BY DEF Screens
<1> HIDE DEF s
<1>3. \A i \in 1..Len(scr.row) :
        (IF i <= Len(s) THEN s[i] ELSE Blank) = (IF i <= n THEN f[i - 1] ELSE Blank)
  BY <1>1, <1>2
<1>4. Shows(scr, s) <=> CellsShown(f, n, scr)
  BY <1>1, <1>3 DEF Shows, CellsShown
<1> QED
  BY <1>4 DEF s

LEMMA InsertMirror ==
  ASSUME MirrorInv, LineInv', NEW k \in Keys \cup {"EOF"}, Insert(k)
  PROVE  MirrorInv'
<1>1. /\ pc = "loop" /\ pc' = "loop" /\ k \in Chars /\ s1 < LINE_SIZE - 1
      /\ line' = [i \in Cells |-> IF i = s2 THEN k
                                  ELSE IF i \in (s2 + 1)..(s1 + 1) THEN line[i - 1]
                                  ELSE line[i]]
      /\ s1' = s1 + 1 /\ s2' = s2 + 1
      /\ screen' = Display(screen, Text(s2, s1 + 1) \o SendBack(s1 - s2))
  BY DEF Insert
<1>2. s1 \in Nat /\ s2 \in Nat /\ s2 <= s1 /\ Editing /\ screen \in Screens(Printed)
  BY <1>1 DEF MirrorInv, LineInv, TypeOK, InBuffer, Cells, Editing
<1>3. CellsShown(line, s1, screen) /\ screen.col = s2
  BY <1>2, ShowsCells DEF MirrorInv, Mirror
<1>4. \A i \in 0..(s1 - 1) : line[i] \in Chars
  BY <1>2 DEF MirrorInv
<1>5. \A i \in 0..s1 : i \in Cells
  BY <1>1, <1>2 DEF Cells
<1>6. \A i \in 0..s1 : line'[i] \in Chars
  BY <1>1, <1>2, <1>4, <1>5
<1> DEFINE t == Text(s2, s1 + 1)
<1>7. /\ t \in Seq(Printed) /\ Len(t) = s1 + 1 - s2
      /\ \A i \in 1..Len(t) : t[i] = line'[s2 + i - 1] /\ t[i] \in Chars
  <2>1. \A i \in 1..(s1 + 1 - s2) : line'[s2 + i - 1] \in Chars
    BY <1>2, <1>6
  <2>2. t \in [1..(s1 + 1 - s2) -> Printed] /\ s1 + 1 - s2 \in Nat
    BY <1>2, <2>1 DEF Text, Segment, Printed
  <2>3. t \in Seq(Printed) /\ Len(t) = s1 + 1 - s2
    BY <2>2
  <2>4. \A i \in 1..(s1 + 1 - s2) : t[i] = line'[s2 + i - 1]
    BY <1>2 DEF Text, Segment
  <2> HIDE DEF t
  <2> QED
    BY <2>1, <2>3, <2>4
<1> HIDE DEF t
<1>8. \A i \in 1..Len(t) : t[i] \notin Moves
  BY <1>7 DEF Moves, Controls
<1> DEFINE w == Written(screen, t, Len(t))
<1>9. screen' = [w EXCEPT !.col = s2 + 1]
  <2>1. s1 - s2 \in 0..(screen.col + Len(t)) /\ screen.col + Len(t) - (s1 - s2) = s2 + 1
    BY <1>2, <1>3, <1>7
  <2>2. Display(screen, t \o SendBack(s1 - s2))
          = [w EXCEPT !.col = screen.col + Len(t) - (s1 - s2)]
    <3>1. \A n \in 0..(screen.col + Len(t)) :
            Display(screen, t \o SendBack(n))
              = [Written(screen, t, Len(t)) EXCEPT !.col = screen.col + Len(t) - n]
      BY <1>2, <1>7, <1>8, Redraw
    <3> QED
      BY <2>1, <3>1
  <2>3. screen' = Display(screen, t \o SendBack(s1 - s2))
    BY <1>1 DEF t
  <2> HIDE DEF w
  <2> QED
    BY <2>1, <2>2, <2>3
<1>10. /\ w \in Screens(Printed) /\ w.col = s1 + 1
       /\ Len(w.row) = Longer(Len(screen.row), s1 + 1)
       /\ \A i \in 1..Len(w.row) :
            w.row[i] = IF i \in (s2 + 1)..(s1 + 1) THEN t[i - s2] ELSE screen.row[i]
  <2>1. screen.col + Len(t) = s1 + 1
    BY <1>2, <1>3, <1>7
  <2>2. /\ w \in Screens(Printed) /\ w.col = screen.col + Len(t)
        /\ Len(w.row) = Longer(Len(screen.row), screen.col + Len(t))
        /\ \A i \in 1..Len(w.row) :
             w.row[i] = IF i \in (screen.col + 1)..(screen.col + Len(t))
                        THEN t[i - screen.col] ELSE screen.row[i]
    BY <1>2, <1>7, WrittenType
  <2> HIDE DEF w
  <2> QED
    BY <1>3, <2>1, <2>2
<1> HIDE DEF w
<1>11. /\ screen' \in Screens(Printed) /\ screen'.col = s2 + 1 /\ screen'.row = w.row
  <2>1. w = [col |-> s1 + 1, row |-> w.row] /\ w.row \in Seq(Printed) /\ s1 + 1 <= Len(w.row)
    BY <1>10 DEF Screens
  <2>2. screen' = [col |-> s2 + 1, row |-> w.row]
    BY <1>9, <2>1
  <2>3. s2 + 1 \in Nat /\ s2 + 1 <= Len(w.row)
    BY <1>2, <2>1
  <2> QED
    BY <2>1, <2>2, <2>3 DEF Screens
<1>12. CellsShown(line', s1 + 1, screen')
  <2>1. Len(screen.row) \in Nat /\ s1 <= Len(screen.row)
    BY <1>2, <1>3 DEF CellsShown, Screens
  <2>2. s1 + 1 <= Len(w.row)
    BY <1>2, <1>10, <2>1 DEF Longer
  <2>3. ASSUME NEW i \in 1..Len(w.row)
        PROVE  w.row[i] = IF i <= s1 + 1 THEN line'[i - 1] ELSE Blank
    <3>0. i \in Nat /\ i >= 1 /\ Len(w.row) \in Nat
      BY <1>10, <2>1, <1>2 DEF Longer
    <3>1. CASE i \in (s2 + 1)..(s1 + 1)
      <4>1. i - s2 \in 1..Len(t) /\ s2 + (i - s2) - 1 = i - 1 /\ i <= s1 + 1
        BY <1>2, <1>7, <3>0, <3>1
      <4> QED
        BY <1>7, <1>10, <3>1, <4>1
    <3>2. CASE i <= s2
      <4>1. i \in 1..Len(screen.row) /\ i <= s1 /\ i <= s1 + 1
        BY <1>2, <2>1, <3>0, <3>2
      <4>2. screen.row[i] = line[i - 1]
        BY <1>3, <4>1 DEF CellsShown
      <4>3. line'[i - 1] = line[i - 1]
        BY <1>1, <1>2, <1>5, <3>0, <3>2
      <4> QED
        BY <1>2, <1>10, <3>0, <3>2, <4>1, <4>2, <4>3
    <3>3. CASE i > s1 + 1
      <4>1. i \in 1..Len(screen.row) /\ ~(i <= s1)
        BY <1>2, <1>10, <2>1, <3>0, <3>3 DEF Longer
      <4>2. screen.row[i] = Blank
        BY <1>3, <4>1 DEF CellsShown
      <4> QED
        BY <1>2, <1>10, <3>0, <3>3, <4>2
    <3> QED
      BY <1>2, <3>0, <3>1, <3>2, <3>3
  <2> QED
    BY <1>11, <2>2, <2>3 DEF CellsShown
<1>13. Shows(screen', Segment(line', 0, s1'))
  BY <1>1, <1>2, <1>11, <1>12, ShowsCells
<1> QED
  BY <1>1, <1>2, <1>6, <1>11, <1>13 DEF MirrorInv, Mirror

LEMMA DeleteMirror ==
  ASSUME MirrorInv, LineInv', NEW k \in Keys \cup {"EOF"}, Delete(k)
  PROVE  MirrorInv'
<1>1. /\ pc = "loop" /\ pc' = "loop" /\ s2 > 0
      /\ s1' = s1 - 1 /\ s2' = s2 - 1
      /\ line' = [i \in Cells |-> IF i \in s2'..(s1' - 1) THEN line[i + 1] ELSE line[i]]
      /\ screen' = Display(screen, <<"BS">> \o Text(s2 - 1, s1 - 1)
                                     \o <<Blank, "BS">> \o SendBack(s1 - s2))
  BY DEF Delete
<1>2. /\ s1 \in Nat /\ s2 \in Nat /\ s2 <= s1 /\ s1 < LINE_SIZE
      /\ Editing /\ screen \in Screens(Printed)
  BY <1>1 DEF MirrorInv, LineInv, TypeOK, InBuffer, Cells, Editing
<1>3. CellsShown(line, s1, screen) /\ screen.col = s2
  BY <1>2, ShowsCells DEF MirrorInv, Mirror
<1>4. \A i \in 0..(s1 - 1) : line[i] \in Chars
  BY <1>2 DEF MirrorInv
<1>5. \A i \in 0..s1 : i \in Cells
  BY <1>1, <1>2 DEF Cells
<1>6. /\ \A i \in 0..(s1 - 2) : line'[i] \in Chars
      /\ \A i \in 0..(s2 - 2) : line'[i] = line[i]
  BY <1>1, <1>2, <1>4, <1>5
<1>7. /\ Len(screen.row) \in Nat /\ s1 <= Len(screen.row)
      /\ screen = [col |-> s2, row |-> screen.row] /\ screen.row \in Seq(Printed)
  BY <1>2, <1>3 DEF CellsShown, Screens
<1> DEFINE t == Text(s2 - 1, s1 - 1)
           a == [col |-> s2 - 1, row |-> screen.row]
           w == Written(a, t, Len(t))
           v == Written(w, <<Blank>>, 1)
<1>8. /\ t \in Seq(Printed) /\ Len(t) = s1 - s2
      /\ \A i \in 1..Len(t) : t[i] = line'[s2 + i - 2] /\ t[i] \in Chars
  <2>1. \A i \in 1..(s1 - s2) : line'[s2 - 1 + i - 1] \in Chars /\ s2 - 1 + i - 1 = s2 + i - 2
    BY <1>1, <1>2, <1>6
  <2>0. s1 - 1 - (s2 - 1) = s1 - s2 /\ s1 - s2 \in Nat
    BY <1>1, <1>2
  <2>2. t \in [1..(s1 - s2) -> Printed]
    BY <2>0, <2>1 DEF Text, Segment, Printed
  <2>3. t \in Seq(Printed) /\ Len(t) = s1 - s2
    BY <2>0, <2>2
  <2>4. \A i \in 1..(s1 - s2) : t[i] = line'[s2 + i - 2]
    BY <2>0, <2>1 DEF Text, Segment
  <2> HIDE DEF t
  <2> QED
    BY <2>1, <2>3, <2>4
<1>9. \A i \in 1..Len(t) : t[i] \notin Moves
  <2> HIDE DEF t
  <2> QED
    BY <1>8 DEF Moves, Controls
<1>10. a \in Screens(Printed) /\ Receive(screen, "BS") = a
  BY <1>1, <1>2, <1>7 DEF Screens, Receive
<1>11. /\ w \in Screens(Printed) /\ w.col = s1 - 1
       /\ Len(w.row) = Len(screen.row)
       /\ \A i \in 1..Len(screen.row) :
            w.row[i] = IF i \in s2..(s1 - 1) THEN t[i - (s2 - 1)] ELSE screen.row[i]
  <2> HIDE DEF t
  <2>1. a.col + Len(t) = s1 - 1 /\ a.col = s2 - 1 /\ a.row = screen.row
    BY <1>1, <1>2, <1>8
  <2>2. Longer(Len(screen.row), s1 - 1) = Len(screen.row)
    BY <1>2, <1>7 DEF Longer
  <2> HIDE DEF a
  <2>3. /\ w \in Screens(Printed) /\ w.col = a.col + Len(t)
        /\ Len(w.row) = Longer(Len(a.row), a.col + Len(t))
        /\ \A i \in 1..Len(w.row) :
             w.row[i] = IF i \in (a.col + 1)..(a.col + Len(t))
                        THEN t[i - a.col] ELSE a.row[i]
    BY <1>8, <1>10, WrittenType
  <2>4. s2 - 1 + 1 = s2
    BY <1>2
  <2> HIDE DEF w
  <2> QED
    BY <2>1, <2>2, <2>3, <2>4
<1>12. /\ v \in Screens(Printed) /\ v.col = s1
       /\ Len(v.row) = Len(screen.row)
       /\ \A i \in 1..Len(screen.row) :
            v.row[i] = IF i = s1 THEN Blank ELSE w.row[i]
  <2>1. <<Blank>> \in Seq(Printed) /\ Len(<<Blank>>) = 1 /\ <<Blank>>[1] = Blank
    BY DEF Printed
  <2>2. /\ s1 - 1 + 1 = s1 /\ Longer(Len(screen.row), s1) = Len(screen.row)
        /\ \A i \in s1..s1 : i = s1 /\ i - (s1 - 1) = 1
    BY <1>2, <1>7 DEF Longer
  <2> HIDE DEF w
  <2> DEFINE bl == <<Blank>>
  <2> HIDE DEF bl
  <2>3. /\ v \in Screens(Printed) /\ v.col = w.col + Len(bl)
        /\ Len(v.row) = Longer(Len(w.row), w.col + Len(bl))
        /\ \A i \in 1..Len(v.row) :
             v.row[i] = IF i \in (w.col + 1)..(w.col + Len(bl))
                        THEN bl[i - w.col] ELSE w.row[i]
    <3>1. v = Written(w, bl, Len(bl)) /\ bl \in Seq(Printed)
      BY <2>1 DEF bl
    <3> HIDE DEF v
    <3>2. w \in Screens(Printed)
      BY <1>11
    <3> QED
      BY <3>1, <3>2, WrittenType
  <2> HIDE DEF v
  <2>4. Len(bl) = 1 /\ bl[1] = Blank
    BY <2>1 DEF bl
  <2>5. /\ v.col = s1 /\ Len(v.row) = Len(screen.row)
        /\ \A i \in 1..Len(screen.row) :
             v.row[i] = IF i \in s1..s1 THEN bl[i - (s1 - 1)] ELSE w.row[i]
    BY <1>11, <2>2, <2>3, <2>4
  <2> QED
    BY <1>2, <2>2, <2>3, <2>4, <2>5
<1>13. screen' = [col |-> s2 - 1, row |-> v.row]
  <2> DEFINE Out == Printed \cup Moves
             back == SendBack(s1 - s2)
             first == <<"BS">>
             last == <<Blank, "BS">>
  <2>1. /\ first \in Seq(Out) /\ t \in Seq(Out) /\ last \in Seq(Out) /\ back \in Seq(Out)
        /\ last = <<Blank>> \o <<"BS">> /\ <<Blank>> \in Seq(Out) /\ <<"BS">> \in Seq(Out)
    <3>1. t \in Seq(Out)
      <4> HIDE DEF t
      <4> QED
        BY <1>8
    <3>2. s1 - s2 \in Nat
      BY <1>2
    <3>3. back \in Seq(Out)
      BY <3>2 DEF SendBack, Moves
    <3> QED
      BY <3>1, <3>3 DEF Moves, Printed
  <2>2. Display(screen, first) = a
    BY <1>10, DisplayOne
  <2>3. Display(a, t) = w
    <3> HIDE DEF t, a
    <3> QED
      BY <1>8, <1>9, <1>10, DisplayText
  <2>4. Display(w, <<Blank>>) = v
    <3>1. /\ <<Blank>> \in Seq(Printed) /\ Len(<<Blank>>) = 1
          /\ \A i \in 1..1 : <<Blank>>[i] \notin Moves
      BY DEF Printed, Moves, Blank
    <3> HIDE DEF w
    <3>2. Display(w, <<Blank>>) = Written(w, <<Blank>>, Len(<<Blank>>))
      BY <1>11, <3>1, DisplayText
    <3> QED
      BY <3>1, <3>2
  <2> DEFINE u == [col |-> s1 - 1, row |-> v.row]
  <2>5. Display(v, <<"BS">>) = u /\ u \in Screens(Printed)
    <3> HIDE DEF v
    <3>1. v = [col |-> s1, row |-> v.row] /\ v.row \in Seq(Printed) /\ s1 <= Len(v.row)
      BY <1>12 DEF Screens
    <3>2. Receive(v, "BS") = u
      BY <1>1, <1>2, <3>1 DEF Receive
    <3>3. u \in Screens(Printed)
      BY <1>1, <1>2, <3>1 DEF Screens
    <3> QED
      BY <3>2, <3>3, DisplayOne
  <2>6. Display(u, back) = [col |-> s2 - 1, row |-> v.row]
    <3> HIDE DEF v
    <3>1. s1 - s2 \in 0..u.col /\ u.col - (s1 - s2) = s2 - 1
      BY <1>1, <1>2
    <3>2. Display(u, back) = [u EXCEPT !.col = u.col - (s1 - s2)]
      BY <2>5, <3>1, DisplayBack
    <3> QED
      BY <3>1, <3>2
  <2>7. screen' = Display(screen, ((first \o t) \o last) \o back)
    BY <1>1
  <2> DEFINE p == first \o t
             q == p \o last
             blank == <<Blank>>
             bs == <<"BS">>
  <2>8. /\ p \in Seq(Out) /\ q \in Seq(Out) /\ blank \in Seq(Out) /\ bs \in Seq(Out)
        /\ p = first \o t /\ q = p \o last /\ last = blank \o bs
        /\ screen' = Display(screen, q \o back)
    <3> HIDE DEF a, t, w, v, u, first, last, back, Out
    <3> QED
      BY <2>1, <2>7
  <2>9. Display(w, blank) = v /\ Display(v, bs) = u
    <3> HIDE DEF a, t, w, v, u
    <3> QED
      BY <2>4, <2>5
  <2> HIDE DEF a, t, w, v, u, first, last, back, Out, p, q, blank, bs
  <2>10. \A scr : \A x, y \in Seq(Out) : Display(scr, x \o y) = Display(Display(scr, x), y)
    BY DisplayBoth
  <2>11. Display(screen, p) = w
    BY <2>1, <2>2, <2>3, <2>8, <2>10
  <2>12. Display(w, last) = u
    BY <2>8, <2>9, <2>10
  <2>13. Display(screen, q) = u
    <3>1. p \in Seq(Out) /\ last \in Seq(Out)
      BY <2>1, <2>8
    <3>2. Display(screen, p \o last) = Display(Display(screen, p), last)
      BY <2>10, <3>1
    <3> QED
      BY <2>8, <2>11, <2>12, <3>2
  <2>14. Display(screen, q \o back) = Display(u, back)
    <3>1. q \in Seq(Out) /\ back \in Seq(Out)
      BY <2>1, <2>8
    <3>2. Display(screen, q \o back) = Display(Display(screen, q), back)
      BY <2>10, <3>1
    <3> QED
      BY <2>13, <3>2
  <2> QED
    BY <2>6, <2>8, <2>14
<1> HIDE DEF a, t, w, v
<1>14. /\ screen' \in Screens(Printed) /\ screen'.col = s2 - 1 /\ screen'.row = v.row
  <2>1. v.row \in Seq(Printed) /\ s2 - 1 \in Nat /\ s2 - 1 <= Len(v.row)
    BY <1>1, <1>2, <1>7, <1>12 DEF Screens
  <2> QED
    BY <1>13, <2>1 DEF Screens
<1>15. CellsShown(line', s1 - 1, screen')
  <2>1. ASSUME NEW i \in 1..Len(screen.row)
        PROVE  v.row[i] = IF i <= s1 - 1 THEN line'[i - 1] ELSE Blank
    <3>0. i \in Nat /\ i >= 1
      BY <1>7
    <3>1. CASE i \in s2..(s1 - 1)
      <4>1. i - (s2 - 1) \in 1..Len(t) /\ s2 + (i - (s2 - 1)) - 2 = i - 1
            /\ i <= s1 - 1 /\ i # s1
        BY <1>1, <1>2, <1>8, <3>0, <3>1
      <4> QED
        BY <1>8, <1>11, <1>12, <3>1, <4>1
    <3>2. CASE i < s2
      <4>1. i <= s1 /\ i <= s1 - 1 /\ i # s1 /\ i \notin s2..(s1 - 1)
            /\ i - 1 \in 0..(s2 - 2)
        BY <1>2, <3>0, <3>2
      <4>2. screen.row[i] = line[i - 1]
        BY <1>3, <4>1 DEF CellsShown
      <4> QED
        BY <1>6, <1>11, <1>12, <4>1, <4>2
    <3>3. CASE i = s1
      <4>1. ~(i <= s1 - 1)
        BY <1>2, <3>3
      <4> QED
        BY <1>12, <3>3, <4>1
    <3>4. CASE i > s1
      <4>1. ~(i <= s1) /\ ~(i <= s1 - 1) /\ i # s1 /\ i \notin s2..(s1 - 1)
        BY <1>2, <3>0, <3>4
      <4>2. screen.row[i] = Blank
        BY <1>3, <4>1 DEF CellsShown
      <4> QED
        BY <1>11, <1>12, <4>1, <4>2
    <3> QED
      BY <1>2, <3>0, <3>1, <3>2, <3>3, <3>4
  <2>2. s1 - 1 <= Len(v.row)
    BY <1>2, <1>7, <1>12
  <2> QED
    BY <1>12, <1>14, <2>1, <2>2 DEF CellsShown
<1>16. Shows(screen', Segment(line', 0, s1'))
  <2>1. s1' \in Nat
    BY <1>1, <1>2
  <2> QED
    BY <1>1, <1>14, <1>15, <2>1, ShowsCells
<1>17. \A i \in 0..(s1' - 1) : line'[i] \in Chars
  BY <1>1, <1>2, <1>6
<1> QED
  BY <1>1, <1>14, <1>16, <1>17 DEF MirrorInv, Mirror

(* The other keys leave the text as it is and move the cursor at most.     *)
LEMMA CursorMirror ==
  ASSUME MirrorInv, LineInv', NEW k \in Keys \cup {"EOF"},
         \/ LineTooLong(k) \/ NothingToDelete(k) \/ CarriageReturn(k) \/ Escape(k)
         \/ AfterESC(k) \/ Left(k) \/ Right(k) \/ OtherArrow(k)
  PROVE  MirrorInv'
<1>1. pc \in {"loop", "ESC", "CSI"} /\ pc' \in {"loop", "CR", "ESC", "CSI"}
  BY DEF LineTooLong, NothingToDelete, CarriageReturn, Escape,
         Look, AfterESC, Left, Right, Move, OtherArrow
<1>2. line' = line /\ s1' = s1
  BY DEF LineTooLong, NothingToDelete, CarriageReturn, Escape,
         Look, AfterESC, Left, Right, Move, OtherArrow, buffer, cursor
<1>3. /\ s1 \in Nat /\ s2 \in Nat /\ s2 <= s1
      /\ Editing /\ Editing' /\ screen \in Screens(Printed)
  BY <1>1 DEF MirrorInv, LineInv, TypeOK, InBuffer, Cells, Editing
<1>4. CellsShown(line, s1, screen) /\ screen.col = s2
  BY <1>3, ShowsCells DEF MirrorInv, Mirror
<1>5. /\ s1 <= Len(screen.row)
      /\ screen = [col |-> s2, row |-> screen.row] /\ screen.row \in Seq(Printed)
      /\ Len(screen.row) \in Nat
  BY <1>3, <1>4 DEF CellsShown, Screens
<1>6. screen' = [col |-> s2', row |-> screen.row] /\ s2' \in 0..s1
  <2>1. CASE Left(k)
    <3>1. CASE s2 > 0
      <4>1. s2' = s2 - 1 /\ screen' = Receive(screen, "go_left")
        BY <2>1, <3>1, DisplayOne DEF Left, Move
      <4> QED
        BY <1>3, <1>5, <3>1, <4>1 DEF Receive
    <3>2. CASE ~(s2 > 0)
      BY <1>3, <1>5, <2>1, <3>2 DEF Left, Move
    <3> QED
      BY <3>1, <3>2
  <2>2. CASE Right(k)
    <3>1. CASE s2 < s1
      <4>1. s2' = s2 + 1 /\ screen' = Receive(screen, "go_right")
        BY <2>2, <3>1, DisplayOne DEF Right, Move
      <4> QED
        BY <1>3, <1>5, <3>1, <4>1 DEF Receive
    <3>2. CASE ~(s2 < s1)
      BY <1>3, <1>5, <2>2, <3>2 DEF Right, Move
    <3> QED
      BY <3>1, <3>2
  <2>3. CASE ~Left(k) /\ ~Right(k)
    <3>1. s2' = s2 /\ screen' = screen
      BY <2>3 DEF LineTooLong, NothingToDelete, CarriageReturn, Escape,
                  Look, AfterESC, OtherArrow, cursor
    <3> QED
      BY <1>3, <1>5, <3>1
  <2> QED
    BY <2>1, <2>2, <2>3
<1>7. screen' \in Screens(Printed) /\ screen'.col = s2' /\ screen'.row = screen.row
  BY <1>3, <1>5, <1>6 DEF Screens
<1>8. Shows(screen', Segment(line', 0, s1'))
  <2>1. CellsShown(line, s1, screen')
    BY <1>4, <1>7 DEF CellsShown
  <2> QED
    BY <1>2, <1>3, <1>7, <2>1, ShowsCells
<1> QED
  BY <1>2, <1>3, <1>7, <1>8 DEF MirrorInv, Mirror

(* A new line starts on an empty screen, an ended one leaves it empty.     *)
LEMMA OtherMirror ==
  ASSUME MirrorInv, LineInv',
         \/ CallCharacter \/ CallString \/ CallImmediate \/ refill
         \/ PeekCharacter \/ GetCharacter \/ GetString
         \/ \E k \in Keys \cup {"EOF"} : AtEOF(k) \/ Enter(k) \/ AfterCR(k)
         \/ UNCHANGED vars
  PROVE  MirrorInv'
<1>1. EmptyScreen \in Screens(Printed)
  BY DEF EmptyScreen, Screens
<1>2. CASE refill
  <2>1. CASE begin < end
    <3>1. ~Editing' /\ screen' = screen
      BY <1>2, <2>1 DEF refill, Editing
    <3> QED
      BY <3>1 DEF MirrorInv, Mirror
  <2>2. CASE ~(begin < end)
    <3>1. screen' = EmptyScreen /\ s1' = 0 /\ s2' = 0
      BY <1>2, <2>2 DEF refill, Editing, MirrorInv, LineInv, TypeOK, InBuffer, Cells, cursor
    <3>2. CellsShown(line', 0, EmptyScreen)
      BY DEF CellsShown, EmptyScreen
    <3>3. Shows(screen', Segment(line', 0, s1'))
      BY <1>1, <3>1, <3>2, ShowsCells
    <3> QED
      BY <1>1, <3>1, <3>3 DEF MirrorInv, Mirror, EmptyScreen
  <2> QED
    BY <2>1, <2>2
<1>3. CASE \/ CallCharacter \/ CallString \/ CallImmediate
           \/ PeekCharacter \/ GetCharacter \/ GetString
  <2>1. ~Editing' /\ screen' = screen
    BY <1>3 DEF CallCharacter, CallString, CallImmediate, PeekCharacter,
                GetCharacter, GetString, Editing
  <2> QED
    BY <2>1 DEF MirrorInv, Mirror
<1>4. ASSUME NEW k \in Keys \cup {"EOF"}, AtEOF(k) \/ Enter(k) \/ AfterCR(k)
      PROVE  MirrorInv'
  <2>1. ~Editing'
    BY <1>4 DEF AtEOF, Enter, AfterCR, LineFeed, Return, Editing
  <2>2. screen' = screen \/ screen' = Receive(screen, "LF")
    BY <1>4, DisplayOne DEF AtEOF, Enter, AfterCR, LineFeed
  <2>3. Receive(screen, "LF") = EmptyScreen
    BY DEF Receive, EmptyScreen
  <2> QED
    BY <1>1, <2>1, <2>2, <2>3 DEF MirrorInv, Mirror
<1>5. CASE UNCHANGED vars
  BY <1>5 DEF MirrorInv, Mirror, Editing, vars, buffer, cursor
<1> QED
  BY <1>2, <1>3, <1>4, <1>5

(* While read_line waits for a key, the terminal shows the line that it    *)
(* has with the cursor at the right place, whatever the size of the buffer *)
(* and whatever is typed (the redrawing of io.s).                          *)
THEOREM ScreenMirrorsLine == Spec => []Mirror
<1>1. Init => MirrorInv
  <2> SUFFICES ASSUME Init PROVE MirrorInv
    OBVIOUS
  <2>1. ~Editing /\ screen \in Screens(Printed)
    BY DEF Init, Editing, EmptyScreen, Screens
  <2> QED
    BY <2>1, InitLine DEF MirrorInv, Mirror
<1>2. MirrorInv /\ [Next]_vars => MirrorInv'
  <2> SUFFICES ASSUME MirrorInv, [Next]_vars PROVE MirrorInv'
    OBVIOUS
  <2>1. LineInv'
    BY NextLine DEF MirrorInv
  <2>2. CASE read_line
    <3>1. PICK k \in Keys \cup {"EOF"} : OnByte(k)
      BY <2>2 DEF read_line
    <3> QED
      BY <2>1, <3>1, InsertMirror, DeleteMirror, CursorMirror, OtherMirror DEF OnByte
  <2>3. CASE ~read_line
    BY <2>1, <2>3, OtherMirror DEF Next
  <2> QED
    BY <2>2, <2>3
<1>3. MirrorInv => Mirror
  BY DEF MirrorInv
<1> QED
  BY <1>1, <1>2, <1>3, PTL DEF Spec
=============================================================================
