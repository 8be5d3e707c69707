----------------------------- MODULE KeyStream ------------------------------
(***************************************************************************)
(* What the keys say.  Beside the line editor runs a reading of the stream *)
(* of bytes that read(0, &next, 1) has delivered so far: each byte changes *)
(* it once, the moment it is delivered, whether the editor understands it  *)
(* at once, has to look at the next one first, or keeps it for later.      *)
(***************************************************************************)
EXTENDS LineEditor

VARIABLE typed     (* the line that the bytes so far spell, and the mode   *)

streamVars == <<vars, typed>>

NoLine == [left |-> << >>, right |-> << >>, mode |-> "plain"]

FrontOf(s) == SubSeq(s, 1, Len(s) - 1)

(* A byte that begins nothing and ends nothing.                            *)
Plain(t, k) ==
  CASE k \in Chars ->
         IF Len(t.left) + Len(t.right) < LINE_SIZE - 1
         THEN [t EXCEPT !.left = Append(@, k)] ELSE t
    [] k = "BS" -> IF t.left = << >> THEN t ELSE [t EXCEPT !.left = FrontOf(@)]
    [] k \in {"LF", "EOF"} -> NoLine
    [] k = "CR" -> [t EXCEPT !.mode = "CR"]
    [] k = "ESC" -> [t EXCEPT !.mode = "ESC"]

(* The arrows.                                                             *)
GoRight(t) ==
  IF t.right = << >> THEN t
  ELSE [t EXCEPT !.left = Append(@, Head(t.right)), !.right = Tail(@)]

GoLeft(t) ==
  IF t.left = << >> THEN t
  ELSE [t EXCEPT !.left = FrontOf(@), !.right = <<t.left[Len(t.left)]>> \o @]

(* The next byte.  \r ends a line, with the \n behind it if there is one.  *)
Take(t, k) ==
  LET out == [t EXCEPT !.mode = "plain"]
  IN CASE t.mode = "CR" -> IF k = "LF" THEN NoLine ELSE Plain(NoLine, k)
       [] t.mode = "ESC" -> IF k = "[" THEN [t EXCEPT !.mode = "CSI"] ELSE Plain(out, k)
       [] t.mode = "CSI" -> CASE k = "C" -> GoRight(out)
                              [] k = "D" -> GoLeft(out)
                              [] k \in {"A", "B"} -> out
                              [] OTHER -> Plain(out, k)
       [] OTHER -> Plain(t, k)

StreamInit == Init /\ typed = NoLine

(* A byte kept for later is not delivered again.  One that get_immediate   *)
(* takes past the line is none of the line's, and there was no other.      *)
StreamNext ==
  \/ /\ \/ CallCharacter \/ CallString \/ refill
        \/ PeekCharacter \/ GetCharacter \/ GetString
     /\ typed' = typed
  \/ CallImmediate /\ typed' = NoLine
  \/ \E k \in Keys \cup {"EOF"} :
       /\ OnByte(k)
       /\ typed' = IF full THEN typed ELSE Take(typed, k)

StreamSpec == StreamInit /\ [][StreamNext]_streamVars

-----------------------------------------------------------------------------
(* The line as the editor has it.                                          *)
Edited == [left  |-> Segment(line, 0, s2),
           right |-> Segment(line, s2, s1),
           mode  |-> IF pc \in {"CR", "ESC", "CSI"} THEN pc ELSE "plain"]

(* The text on both sides of the cursor is what the bytes delivered so far *)
(* spell, but for the byte that is kept for later: through the look-ahead  *)
(* behind \r, ESC and ESC [ (peek, next and full in io.s), over the end of *)
(* a line and the calls between two lines no byte is lost, read twice or   *)
(* taken for another.  At the end of the input peek finds the byte before  *)
(* again, and it counts as typed again.                                    *)
EditedAsTyped == typed = IF full THEN Take(Edited, next) ELSE Edited
=============================================================================
