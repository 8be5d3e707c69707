------------------------------ MODULE Console -------------------------------
(***************************************************************************)
(* What the console of a CREATOR program promises: the user edits a line   *)
(* with a cursor in it, ends it, and the program reads it character by     *)
(* character.  No buffer, no escape sequences, no look-ahead.              *)
(***************************************************************************)
EXTENDS Naturals, Sequences

CONSTANTS
  Chars,     (* the characters a line can hold                             *)
  Capacity,  (* how many, the line feed not counted                        *)
  LF         (* the line feed                                              *)

VARIABLES
  left,      (* the text before the cursor                                 *)
  right,     (* the text from the cursor on                                *)
  reading,   (* is the user asked for a line?                              *)
  ready,     (* what is left of the last line                              *)
  ended,     (* did the input end with an empty line?                      *)
  peeks,     (* does the program look at a character, or take it?          *)
  a0         (* what the program got last                                  *)

vars == <<left, right, reading, ready, ended, peeks, a0>>

Init ==
  /\ left = << >> /\ right = << >> /\ ready = << >>
  /\ reading = FALSE /\ ended = FALSE /\ peeks = FALSE
  /\ a0 = "NUL"

(* The program goes on to something else.                                  *)
Choose ==
  /\ ~reading /\ ~ended
  /\ peeks' \in BOOLEAN
  /\ UNCHANGED <<left, right, reading, ready, ended, a0>>

(* The program begins to wait for a character; the user may have to type.  *)
Ask ==
  /\ ~reading /\ ~ended
  /\ reading' = (ready = << >>)
  /\ a0' = "NUL"
  /\ UNCHANGED <<left, right, ready, ended, peeks>>

Edit ==
  /\ reading
  /\ \/ /\ Len(left) + Len(right) < Capacity
        /\ \E c \in Chars : left' = Append(left, c)
        /\ right' = right
     \/ /\ left # << >>
        /\ left' = SubSeq(left, 1, Len(left) - 1)
        /\ right' \in {right, <<left[Len(left)]>> \o right}
     \/ /\ right # << >>
        /\ left' = Append(left, Head(right))
        /\ right' = Tail(right)
  /\ UNCHANGED <<reading, ready, ended, peeks, a0>>

(* The line is complete, or the input is at its end.                       *)
End ==
  /\ reading
  /\ reading' = FALSE /\ left' = << >> /\ right' = << >>
  /\ ready' \in {left \o right, (left \o right) \o <<LF>>}
  /\ ended' = (ready' = << >>)
  /\ UNCHANGED <<peeks, a0>>

(* A character looked at is still there, one taken is gone.                *)
Look ==
  /\ ready # << >>
  /\ a0' = Head(ready)
  /\ ready' = IF peeks THEN ready ELSE Tail(ready)
  /\ UNCHANGED <<left, right, reading, ended, peeks>>

(* At the end of the input the program may be told anything.               *)
LookPastEnd ==
  /\ ended
  /\ ended' = FALSE
  /\ UNCHANGED <<left, right, reading, ready, peeks>>

Next == Choose \/ Ask \/ Edit \/ End \/ Look \/ LookPastEnd

Spec == Init /\ [][Next]_vars
=============================================================================
