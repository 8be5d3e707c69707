------------------------------ MODULE Terminal ------------------------------
(***************************************************************************)
(* The terminal at the other end of the serial line, as far as io.s relies *)
(* on it: a row of characters and the cursor's column.  Columns are        *)
(* counted from where the line that is being read begins; rows are as long *)
(* as needed, so nothing wraps.                                            *)
(***************************************************************************)
EXTENDS Naturals, Sequences

Blank == " "

(* The control strings of io.s: \b, go_left_str, go_right_str, and \n      *)
(* (which put sends as \r\n).                                              *)
Receive(screen, c) ==
  CASE c \in {"BS", "go_left"} -> [screen EXCEPT !.col = IF @ = 0 THEN 0 ELSE @ - 1]
    [] c = "go_right"          -> [screen EXCEPT !.col = @ + 1]
    [] c = "LF"                -> [col |-> 0, row |-> << >>]
    [] OTHER ->
         [col |-> screen.col + 1,
          row |-> [i \in 1..(IF screen.col < Len(screen.row) THEN Len(screen.row) ELSE screen.col + 1)
                     |-> IF i = screen.col + 1 THEN c
                         ELSE IF i <= Len(screen.row) THEN screen.row[i] ELSE Blank]]

(* What the screen is after all of out.                                    *)
Display(screen, out) ==
  LET shown[n \in 0..Len(out)] ==
        IF n = 0 THEN screen ELSE Receive(shown[n - 1], out[n])
  IN  shown[Len(out)]

EmptyScreen == [col |-> 0, row |-> << >>]

(* What can be read on the screen: the row without the blanks at its end.  *)
Shows(screen, text) ==
  /\ Len(text) <= Len(screen.row)
  /\ \A i \in 1..Len(screen.row) :
       screen.row[i] = IF i <= Len(text) THEN text[i] ELSE Blank
=============================================================================
