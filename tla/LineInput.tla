----------------------------- MODULE LineInput -----------------------------
(***************************************************************************)
(* What the read ecalls promise: a read takes the bytes that have been     *)
(* typed one by one, in their order, keeps each that belongs to its answer *)
(* and has room, and answers at the end of the line, and not before, with  *)
(* the number or the text that the kept bytes spell; reading a character   *)
(* takes bytes up to the first that is not zero.                           *)
(***************************************************************************)
EXTENDS Integers, Sequences

CONSTANTS Bytes, Digits, WORD

VARIABLES
  unread,               \* the bytes that have been typed and not taken
  reading, room,        \* what is being read, and how many bytes it may have
  text,                 \* the bytes kept of it
  number, string        \* the answers

vars == <<unread, reading, room, text, number, string>>

Ends == {10, 13} \cap Bytes

\* The number that decimal digits spell, in a machine word.
Spelt(t) ==
  LET n == Len(t)
      place[k \in 0 .. n] == IF k = 0 THEN 1 ELSE 10 * place[k - 1]
      sum[i \in 0 .. n] == IF i = 0 THEN 0 ELSE sum[i - 1] + (t[i] - 48) * place[n - i]
      v == sum[n] % WORD
  IN IF v >= WORD - WORD \div 2 THEN v - WORD ELSE v

Init ==
  /\ unread = <<>>
  /\ reading = "nothing" /\ room = 0 /\ text = <<>> /\ number = 0 /\ string = <<>>

Type(c) ==
  /\ unread' = Append(unread, c)
  /\ UNCHANGED <<reading, room, text, number, string>>

\* While nobody reads, what has been typed may be taken elsewhere.
Forget ==
  /\ reading = "nothing"
  /\ unread' = <<>>
  /\ UNCHANGED <<reading, room, text, number, string>>

\* Room for so many bytes; asking for a string gives up the last one.
Ask(kind) ==
  /\ reading = "nothing"
  /\ reading' = kind /\ room' \in Nat
  /\ string' = IF kind = "string" THEN <<>> ELSE string
  /\ UNCHANGED <<unread, text, number>>

\* sbrk answers in the same register.
Other ==
  /\ reading = "nothing" /\ number' \in Int
  /\ UNCHANGED <<unread, reading, room, text, string>>

\* The next byte is c, and it is taken.
Take(c) == unread # <<>> /\ c = Head(unread) /\ unread' = Tail(unread)

Acceptable(c) ==
  /\ reading = "string" \/ (reading = "int" /\ c \in Digits)
  /\ c \notin {0} \cup Ends
  /\ Len(text) < room

Accept(c) ==
  /\ Take(c) /\ Acceptable(c)
  /\ text' = Append(text, c)
  /\ UNCHANGED <<reading, room, number, string>>

\* A byte is dropped only if it has no place in the answer.
Skip(c) ==
  /\ reading # "nothing"
  /\ Take(c) /\ ~Acceptable(c)
  /\ IF reading = "char" THEN c = 0 ELSE c \notin Ends
  /\ UNCHANGED <<reading, room, text, number, string>>

Answer(c) ==
  /\ reading \in {"int", "string"}
  /\ Take(c) /\ c \in Ends
  /\ reading' = "nothing" /\ room' = 0 /\ text' = <<>>
  /\ number' = IF reading = "int" THEN Spelt(text) ELSE number
  /\ string' = IF reading = "string" THEN text ELSE string

Character(c) ==
  /\ reading = "char"
  /\ Take(c) /\ c # 0
  /\ reading' = "nothing" /\ room' = 0 /\ number' = c
  /\ UNCHANGED <<text, string>>

Next ==
  \/ Forget \/ Other
  \/ \E kind \in {"int", "char", "string"} : Ask(kind)
  \/ \E c \in Bytes : \/ Type(c) \/ Accept(c) \/ Skip(c) \/ Answer(c) \/ Character(c)

Spec == Init /\ [][Next]_vars
=============================================================================
