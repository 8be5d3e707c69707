----------------------------- MODULE ByteStream -----------------------------
(***************************************************************************)
(* What the serial functions of CREATino promise: bytes arrive in order and *)
(* stay in order until a call takes them; a call takes what it needs and    *)
(* not one byte more, gives up early only when nothing is left to read, and *)
(* answers what the bytes it took say.                                      *)
(***************************************************************************)
EXTENDS Integers, Sequences

CONSTANTS Bytes, INT_CHARS, FIND_BUFFER

VARIABLES
  pending,  \* bytes that arrived and that nobody took
  call,     \* what the program called, with its arguments
  taken,    \* bytes that belong to the answer of the call
  result    \* answer of the last call, as a sequence

vars == <<pending, call, taken, result>>

Idle == [op |-> "none"]
Digit == 48 .. 57
Minus == 45
EndOfLine == {10, 13}
Whitespace == {9, 10, 13, 32}

Ends(t, s) == Len(t) <= Len(s) /\ \A k \in 1 .. Len(t) : t[k] = s[Len(s) - Len(t) + k]
Occurs(t, s) == \E n \in 0 .. Len(s) : Ends(t, SubSeq(s, 1, n))
UpTo(c, s) == \* the bytes before the first c
  SubSeq(s, 1, CHOOSE n \in 0 .. Len(s) : /\ n < Len(s) => s[n + 1] = c
                                         /\ \A k \in 1 .. n : s[k] # c)
LastIn(s, S) == s # <<>> /\ s[Len(s)] \in S

Truth(b) == IF b THEN <<1>> ELSE <<0>>

\* The number that the digits D in t spell, whatever stands between them: each
\* counts ten times as much as the next.
Spelt(t, D) ==
  LET n == Len(t)
      place[k \in 0 .. n] == \* of a digit with k bytes behind it
        IF k = 0 THEN 1 ELSE IF t[n - k + 1] \in D THEN 10 * place[k - 1] ELSE place[k - 1]
      sum[i \in 0 .. n] ==
        IF i = 0 THEN 0 ELSE IF t[i] \in D THEN sum[i - 1] + (t[i] - 48) * place[n - i] ELSE sum[i - 1]
  IN sum[n]

\* What a line means to atoi: a sign, and digits up to the first other byte.
Signed(s) ==
  LET start == IF s # <<>> /\ s[1] = Minus THEN 1 ELSE 0
      end == CHOOSE n \in start .. Len(s) :
               /\ \A k \in start + 1 .. n : s[k] \in Digit
               /\ n < Len(s) => s[n + 1] \notin Digit
      digits == Spelt(SubSeq(s, start + 1, end), Digit)
  IN IF start = 1 THEN -digits ELSE digits

\* The call needs no more bytes than t.
Complete(t) ==
  CASE call.op \in {"read", "peek", "ecall_char"} -> Len(t) = 1
    [] call.op = "bytes" -> Len(t) = call.length
    [] call.op = "until" -> Len(t) = call.length \/ LastIn(t, {call.end})
    [] call.op = "findUntil" -> Len(t) = FIND_BUFFER - 1 \/ LastIn(t, {call.end})
    [] call.op = "find" -> Ends(call.target, t)
    [] call.op = "ecall_int" -> Len(t) = INT_CHARS \/ LastIn(t, EndOfLine)
    [] call.op = "ecall_string" -> Len(t) = call.size + 1 \/ LastIn(t, EndOfLine)
    [] OTHER -> FALSE

\* c belongs to the answer.
Part(c) ==
  CASE call.op = "parse" /\ taken = <<>> -> c \in Digit \cup {Minus}
    [] call.op = "parse" /\ taken # <<>> -> c \in Digit \cup {call.ignore}
    [] call.op = "ecall_int" -> c \in Digit \cup {Minus} \cup EndOfLine
    [] call.op \in {"ecall_string", "ecall_char"} -> c # 0
    [] OTHER -> call # Idle /\ call.op # "peek"

\* c is read over.
Skipped(c) ==
  CASE call.op = "parse" ->
         taken = <<>> /\ (call.lookahead = "SKIP_ALL" \/ (call.lookahead = "SKIP_WHITESPACE" /\ c \in Whitespace))
    [] call.op \in {"ecall_int", "ecall_string", "ecall_char"} -> TRUE
    [] OTHER -> FALSE

MayGiveUp == pending = <<>> /\ call.op \notin {"ecall_int", "ecall_string", "ecall_char"}
\* The next byte stays where it is.
Refused == pending # <<>> /\ ~Part(Head(pending)) /\ ~Skipped(Head(pending))

\* What the bytes t say.
Answer(t) ==
  CASE call.op \in {"read", "ecall_char"} -> IF t = <<>> THEN <<-1>> ELSE t
    [] call.op = "peek" -> IF pending = <<>> THEN <<-1>> ELSE <<Head(pending)>>
    [] call.op = "bytes" -> t
    [] call.op = "until" -> UpTo(call.end, t)
    [] call.op = "findUntil" -> Truth(Occurs(call.target, UpTo(0, UpTo(call.end, t))))
    [] call.op = "find" -> Truth(Occurs(call.target, t))
    [] call.op = "parse" ->
         LET counted == (Digit \cup {Minus}) \ {call.ignore}
             digits == Spelt(t, counted \ {Minus})
         IN IF \E k \in 1 .. Len(t) : t[k] = Minus /\ Minus \in counted THEN <<-digits>> ELSE <<digits>>
    [] call.op = "ecall_int" -> IF LastIn(t, EndOfLine) THEN <<Signed(t)>> ELSE <<-1>>
    [] call.op = "ecall_string" -> t

Init == pending = <<>> /\ call = Idle /\ taken = <<>> /\ result = <<>>

Arrive(c) == pending' = Append(pending, c) /\ UNCHANGED <<call, taken, result>>

Call ==
  /\ call = Idle /\ call' # Idle /\ result' = <<>>
  /\ UNCHANGED <<pending, taken>>

More == call # Idle /\ ~Complete(taken) /\ pending # <<>>
Answers(t) == result' = Answer(t) /\ call' = Idle /\ taken' = <<>>

Take ==
  /\ More /\ Part(Head(pending)) /\ pending' = Tail(pending)
  /\ LET t == Append(taken, Head(pending))
     IN \/ taken' = t /\ UNCHANGED <<call, result>>
        \/ Complete(t) /\ Answers(t)

Skip ==
  /\ More /\ ~Part(Head(pending)) /\ Skipped(Head(pending))
  /\ pending' = Tail(pending)
  /\ UNCHANGED <<call, taken, result>>

Return ==
  /\ call # Idle /\ (Complete(taken) \/ MayGiveUp \/ Refused)
  /\ Answers(taken) /\ UNCHANGED pending

\* Ending the connection drops what nobody took.
Drop == call = Idle /\ pending' = <<>> /\ UNCHANGED <<call, taken, result>>

Next == (\E c \in Bytes : Arrive(c)) \/ Call \/ Take \/ Skip \/ Return \/ Drop

Spec == Init /\ [][Next]_vars
=============================================================================
