---------------------------- MODULE SerialProofs ----------------------------
(***************************************************************************)
(* Proofs about Serial: the buffers are never filled beyond their length,  *)
(* and find always knows the longest beginning of its target that the      *)
(* bytes it read end with, for targets of any length and with any          *)
(* repetitions in them.                                                    *)
(***************************************************************************)
EXTENDS Serial, Recursion, SequenceTheorems, TLAPS

(* ---- findMulti ---- *)

\* A non-empty set of naturals below a bound has a greatest member.
LEMMA Greatest ==
  ASSUME NEW n \in Nat, NEW S \in SUBSET (0 .. n), S # {}
  PROVE  \E m \in S : \A i \in S : i <= m
<1> DEFINE T == {n - i : i \in S}
<1>1. T \subseteq Nat /\ T # {}
  <2>1. \A i \in S : n - i \in Nat
    OBVIOUS
  <2>2. PICK i \in S : TRUE
    OBVIOUS
  <2> QED
    BY <2>1, <2>2
<1>2. PICK x \in T : \A y \in T : x <= y
  <2> HIDE DEF T
  <2> QED
    BY <1>1, Smallest
<1>3. PICK m \in S : x = n - m
  OBVIOUS
<1>4. \A i \in S : n - i \in T
  OBVIOUS
<1>5. \A i \in S : n - m <= n - i
  BY <1>2, <1>3, <1>4
<1> QED
  BY <1>5

\* A match is one byte longer if the byte is the right one, and only then.
LEMMA Prolong ==
  ASSUME NEW t \in Seq(Bytes), NEW s \in Seq(Bytes), NEW c \in Bytes, NEW j \in Nat
  PROVE  Matches(j + 1, t, Append(s, c)) <=> Matches(j, t, s) /\ t[j + 1] = c
<1> DEFINE u == Append(s, c)
<1>1. /\ u \in Seq(Bytes) /\ Len(u) = Len(s) + 1 /\ Len(s) \in Nat
      /\ u[Len(s) + 1] = c /\ \A m \in 1 .. Len(s) : u[m] = s[m]
  OBVIOUS
<1> HIDE DEF u
<1>2. Matches(j + 1, t, u) <=>
        j + 1 <= Len(s) + 1 /\ \A k \in 1 .. j + 1 : t[k] = u[Len(s) + 1 - (j + 1) + k]
  BY <1>1 DEF Matches
<1>3. CASE j <= Len(s)
  <2>1. \A k \in 1 .. j : Len(s) + 1 - (j + 1) + k \in 1 .. Len(s)
    BY <1>1, <1>3
  <2>2. \A k \in 1 .. j : u[Len(s) + 1 - (j + 1) + k] = s[Len(s) - j + k]
    <3> TAKE k \in 1 .. j
    <3>1. Len(s) + 1 - (j + 1) + k = Len(s) - j + k
      BY <1>1
    <3> QED
      BY <1>1, <2>1, <3>1
  <2>3. u[Len(s) + 1 - (j + 1) + (j + 1)] = c
    BY <1>1
  <2>4. (\A k \in 1 .. j + 1 : t[k] = u[Len(s) + 1 - (j + 1) + k]) <=>
          (\A k \in 1 .. j : t[k] = u[Len(s) + 1 - (j + 1) + k]) /\ t[j + 1] = c
    BY <2>3
  <2>5. (\A k \in 1 .. j : t[k] = u[Len(s) + 1 - (j + 1) + k])
          <=> (\A k \in 1 .. j : t[k] = s[Len(s) - j + k])
    BY <2>2
  <2>6. j + 1 <= Len(s) + 1
    BY <1>1, <1>3
  <2> QED
    BY <1>2, <1>3, <2>4, <2>5, <2>6 DEF Matches, u
<1>4. CASE ~(j <= Len(s))
  <2>1. ~(j + 1 <= Len(s) + 1)
    BY <1>1, <1>4
  <2> QED
    BY <1>2, <1>4, <2>1 DEF Matches, u
<1> QED
  BY <1>3, <1>4

\* Inside a match, the shorter matches are the beginnings of the target that it
\* repeats at the end of the match: findMulti need not look at the input again.
LEMMA Border ==
  ASSUME NEW t \in Seq(Bytes), NEW s \in Seq(Bytes),
         NEW i \in Nat, NEW j \in 0 .. i, Matches(i, t, s)
  PROVE  Matches(j, t, s) <=> \A k \in 1 .. j : t[k] = t[k + i - j]
<1>1. Len(s) \in Nat /\ i <= Len(s) /\ \A k \in 1 .. i : t[k] = s[Len(s) - i + k]
  BY DEF Matches
<1>2. \A k \in 1 .. j : k + i - j \in 1 .. i /\ Len(s) - i + (k + i - j) = Len(s) - j + k
  BY <1>1
<1>3. \A k \in 1 .. j : t[k + i - j] = s[Len(s) - j + k]
  <2> TAKE k \in 1 .. j
  <2>1. k + i - j \in 1 .. i
    BY <1>2
  <2>2. t[k + i - j] = s[Len(s) - i + (k + i - j)]
    BY <1>1, <2>1
  <2> QED
    BY <1>2, <2>2
<1>4. j <= Len(s)
  BY <1>1
<1> QED
  BY <1>3, <1>4 DEF Matches

\* One byte of findMulti: from the longest match to the longest match.
LEMMA AdvanceLongest ==
  ASSUME NEW t \in Seq(Bytes), NEW s \in Seq(Bytes), NEW c \in Bytes,
         NEW i \in 0 .. Len(t) - 1,
         Matches(i, t, s), \A j \in i + 1 .. Len(t) : ~Matches(j, t, s)
  PROVE  /\ Advance(t, i, c) \in 0 .. Len(t)
         /\ Matches(Advance(t, i, c), t, Append(s, c))
         /\ \A j \in Advance(t, i, c) + 1 .. Len(t) : ~Matches(j, t, Append(s, c))
<1> DEFINE u == Append(s, c)
<1>1. Len(t) \in Nat /\ i \in Nat /\ u \in Seq(Bytes) /\ Len(u) \in Nat
  OBVIOUS
<1>2. ASSUME NEW j \in 1 .. Len(t), Matches(j, t, u)
      PROVE  j - 1 \in 0 .. i /\ Matches(j - 1, t, s) /\ t[j] = c
  <2>1. j - 1 \in Nat /\ (j - 1) + 1 = j
    BY <1>1
  <2> DEFINE p == j - 1
  <2>2. Matches(p, t, s) /\ t[j] = c
    <3>1. p \in Nat /\ p + 1 = j
      BY <2>1
    <3> HIDE DEF p
    <3>2. Matches(p + 1, t, u)
      BY <1>2, <3>1
    <3> QED
      BY <3>1, <3>2, Prolong
  <2>3. j - 1 \notin i + 1 .. Len(t)
    BY <2>2
  <2> QED
    BY <1>1, <2>1, <2>2, <2>3
<1> HIDE DEF u
<1>3. CASE c = t[i + 1]
  <2>1. Advance(t, i, c) = i + 1
    BY <1>3 DEF Advance
  <2>2. Matches(i + 1, t, u)
    BY <1>1, <1>3, Prolong DEF u
  <2>3. ASSUME NEW j \in i + 2 .. Len(t), Matches(j, t, u)
        PROVE  FALSE
    <3>1. j \in 1 .. Len(t)
      BY <1>1
    <3> QED
      BY <1>1, <1>2, <2>3, <3>1
  <2>4. (i + 1) + 1 = i + 2 /\ i + 1 \in 0 .. Len(t)
    BY <1>1
  <2> QED
    BY <2>1, <2>2, <2>3, <2>4 DEF u
<1>4. CASE c # t[i + 1]
  <2> DEFINE fits == {j \in 0 .. i - 1 :
                        c = t[j + 1] /\ \A k \in 1 .. j : t[k] = t[k + i - j]}
  <2>1. ASSUME NEW j \in 1 .. Len(t), Matches(j, t, u)
        PROVE  j - 1 \in fits
    <3>1. j - 1 \in 0 .. i /\ Matches(j - 1, t, s) /\ t[j] = c
      BY <1>2, <2>1
    <3>2. (j - 1) + 1 = j
      BY <1>1
    <3>3. j - 1 # i
      BY <1>4, <3>1, <3>2
    <3>4. j - 1 \in 0 .. i - 1
      BY <1>1, <3>1, <3>3
    <3>5. \A k \in 1 .. j - 1 : t[k] = t[k + i - (j - 1)]
      BY <1>1, <3>1, Border
    <3> QED
      BY <3>1, <3>2, <3>4, <3>5
  <2>2. CASE fits = {}
    <3>1. Advance(t, i, c) = 0
      BY <1>4, <2>2 DEF Advance, WalkBack
    <3>2. Matches(0, t, u)
      BY <1>1 DEF Matches
    <3>3. \A j \in 1 .. Len(t) : ~Matches(j, t, u)
      BY <2>1, <2>2
    <3>4. 0 \in 0 .. Len(t)
      BY <1>1
    <3> QED
      BY <3>1, <3>2, <3>3, <3>4 DEF u
  <2>3. CASE fits # {}
    <3> DEFINE m == CHOOSE j \in fits : \A k \in fits : k <= j
    <3>1. fits \subseteq 0 .. i
      BY <1>1
    <3>2. \E j \in fits : \A k \in fits : k <= j
      <4> HIDE DEF fits
      <4> QED
        BY <1>1, <2>3, <3>1, Greatest
    <3>3. m \in fits /\ \A k \in fits : k <= m
      <4> HIDE DEF fits
      <4> QED
        BY <3>2
    <3>4. Advance(t, i, c) = m + 1
      BY <1>4, <2>3 DEF Advance, WalkBack
    <3> HIDE DEF m
    <3>5. m \in 0 .. i - 1 /\ c = t[m + 1] /\ \A k \in 1 .. m : t[k] = t[k + i - m]
      BY <3>3
    <3>6. m \in 0 .. i /\ m \in Nat
      BY <1>1, <3>5
    <3>7. Matches(m, t, s)
      BY <1>1, <3>5, <3>6, Border
    <3>8. Matches(m + 1, t, u)
      BY <3>5, <3>6, <3>7, Prolong DEF u
    <3>9. ASSUME NEW j \in m + 2 .. Len(t), Matches(j, t, u)
          PROVE  FALSE
      <4>1. j \in 1 .. Len(t)
        BY <1>1, <3>6
      <4>2. j - 1 \in fits
        BY <2>1, <3>9, <4>1
      <4>3. j - 1 <= m
        BY <3>3, <4>2
      <4> QED
        BY <3>6, <4>1, <4>3
    <3>10. (m + 1) + 1 = m + 2 /\ m + 1 \in 0 .. Len(t)
      BY <1>1, <3>5
    <3> QED
      BY <3>4, <3>8, <3>9, <3>10 DEF u
  <2> QED
    BY <2>2, <2>3
<1> QED
  BY <1>3, <1>4

(* ---- the invariant ---- *)

Ring ==
  /\ installed \in BOOLEAN
  /\ rx \in Seq(Bytes) /\ peeked \in Seq(Bytes) /\ Len(peeked) <= 1

CallState ==
  /\ taken \in Seq(Bytes) /\ call \in Calls
  /\ call.op = "none" => taken = <<>>
  /\ Stores => Len(call.buffer) <= call.length
  /\ call.op = "ecall_int" => Len(call.buffer) <= INT_CHARS
  /\ FindsLongest

SerialInv == Ring /\ CallState

\* The record of a call of each kind.
LEMMA CallShapes ==
  ASSUME call \in Calls
  PROVE  /\ call.op = "bytes" => call \in [op : {"bytes"}, length : Lengths, buffer : Seq(Bytes)]
         /\ call.op = "until" =>
              call \in [op : {"until"}, end : Terminators, length : Lengths, buffer : Seq(Bytes)]
         /\ call.op = "findUntil" =>
              call \in [op : {"findUntil"}, target : Targets, end : Terminators,
                        length : {FIND_BUFFER - 1}, buffer : Seq(Bytes)]
         /\ call.op = "find" => call \in [op : {"find"}, target : Targets, index : Nat]
         /\ call.op = "parse" =>
              call \in [op : {"parse"}, lookahead : Lookahead, ignore : Ignores,
                        started : BOOLEAN, isNegative : BOOLEAN, value : Nat]
         /\ call.op = "ecall_int" => call \in [op : {"ecall_int"}, buffer : Seq(Bytes)]
         /\ call.op = "ecall_string" =>
              call \in [op : {"ecall_string"}, size : Lengths, buffer : Seq(Bytes)]
  BY DEF Calls

\* Taking a byte, peeking and starting the driver leave a ring and at most one
\* peeked byte.
LEMMA RingSteps ==
  ASSUME Ring,
         \/ \E c \in Bytes : Take(c) \/ Peek(c) \/ Receive(c)
         \/ NoByte \/ Begin \/ UNCHANGED <<installed, rx, peeked>>
  PROVE  Ring'
<1>1. ASSUME NEW c \in Bytes, Take(c) PROVE Ring'
  <2>1. CASE peeked # <<>>
    BY <1>1, <2>1 DEF Ring, Take
  <2>2. CASE peeked = <<>>
    <3>1. rx # <<>>
      BY <1>1, <2>2 DEF Ring, Take, Unread
    <3> QED
      BY <1>1, <2>2, <3>1 DEF Ring, Take
  <2> QED
    BY <2>1, <2>2
<1>2. ASSUME NEW c \in Bytes, Peek(c) PROVE Ring'
  <2>1. CASE peeked # <<>>
    BY <1>2, <2>1 DEF Ring, Peek
  <2>2. CASE peeked = <<>>
    <3>1. rx # <<>>
      BY <1>2, <2>2 DEF Ring, Peek, Unread
    <3> QED
      BY <1>2, <2>2, <3>1 DEF Ring, Peek
  <2> QED
    BY <2>1, <2>2
<1>3. ASSUME NEW c \in Bytes, Receive(c) PROVE Ring'
  BY <1>3 DEF Ring, Receive
<1>4. CASE NoByte
  BY <1>4 DEF Ring, NoByte
<1>5. CASE Begin
  <2>1. CASE installed
    BY <1>5, <2>1 DEF Ring, Begin
  <2>2. CASE ~installed
    BY <1>5, <2>2, EmptySeq DEF Ring, Begin
  <2> QED
    BY <2>1, <2>2
<1>6. CASE UNCHANGED <<installed, rx, peeked>>
  BY <1>6 DEF Ring
<1> QED
  BY <1>1, <1>2, <1>3, <1>4, <1>5, <1>6

\* A call that has returned has no locals left.
LEMMA ReturnKeeps ==
  ASSUME NEW answer, Return(answer)
  PROVE  CallState'
  BY DEF Return, Idle, CallState, Calls, Stores, FindsLongest

\* A step of the ring alone changes nothing of the call.
LEMMA SameCall ==
  ASSUME CallState, UNCHANGED <<call, taken>>
  PROVE  CallState'
  BY DEF CallState, Calls, Stores, FindsLongest

\* Every step that stores a byte has checked that there is a cell for it.
LEMMA StoreKeeps ==
  ASSUME CallState, NEW c \in Bytes,
         Stores \/ call.op \in {"ecall_int", "ecall_string"},
         Stores => Len(call.buffer) < call.length,
         call.op = "ecall_int" => Len(call.buffer) < INT_CHARS,
         Goes([call EXCEPT !.buffer = Append(@, c)], c)
  PROVE  CallState'
<1> DEFINE more == Append(call.buffer, c)
<1>1. call' = [call EXCEPT !.buffer = more] /\ call \in Calls /\ taken' \in Seq(Bytes)
  BY DEF Goes, CallState
<1>2. call.buffer \in Seq(Bytes)
  <2>1. call.op \in {"bytes", "until", "findUntil", "ecall_int", "ecall_string"}
    BY DEF Stores
  <2> QED
    BY <1>1, <2>1, CallShapes
<1>3. more \in Seq(Bytes) /\ Len(more) = Len(call.buffer) + 1 /\ Len(call.buffer) \in Nat
  BY <1>2
<1> HIDE DEF more
<1>4. CASE call.op = "bytes"
  <2> DEFINE S == [op : {"bytes"}, length : Lengths, buffer : Seq(Bytes)]
  <2>1. call \in S
    BY <1>1, <1>4, CallShapes
  <2>2. call' \in S /\ call'.buffer = more
    BY <1>1, <1>3, <2>1
  <2>3. call'.length = call.length /\ call.length \in Nat
    BY <1>1, <2>1, SerialAssumption
  <2>4. Len(call'.buffer) <= call'.length
    BY <1>4, <1>3, <2>2, <2>3 DEF Stores
  <2> QED
    BY <1>1, <2>2, <2>4 DEF CallState, Calls, FindsLongest, Stores
<1>5. CASE call.op = "until"
  <2> DEFINE S == [op : {"until"}, end : Terminators, length : Lengths, buffer : Seq(Bytes)]
  <2>1. call \in S
    BY <1>1, <1>5, CallShapes
  <2>2. call' \in S /\ call'.buffer = more
    BY <1>1, <1>3, <2>1
  <2>3. call'.length = call.length /\ call.length \in Nat
    BY <1>1, <2>1, SerialAssumption
  <2>4. Len(call'.buffer) <= call'.length
    BY <1>5, <1>3, <2>2, <2>3 DEF Stores
  <2> QED
    BY <1>1, <2>2, <2>4 DEF CallState, Calls, FindsLongest, Stores
<1>6. CASE call.op = "findUntil"
  <2> DEFINE S == [op : {"findUntil"}, target : Targets, end : Terminators,
                   length : {FIND_BUFFER - 1}, buffer : Seq(Bytes)]
  <2>1. call \in S
    BY <1>1, <1>6, CallShapes
  <2>2. call' \in S /\ call'.buffer = more
    BY <1>1, <1>3, <2>1
  <2>3. call'.length = call.length /\ call.length \in Nat
    BY <1>1, <2>1, SerialAssumption
  <2>4. Len(call'.buffer) <= call'.length
    BY <1>6, <1>3, <2>2, <2>3 DEF Stores
  <2> QED
    BY <1>1, <2>2, <2>4 DEF CallState, Calls, FindsLongest, Stores
<1>7. CASE call.op = "ecall_int"
  <2> DEFINE S == [op : {"ecall_int"}, buffer : Seq(Bytes)]
  <2>1. call \in S
    BY <1>1, <1>7, CallShapes
  <2>2. call' \in S /\ call'.buffer = more
    BY <1>1, <1>3, <2>1
  <2>3. Len(call'.buffer) <= INT_CHARS
    BY <1>7, <1>3, <2>2, SerialAssumption
  <2> QED
    BY <1>1, <2>2, <2>3 DEF CallState, Calls, FindsLongest, Stores
<1>8. CASE call.op = "ecall_string"
  <2> DEFINE S == [op : {"ecall_string"}, size : Lengths, buffer : Seq(Bytes)]
  <2>1. call \in S
    BY <1>1, <1>8, CallShapes
  <2>2. call' \in S /\ call'.buffer = more
    BY <1>1, <1>3, <2>1
  <2> QED
    BY <1>1, <2>2 DEF CallState, Calls, FindsLongest, Stores
<1> QED
  BY <1>4, <1>5, <1>6, <1>7, <1>8 DEF Stores

\* A byte of the number.
LEMMA ParseKeeps ==
  ASSUME CallState, NEW c \in Bytes, ParseByte(c)
  PROVE  CallState'
<1> DEFINE S == [op : {"parse"}, lookahead : Lookahead, ignore : Ignores,
                 started : BOOLEAN, isNegative : BOOLEAN, value : Nat]
<1>1. call.op = "parse" /\ call' = Counted(c) /\ taken' = Append(taken, c)
  BY DEF ParseByte, Goes
<1>2. call \in S /\ taken \in Seq(Bytes) /\ c \in Nat
  BY <1>1, CallShapes, SerialAssumption DEF CallState
<1>3. c = call.ignore \/ c = Minus \/ c \in Digit
  BY DEF ParseByte
<1>4. call' \in S
  <2>1. CASE c = call.ignore
    BY <1>1, <1>2, <2>1 DEF Counted
  <2>2. CASE c # call.ignore /\ c = Minus
    BY <1>1, <1>2, <2>2 DEF Counted
  <2>3. CASE c # call.ignore /\ c # Minus
    <3>1. call' = [call EXCEPT !.started = TRUE, !.value = @ * 10 + c - 48]
      BY <1>1, <2>3 DEF Counted
    <3>2. call.value * 10 + c - 48 \in Nat
      BY <1>2, <1>3, <2>3 DEF Digit
    <3> QED
      BY <1>2, <3>1, <3>2
  <2> QED
    BY <2>1, <2>2, <2>3
<1>5. taken' \in Seq(Bytes)
  BY <1>1, <1>2
<1> QED
  BY <1>4, <1>5 DEF CallState, Calls, FindsLongest, Stores

\* A byte of a search that does not end it.
LEMMA FindKeeps ==
  ASSUME CallState, FindByte
  PROVE  CallState'
<1> DEFINE S == [op : {"find"}, target : Targets, index : Nat]
<1>1. call.op = "find" /\ call.target # <<>>
  BY DEF FindByte
<1>2. PICK c \in Bytes :
        LET index == Advance(call.target, call.index, c)
        IN IF index = Len(call.target) THEN Return(<<1>>)
           ELSE Goes([call EXCEPT !.index = index], c)
  BY DEF FindByte
<1> DEFINE index == Advance(call.target, call.index, c)
           t == call.target
<1>3. call \in S /\ taken \in Seq(Bytes)
  BY <1>1, CallShapes DEF CallState
<1>4. t \in Seq(Bytes)
  BY <1>3, SerialAssumption
<1>5. /\ call.index \in 0 .. Len(t) - 1 /\ Matches(call.index, t, taken)
      /\ \A j \in call.index + 1 .. Len(t) : ~Matches(j, t, taken)
  BY <1>1, <1>3, <1>4 DEF CallState, FindsLongest
<1>6. /\ index \in 0 .. Len(t) /\ Matches(index, t, Append(taken, c))
      /\ \A j \in index + 1 .. Len(t) : ~Matches(j, t, Append(taken, c))
  BY <1>3, <1>4, <1>5, AdvanceLongest
<1>7. CASE index = Len(t)
  BY <1>2, <1>7, ReturnKeeps
<1>8. CASE index # Len(t)
  <2> HIDE DEF index
  <2>1. call' = [call EXCEPT !.index = index] /\ taken' = Append(taken, c)
    BY <1>2, <1>8 DEF Goes, index
  <2>2. index \in Nat /\ index < Len(t) /\ Len(t) \in Nat
    BY <1>4, <1>6, <1>8
  <2>3. call' \in S /\ call'.index = index /\ call'.target = t /\ taken' \in Seq(Bytes)
    BY <1>3, <2>1, <2>2
  <2>4. FindsLongest'
    BY <1>6, <2>1, <2>2, <2>3 DEF FindsLongest
  <2> QED
    BY <2>3, <2>4 DEF CallState, Calls, Stores
<1> QED
  BY <1>7, <1>8

\* A call starts with empty buffers and nothing matched.
LEMMA StartKeeps ==
  ASSUME CallState, Start
  PROVE  CallState'
<1>1. /\ call = Idle /\ taken = <<>> /\ taken' = <<>>
      /\ Len(<<>>) = 0 /\ <<>> \in Seq(Bytes)
  BY DEF Start, Call, CallState, Idle
<1>2. \A n \in Lengths : n \in Nat
  BY SerialAssumption
<1>3. CASE \E n \in Lengths : call' = [op |-> "bytes", length |-> n, buffer |-> <<>>]
  BY <1>1, <1>2, <1>3 DEF CallState, Calls, FindsLongest, Stores
<1>4. CASE \E n \in Lengths, c \in Terminators :
             call' = [op |-> "until", end |-> c, length |-> n, buffer |-> <<>>]
  BY <1>1, <1>2, <1>4 DEF CallState, Calls, FindsLongest, Stores
<1>5. CASE \E t \in Targets : call' = [op |-> "find", target |-> t, index |-> 0]
  <2>1. PICK t \in Targets : call' = [op |-> "find", target |-> t, index |-> 0]
    BY <1>5
  <2>2. t \in Seq(Bytes) /\ call' \in [op : {"find"}, target : Targets, index : Nat]
    BY <2>1, SerialAssumption
  <2>3. t # <<>> => Len(t) > 0
    BY <2>2
  <2>4. Matches(0, t, <<>>) /\ \A j \in 1 .. Len(t) : ~Matches(j, t, <<>>)
    BY <1>1, <2>2 DEF Matches
  <2>5. FindsLongest'
    BY <1>1, <2>1, <2>3, <2>4 DEF FindsLongest
  <2> QED
    BY <1>1, <2>1, <2>2, <2>5 DEF CallState, Calls, Stores
<1>6. CASE \E t \in Targets, c \in Terminators :
             call' = [op |-> "findUntil", target |-> t, end |-> c,
                      length |-> FIND_BUFFER - 1, buffer |-> <<>>]
  BY <1>1, <1>6, SerialAssumption DEF CallState, Calls, FindsLongest, Stores
<1>7. CASE \E mode \in Lookahead, c \in Ignores :
             call' = [op |-> "parse", lookahead |-> mode, ignore |-> c,
                      started |-> FALSE, isNegative |-> FALSE, value |-> 0]
  BY <1>1, <1>7 DEF CallState, Calls, FindsLongest, Stores
<1>8. CASE \E op \in {"read", "peek", "ecall_char"} : call' = [op |-> op]
  BY <1>1, <1>8 DEF CallState, Calls, FindsLongest, Stores
<1>9. CASE call' = [op |-> "ecall_int", buffer |-> <<>>]
  BY <1>1, <1>9, SerialAssumption DEF CallState, Calls, FindsLongest, Stores
<1>10. CASE \E n \in Lengths : call' = [op |-> "ecall_string", size |-> n, buffer |-> <<>>]
  BY <1>1, <1>10 DEF CallState, Calls, FindsLongest, Stores
<1> QED
  BY <1>3, <1>4, <1>5, <1>6, <1>7, <1>8, <1>9, <1>10 DEF Start, Call

\* Every step of a call keeps the invariant.
LEMMA StepKeeps ==
  ASSUME SerialInv, Step
  PROVE  SerialInv'
<1>0. Ring /\ CallState
  BY DEF SerialInv
<1>1. CASE serial_read \/ serial_peek
  <2>1. Ring'
    BY <1>0, <1>1, RingSteps DEF serial_read, serial_peek
  <2>2. CallState'
    BY <1>1, ReturnKeeps DEF serial_read, serial_peek
  <2> QED
    BY <2>1, <2>2 DEF SerialInv
<1>2. CASE Store
  <2>1. PICK c \in Bytes : /\ Stores /\ ~Full /\ Take(c)
                           /\ Filled(call.buffer) \/ Goes([call EXCEPT !.buffer = Append(@, c)], c)
    BY <1>2 DEF Store
  <2>2. Ring'
    BY <1>0, <2>1, RingSteps
  <2>3. CASE Filled(call.buffer)
    <3>1. CallState'
      BY <2>3, ReturnKeeps DEF Filled
    <3> QED
      BY <2>2, <3>1 DEF SerialInv
  <2>4. CASE Goes([call EXCEPT !.buffer = Append(@, c)], c)
    <3>1. Stores => Len(call.buffer) < call.length
      <4>1. call.op \in {"bytes", "until", "findUntil"} /\ call \in Calls
        BY <1>0, <2>1 DEF CallState, Stores
      <4>2. call.buffer \in Seq(Bytes) /\ call.length \in Nat
        <5>1. CASE call.op = "bytes"
          BY <4>1, <5>1, CallShapes, SerialAssumption
        <5>2. CASE call.op = "until"
          BY <4>1, <5>2, CallShapes, SerialAssumption
        <5>3. CASE call.op = "findUntil"
          BY <4>1, <5>3, CallShapes, SerialAssumption
        <5> QED
          BY <4>1, <5>1, <5>2, <5>3
      <4>3. Len(call.buffer) \in Nat
        BY <4>2
      <4>4. Len(call.buffer) <= call.length /\ Len(call.buffer) # call.length
        BY <1>0, <2>1 DEF CallState, Full
      <4> QED
        BY <4>2, <4>3, <4>4
    <3>2. call.op # "ecall_int"
      BY <2>1 DEF Stores
    <3>3. CallState'
      BY <1>0, <2>1, <2>4, <3>1, <3>2, StoreKeeps
    <3> QED
      BY <2>2, <3>3 DEF SerialInv
  <2> QED
    BY <2>1, <2>3, <2>4
<1>3. CASE StoreFull \/ StoreTimeout
  <2>1. Ring'
    BY <1>0, <1>3, RingSteps DEF StoreFull, StoreTimeout
  <2>2. CallState'
    BY <1>3, ReturnKeeps DEF StoreFull, StoreTimeout, Filled
  <2> QED
    BY <2>1, <2>2 DEF SerialInv
<1>4. CASE FindEmpty \/ FindTimeout
  <2>1. Ring'
    BY <1>0, <1>4, RingSteps DEF FindEmpty, FindTimeout
  <2>2. CallState'
    BY <1>4, ReturnKeeps DEF FindEmpty, FindTimeout
  <2> QED
    BY <2>1, <2>2 DEF SerialInv
<1>5. CASE FindByte
  <2>1. Ring'
    BY <1>0, <1>5, RingSteps DEF FindByte
  <2>2. CallState'
    BY <1>0, <1>5, FindKeeps
  <2> QED
    BY <2>1, <2>2 DEF SerialInv
<1>6. CASE ParseTimeout
  <2>1. Ring'
    BY <1>0, <1>6, RingSteps DEF ParseTimeout
  <2>2. CallState'
    BY <1>6, ReturnKeeps DEF ParseTimeout
  <2> QED
    BY <2>1, <2>2 DEF SerialInv
<1>7. ASSUME NEW c \in Bytes, ParseSkip(c) PROVE SerialInv'
  <2>1. Take(c) /\ UNCHANGED <<call, taken>>
    BY <1>7 DEF ParseSkip, Discard
  <2> QED
    BY <1>0, <2>1, RingSteps, SameCall DEF SerialInv
<1>8. ASSUME NEW c \in Bytes, ParseByte(c) PROVE SerialInv'
  <2>1. Take(c)
    BY <1>8 DEF ParseByte
  <2> QED
    BY <1>0, <1>8, <2>1, RingSteps, ParseKeeps DEF SerialInv
<1>9. ASSUME NEW c \in Bytes, ParseEnd(c) PROVE SerialInv'
  <2>1. Peek(c) /\ Return(<<Number>>)
    BY <1>9 DEF ParseEnd
  <2> QED
    BY <1>0, <2>1, RingSteps, ReturnKeeps DEF SerialInv
<1>10. CASE IntFull \/ StringFull
  <2>1. Ring'
    BY <1>0, <1>10, RingSteps DEF IntFull, StringFull
  <2>2. CallState'
    BY <1>10, ReturnKeeps DEF IntFull, StringFull
  <2> QED
    BY <2>1, <2>2 DEF SerialInv
<1>11. ASSUME NEW c \in Bytes, Reads(c) PROVE SerialInv'
  <2>1. Take(c)
    BY <1>11 DEF Reads, ecall_read_int, ecall_read_string, ecall_read_char, Discard
  <2>2. \/ UNCHANGED <<call, taken>>
        \/ \E answer : Return(answer)
        \/ /\ call.op \in {"ecall_int", "ecall_string"}
           /\ call.op = "ecall_int" => Len(call.buffer) < INT_CHARS
           /\ Goes([call EXCEPT !.buffer = Append(@, c)], c)
    <3>1. CASE ecall_read_int(c)
      BY <3>1 DEF ecall_read_int, Discard
    <3>2. CASE ecall_read_string(c)
      BY <3>2 DEF ecall_read_string, Discard
    <3>3. CASE ecall_read_char(c)
      BY <3>3 DEF ecall_read_char, Discard
    <3> QED
      BY <1>11, <3>1, <3>2, <3>3 DEF Reads
  <2>3. call.op \in {"ecall_int", "ecall_string"} => ~Stores
    BY DEF Stores
  <2>4. CallState'
    BY <1>0, <2>2, <2>3, SameCall, ReturnKeeps, StoreKeeps
  <2> QED
    BY <1>0, <2>1, <2>4, RingSteps DEF SerialInv
<1> QED
  BY <1>1, <1>2, <1>3, <1>4, <1>5, <1>6, <1>7, <1>8, <1>9, <1>10, <1>11 DEF Step, Parses

\* Every step keeps the invariant.
LEMMA SerialStep == SerialInv /\ [Next]_vars => SerialInv'
<1> SUFFICES ASSUME SerialInv, [Next]_vars PROVE SerialInv'
  OBVIOUS
<1>0. Ring /\ CallState
  BY DEF SerialInv
<1>1. CASE \E c \in Bytes : Receive(c)
  BY <1>0, <1>1, RingSteps, SameCall DEF Receive, SerialInv
<1>2. CASE serial_begin
  BY <1>0, <1>2, RingSteps, SameCall DEF serial_begin, SerialInv
<1>3. CASE serial_end
  <2>1. Ring'
    BY <1>0, <1>3, EmptySeq DEF serial_end, Ring
  <2> QED
    BY <1>0, <1>3, <2>1, SameCall DEF serial_end, SerialInv
<1>4. CASE Start
  <2>1. Ring'
    BY <1>0, <1>4, RingSteps DEF Start
  <2> QED
    BY <1>0, <1>4, <2>1, StartKeeps DEF SerialInv
<1>5. CASE Step
  BY <1>5, StepKeeps
<1>6. CASE UNCHANGED vars
  BY <1>0, <1>6, RingSteps, SameCall DEF vars, SerialInv
<1> QED
  BY <1>1, <1>2, <1>3, <1>4, <1>5, <1>6 DEF Next

\* Nothing arrived, nothing called.
LEMMA SerialInit == Init => SerialInv
<1> SUFFICES ASSUME Init PROVE Ring /\ CallState
  BY DEF SerialInv
<1>1. Ring
  <2>1. installed \in BOOLEAN
    BY Zenon DEF Init
  <2>2. rx \in Seq(Bytes) /\ peeked \in Seq(Bytes) /\ Len(peeked) <= 1
    BY EmptySeq DEF Init
  <2> QED
    BY <2>1, <2>2 DEF Ring
<1>2. call.op = "none" /\ call \in Calls /\ taken \in Seq(Bytes) /\ taken = <<>>
  BY EmptySeq DEF Init, Idle, Calls
<1> QED
  BY <1>1, <1>2 DEF CallState, FindsLongest, Stores

\* The inductive invariant holds in every state.
THEOREM SerialInvariant == Spec => []SerialInv
  BY SerialInit, SerialStep, PTL DEF Spec

\* Types, and no buffer is filled beyond its length (Stream.cpp:199-227,
\* creatino.cpp:68-94), whatever is asked for and whatever arrives.
THEOREM SerialTypes == Spec => []TypeOK
<1>1. SerialInv => TypeOK
  BY DEF SerialInv, Ring, CallState, TypeOK
<1> QED
  BY <1>1, SerialInvariant, PTL

\* findMulti never misses a target and never looks back at the input, for every
\* target, repetitive or not, and every input (Stream.cpp:249-318).
THEOREM FindIsLongest == Spec => []FindsLongest
<1>1. SerialInv => FindsLongest
  BY DEF SerialInv, CallState
<1> QED
  BY <1>1, SerialInvariant, PTL

(* ---- the order of the bytes ---- *)

\* What a step may do to the bytes nobody took.
InOrder ==
  \/ Unread' = Unread
  \/ \E c \in Bytes : Unread' = Append(Unread, c)
  \/ Unread # <<>> /\ Unread' = Tail(Unread)
  \/ installed' # installed /\ Unread' = <<>>

LEMMA OneByte ==
  ASSUME NEW p \in Seq(Bytes), p # <<>>, Len(p) <= 1
  PROVE  Len(p) = 1
<1>1. \A q \in Seq(Bytes) : q # <<>> => Len(q) \in Nat \ {0}
  BY EmptySeq
<1> DEFINE n == Len(p)
<1>2. n \in Nat \ {0} /\ n <= 1
  BY <1>1, Zenon
<1> HIDE DEF n
<1>3. n = 1
  BY <1>2
<1> QED
  BY <1>3 DEF n

\* A peeked byte is the first of the bytes nobody took.
LEMMA OneConcat ==
  ASSUME NEW r \in Seq(Bytes), NEW p \in Seq(Bytes), Len(p) = 1
  PROVE  p \o r # <<>> /\ Head(p \o r) = p[1] /\ Tail(p \o r) = r
<1> DEFINE u == p \o r
<1>1. /\ u \in Seq(Bytes) /\ Len(u) = 1 + Len(r) /\ Len(r) \in Nat
      /\ \A i \in 1 .. 1 + Len(r) : u[i] = IF i <= 1 THEN p[1] ELSE r[i - 1]
  <2>1. /\ u \in Seq(Bytes) /\ Len(u) = Len(p) + Len(r)
        /\ \A i \in 1 .. Len(p) + Len(r) : u[i] = IF i <= Len(p) THEN p[i] ELSE r[i - Len(p)]
    BY ConcatProperties
  <2>2. Len(r) \in Nat
    BY LenProperties
  <2>3. \A i \in 1 .. 1 + Len(r) : i <= 1 => i = 1
    BY <2>2
  <2> QED
    BY <2>1, <2>2, <2>3
<1> HIDE DEF u
<1>2. u[1] = p[1] /\ u # <<>>
  BY <1>1, EmptySeq
<1>3. /\ Tail(u) \in Seq(Bytes) /\ Len(Tail(u)) = Len(r)
      /\ \A i \in 1 .. Len(r) : Tail(u)[i] = u[i + 1]
  BY <1>1, <1>2, HeadTailProperties
<1>4. \A i \in 1 .. Len(r) : u[i + 1] = r[i]
  BY <1>1
<1>5. Tail(u) = r
  BY <1>3, <1>4, SeqEqual
<1> QED
  BY <1>2, <1>5 DEF u

LEMMA EmptyConcat ==
  ASSUME NEW r \in Seq(Bytes)
  PROVE  <<>> \o r = r
  OBVIOUS

LEMMA HeadConcat ==
  ASSUME NEW r \in Seq(Bytes), r # <<>>
  PROVE  <<Head(r)>> \o Tail(r) = r
  OBVIOUS

\* The byte a call takes is the first, and the others stay as they are.
LEMMA TakeFirst ==
  ASSUME Ring, NEW c \in Bytes, Take(c)
  PROVE  Unread # <<>> /\ c = Head(Unread) /\ Unread' = Tail(Unread)
<1>1. installed' = installed /\ Unread # <<>> /\ installed /\ c = Head(Unread)
  BY DEF Take, Unread
<1>2. Unread = peeked \o rx /\ Unread' = peeked' \o rx'
  BY <1>1 DEF Unread
<1>3. CASE peeked # <<>>
  <2>1. Len(peeked) = 1
    BY <1>3, OneByte DEF Ring
  <2>2. peeked' = <<>> /\ rx' = rx
    BY <1>3 DEF Take
  <2> QED
    BY <1>1, <1>2, <2>1, <2>2, OneConcat, EmptyConcat DEF Ring
<1>4. CASE peeked = <<>>
  <2>1. rx # <<>> /\ Unread = rx
    BY <1>1, <1>2, <1>4, EmptyConcat DEF Ring
  <2>2. peeked' = <<>> /\ rx' = Tail(rx)
    BY <1>4 DEF Take
  <2>3. Tail(rx) \in Seq(Bytes)
    BY <2>1 DEF Ring
  <2> QED
    BY <1>1, <1>2, <2>1, <2>2, <2>3, EmptyConcat
<1> QED
  BY <1>3, <1>4

\* Peeking changes nothing of what is there to read.
LEMMA PeekSame ==
  ASSUME Ring, NEW c \in Bytes, Peek(c)
  PROVE  Unread' = Unread
<1>1. installed' = installed /\ Unread # <<>> /\ installed
  BY DEF Peek, Unread
<1>2. Unread = peeked \o rx /\ Unread' = <<c>> \o rx' /\ c = Head(Unread)
  BY <1>1 DEF Unread, Peek
<1>3. CASE peeked # <<>>
  <2>1. Len(peeked) = 1
    BY <1>3, OneByte DEF Ring
  <2>2. c = peeked[1]
    BY <1>2, <2>1, OneConcat DEF Ring
  <2>3. peeked = <<c>> /\ rx' = rx
    BY <1>3, <2>1, <2>2 DEF Ring, Peek
  <2> QED
    BY <1>2, <2>3
<1>4. CASE peeked = <<>>
  <2>1. rx # <<>> /\ Unread = rx
    BY <1>1, <1>2, <1>4, EmptyConcat DEF Ring
  <2>2. rx' = Tail(rx)
    BY <1>4 DEF Peek
  <2> QED
    BY <1>2, <2>1, <2>2, HeadConcat DEF Ring
<1> QED
  BY <1>3, <1>4

\* A byte that arrives is the last.
LEMMA ReceiveInOrder ==
  ASSUME Ring, NEW c \in Bytes, Receive(c)
  PROVE  InOrder
<1>1. installed /\ installed' /\ peeked' = peeked /\ rx' = Append(rx, c)
  BY DEF Receive
<1>2. Unread = peeked \o rx /\ Unread' = peeked \o Append(rx, c)
  BY <1>1 DEF Unread
<1>3. peeked \o Append(rx, c) = Append(peeked \o rx, c)
  BY DEF Ring
<1> QED
  BY <1>2, <1>3 DEF InOrder

\* Every step of a call takes the first byte, or leaves them all.
LEMMA StepInOrder ==
  ASSUME Ring, Step
  PROVE  InOrder
<1>1. \/ \E c \in Bytes : Take(c) \/ Peek(c)
      \/ UNCHANGED <<installed, rx, peeked>>
  BY DEF Step, serial_read, serial_peek, Store, StoreFull, StoreTimeout, FindEmpty, FindByte,
         FindTimeout, ParseTimeout, Parses, ParseSkip, ParseByte, ParseEnd, IntFull, StringFull,
         Reads, ecall_read_int, ecall_read_string, ecall_read_char, Discard, NoByte
<1>2. CASE UNCHANGED <<installed, rx, peeked>>
  BY <1>2 DEF InOrder, Unread
<1> QED
  BY <1>1, <1>2, TakeFirst, PeekSame DEF InOrder

\* Starting the driver finds what is there, or there is nothing.
LEMMA BeginSame ==
  ASSUME Ring, Begin
  PROVE  Unread' = Unread
<1>1. CASE installed
  BY <1>1 DEF Ring, Begin, Unread
<1>2. CASE ~installed
  <2>1. Unread = <<>> /\ Unread' = <<>> \o <<>>
    BY <1>2 DEF Begin, Unread
  <2> QED
    BY <2>1, EmptyConcat, EmptySeq
<1> QED
  BY <1>1, <1>2

\* No byte is lost, doubled or overtaken between the ring of the driver and the
\* peeked byte (esp32-hal-uart.c:691-764), but when the connection ends.
THEOREM BytesInOrder == Spec => [][InOrder]_vars
<1>1. SerialInv /\ [Next]_vars => [InOrder]_vars
  <2> SUFFICES ASSUME SerialInv, Next PROVE InOrder
    OBVIOUS
  <2>0. Ring
    BY DEF SerialInv
  <2>1. CASE \E c \in Bytes : Receive(c)
    BY <2>0, <2>1, ReceiveInOrder
  <2>2. CASE serial_begin
    BY <2>0, <2>2, BeginSame DEF serial_begin, InOrder
  <2>3. CASE serial_end
    BY <2>3 DEF serial_end, InOrder, Unread
  <2>4. CASE Start
    <3>1. Begin \/ UNCHANGED <<installed, rx, peeked>>
      BY <2>4 DEF Start
    <3>2. CASE UNCHANGED <<installed, rx, peeked>>
      BY <3>2 DEF InOrder, Unread
    <3> QED
      BY <2>0, <3>1, <3>2, BeginSame DEF InOrder
  <2>5. CASE Step
    BY <2>0, <2>5, StepInOrder
  <2> QED
    BY <2>1, <2>2, <2>3, <2>4, <2>5 DEF Next
<1> QED
  BY <1>1, SerialInvariant, PTL DEF Spec
=============================================================================
