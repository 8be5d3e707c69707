----------------------------- MODULE EcallProofs -----------------------------
(***************************************************************************)
(* Proofs about EcallHook: whatever is typed and whatever the program asks *)
(* for, no read leaves its buffer and sbrk never hands out a cell twice,   *)
(* for buffers, pools and words of any size.                               *)
(***************************************************************************)
EXTENDS EcallHook, Recursion, TLAPS

\* The part of the types that the two invariants rest on.
Shape ==
  /\ mode \in {"run", "int", "char", "string", "finished"}
  /\ idx \in Nat /\ length \in -1 .. MaxLength
  /\ buffer_int \in [0 .. INT_LEN - 1 -> Int]

EcallInv == Shape /\ InBuffers /\ PoolSound

\* A sum that stays in the pool did not overflow: the pool is smaller than half
\* the words.
LEMMA PlusInPool ==
  ASSUME NEW offset \in 0 .. POOL_CAPACITY, NEW increment \in Int32,
         Plus(offset, increment) \in 0 .. POOL_CAPACITY
  PROVE  Plus(offset, increment) = offset + increment
<1> DEFINE H == WORD \div 2
<1>1. /\ WORD \in Nat /\ H \in Nat /\ H > POOL_CAPACITY /\ POOL_CAPACITY \in Nat
      /\ WORD - H \in Int /\ WORD - H >= H
  BY HookAssumption
<1>2. increment \in Int /\ increment >= -H /\ increment <= WORD - H - 1
  BY <1>1 DEF Int32
<1>3. offset \in Int /\ offset >= 0 /\ offset <= POOL_CAPACITY
  BY <1>1
<1> HIDE DEF H
<1>4. offset + increment >= -H
  BY <1>1, <1>2, <1>3
<1>5. CASE offset + increment >= WORD - H
  <2>1. Plus(offset, increment) = offset + increment - WORD
    BY <1>5 DEF Plus, H
  <2>2. offset + increment - WORD < 0
    BY <1>1, <1>2, <1>3
  <2> QED
    BY <2>1, <2>2, <1>1, <1>2, <1>3
<1>6. CASE ~(offset + increment >= WORD - H)
  BY <1>4, <1>6, <1>1, <1>2, <1>3 DEF Plus, H
<1> QED
  BY <1>5, <1>6

\* Nothing typed, nothing waited for, nothing handed out.
LEMMA EcallInit == Init => EcallInv
  BY HookAssumption DEF Init, EcallInv, Shape, InBuffers, PoolSound

\* The break moves by the increment and takes the cells with it, or stays.
LEMMA SbrkStep ==
  ASSUME EcallInv, NEW increment \in Int32, EcallSbrk(increment)
  PROVE  EcallInv'
<1> DEFINE break == Plus(current_offset, increment)
           ok == break <= POOL_CAPACITY /\ break >= 0
<1>1. Shape' /\ InBuffers'
  BY DEF EcallInv, Shape, InBuffers, EcallSbrk, Runs, input
<1>2. PoolSound'
  <2>1. CASE ~ok
    BY <2>1 DEF EcallInv, PoolSound, EcallSbrk
  <2>2. CASE ok
    <3>1. /\ current_offset \in 0 .. POOL_CAPACITY /\ owned = 0 .. current_offset - 1
          /\ POOL_CAPACITY \in Nat /\ increment \in Int
      BY HookAssumption DEF EcallInv, PoolSound, Int32
    <3>2. break \in Int
      BY <3>1, HookAssumption DEF Plus
    <3>3. break = current_offset + increment
      BY <2>2, <3>1, <3>2, PlusInPool
    <3>4. /\ current_offset' = current_offset + increment
          /\ owned' = (owned \cup current_offset .. current_offset + increment - 1)
                      \ (current_offset + increment .. current_offset - 1)
      BY <2>2, <3>3 DEF EcallSbrk
    <3>5. current_offset' \in 0 .. POOL_CAPACITY
      BY <2>2, <3>1, <3>3, <3>4
    <3>6. owned' = 0 .. current_offset' - 1
      <4> HIDE DEF break, ok
      <4> QED
        BY <3>1, <3>4, <3>5
    <3> QED
      BY <3>5, <3>6 DEF PoolSound
  <2> QED
    BY <2>1, <2>2
<1> QED
  BY <1>1, <1>2 DEF EcallInv

\* A digit goes into the cell idx, which is not the last.
LEMMA IntDigitStep ==
  ASSUME EcallInv, NEW c \in Bytes, IntDigit(c)
  PROVE  EcallInv'
<1>1. c \in Int
  BY HookAssumption
<1>2. /\ mode = "int" /\ mode' = "int" /\ idx' = idx + 1 /\ idx < INT_LEN - 1
      /\ buffer_int' = [buffer_int EXCEPT ![idx] = c]
      /\ length' = length /\ current_offset' = current_offset /\ owned' = owned
  BY DEF IntDigit, Poll, pool
<1>3. Shape'
  <2>1. buffer_int \in [0 .. INT_LEN - 1 -> Int] /\ idx \in Nat /\ length \in -1 .. MaxLength
    BY DEF EcallInv, Shape
  <2>2. buffer_int' \in [0 .. INT_LEN - 1 -> Int]
    BY <2>1, <1>1, <1>2
  <2> QED
    BY <2>1, <2>2, <1>2 DEF Shape
<1>4. InBuffers'
  BY <1>1, <1>2, HookAssumption DEF EcallInv, Shape, InBuffers
<1> QED
  BY <1>2, <1>3, <1>4 DEF EcallInv, PoolSound

\* Every other step of a read either leaves both buffers alone, or ends the line
\* and leaves them clean, or puts a byte into a cell of the string.
LEMMA PollStep ==
  ASSUME EcallInv, NEW c \in Bytes, Handles(c)
  PROVE  EcallInv'
<1>1. CASE IntEnd(c)
  BY <1>1, HookAssumption DEF EcallInv, Shape, InBuffers, PoolSound, IntEnd, Poll, pool
<1>2. CASE IntDigit(c)
  BY <1>2, IntDigitStep
<1>3. CASE IntOther(c)
  BY <1>3 DEF EcallInv, Shape, InBuffers, PoolSound, IntOther, Poll, input, pool
<1>4. CASE StringEnd(c)
  BY <1>4, HookAssumption DEF EcallInv, Shape, InBuffers, PoolSound, StringEnd, Poll, pool
<1>5. CASE StringByte(c)
  BY <1>5, HookAssumption DEF EcallInv, Shape, InBuffers, PoolSound, StringByte, Poll, pool
<1>6. CASE StringOther(c)
  BY <1>6 DEF EcallInv, Shape, InBuffers, PoolSound, StringOther, Poll, input, pool
<1>7. CASE CharByte(c)
  BY <1>7 DEF EcallInv, Shape, InBuffers, PoolSound, CharByte, Poll, input, pool
<1>8. CASE CharZero(c)
  BY <1>8 DEF EcallInv, Shape, InBuffers, PoolSound, CharZero, Poll, input, pool
<1> QED
  BY <1>1, <1>2, <1>3, <1>4, <1>5, <1>6, <1>7, <1>8 DEF Handles

\* The UART and the program's other ecalls touch neither buffers nor pool.
LEMMA OtherStep ==
  ASSUME EcallInv,
         \/ \E c \in Bytes : Type(c)
         \/ DriverInterrupt \/ JumpAndLink
         \/ EcallReadInt \/ EcallReadChar \/ EcallReadString \/ EcallExit
  PROVE  EcallInv'
<1> USE DEF EcallInv, Shape, InBuffers, PoolSound, input, pool
<1>1. CASE \E c \in Bytes : Type(c)
  BY <1>1 DEF Type
<1>2. CASE DriverInterrupt
  BY <1>2 DEF DriverInterrupt
<1>3. CASE JumpAndLink
  BY <1>3 DEF JumpAndLink
<1>4. CASE EcallReadInt
  BY <1>4, HookAssumption DEF EcallReadInt, Runs, Wait
<1>5. CASE EcallReadChar
  BY <1>5 DEF EcallReadChar, Runs, Wait
<1>6. CASE EcallReadString
  BY <1>6 DEF EcallReadString, Runs, Wait
<1>7. CASE EcallExit
  BY <1>7 DEF EcallExit, Runs
<1> QED
  BY <1>1, <1>2, <1>3, <1>4, <1>5, <1>6, <1>7

\* Every step keeps the invariant.
LEMMA EcallStep == EcallInv /\ [Next]_vars => EcallInv'
<1> SUFFICES ASSUME EcallInv, [Next]_vars PROVE EcallInv'
  OBVIOUS
<1>1. CASE \E increment \in Int32 : EcallSbrk(increment)
  BY <1>1, SbrkStep
<1>2. CASE \E c \in Bytes : Handles(c)
  BY <1>2, PollStep
<1>3. CASE UNCHANGED vars
  BY <1>3 DEF vars, EcallInv, Shape, InBuffers, PoolSound, input, pool
<1> QED
  BY <1>1, <1>2, <1>3, OtherStep DEF Next, Program

\* The inductive invariant holds in every state.
THEOREM EcallInvariant == Spec => []EcallInv
  BY EcallInit, EcallStep, PTL DEF Spec

\* No read writes behind its buffer, and buffer_int is clean before every read,
\* for buffers of any length (test_panic.c:50-175).
THEOREM ReadsInBuffers == Spec => []InBuffers
<1>1. EcallInv => InBuffers
  BY DEF EcallInv
<1> QED
  BY <1>1, EcallInvariant, PTL

\* What sbrk has handed out is one piece of the pool, whatever was asked for and
\* given back, for pools of any size below half the words (test_panic.c:222-233).
THEOREM SbrkSound == Spec => []PoolSound
<1>1. EcallInv => PoolSound
  BY DEF EcallInv
<1> QED
  BY <1>1, EcallInvariant, PTL
-----------------------------------------------------------------------------
(* Machine words.                                                          *)

LEMMA Remainder ==
  ASSUME NEW w \in Nat, w > 0, NEW x \in Int
  PROVE  /\ x % w \in 0 .. w - 1
         /\ \E q \in Int : x = q * w + (x % w)
<1>1. x % w \in 0 .. w - 1
  OBVIOUS
<1>2. x \div w \in Int /\ x = (x \div w) * w + (x % w)
  OBVIOUS
<1> QED
  BY <1>1, <1>2

LEMMA RemainderOnce ==
  ASSUME NEW w \in Nat, w > 0, NEW x \in Int, NEW q \in Int, NEW r \in 0 .. w - 1,
         x = q * w + r
  PROVE  x % w = r
<1>1. x % w \in 0 .. w - 1
  BY Remainder
<1>2. PICK p \in Int : x = p * w + (x % w)
  BY Remainder
<1> DEFINE s == x % w
<1>3. s \in 0 .. w - 1 /\ p * w + s = q * w + r
  BY <1>1, <1>2
<1> HIDE DEF s
<1>4. CASE p - q >= 1
  <2>1. (p - q) * w >= w
    BY <1>4
  <2>2. (p - q) * w = p * w - q * w
    OBVIOUS
  <2> QED
    BY <1>3, <2>1, <2>2
<1>5. CASE q - p >= 1
  <2>1. (q - p) * w >= w
    BY <1>5
  <2>2. (q - p) * w = q * w - p * w
    OBVIOUS
  <2> QED
    BY <1>3, <2>1, <2>2
<1>6. CASE p = q
  <2>1. s = r
    BY <1>3, <1>6
  <2> QED
    BY <2>1 DEF s
<1> QED
  BY <1>4, <1>5, <1>6

LEMMA WordSize ==
  /\ WORD \in Nat /\ WORD > 0 /\ WORD \div 2 \in Nat /\ WORD \div 2 > POOL_CAPACITY
  /\ POOL_CAPACITY \in Nat /\ WORD - WORD \div 2 \in Nat /\ WORD \div 2 < WORD
BY HookAssumption

\* Wrap keeps an int in the word and changes it by words only.
LEMMA WrapInWord ==
  ASSUME NEW n \in Int
  PROVE  Wrap(n) \in Int32 /\ \E q \in Int : Wrap(n) = n + q * WORD
<1> DEFINE H == WORD \div 2
<1>1. H \in Nat /\ WORD \in Nat /\ WORD > 0 /\ H < WORD
  BY WordSize
<1> DEFINE s == (n + H) % WORD
<1>2. Wrap(n) = s - H /\ Int32 = -H .. WORD - H - 1
  BY DEF Wrap, Int32
<1> HIDE DEF H
<1>3. n + H \in Int
  BY <1>1
<1>4. s \in 0 .. WORD - 1 /\ \E q \in Int : n + H = q * WORD + s
  BY <1>1, <1>3, Remainder
<1> HIDE DEF s
<1>5. PICK q \in Int : n + H = q * WORD + s
  BY <1>4
<1>6. -q \in Int /\ (-q) * WORD = -(q * WORD)
  BY <1>1
<1>7. s - H = n + (-q) * WORD
  BY <1>1, <1>4, <1>5, <1>6
<1>8. s - H \in -H .. WORD - H - 1
  BY <1>1, <1>4
<1> QED
  BY <1>2, <1>6, <1>7, <1>8

\* A number of the word that differs by words is the wrapped one.
LEMMA WrapOnce ==
  ASSUME NEW n \in Int, NEW m \in Int32, NEW q \in Int, m = n + q * WORD
  PROVE  Wrap(n) = m
<1> DEFINE H == WORD \div 2
<1>1. H \in Nat /\ WORD \in Nat /\ WORD > 0 /\ H < WORD
  BY WordSize
<1>2. Wrap(n) = ((n + H) % WORD) - H /\ m \in -H .. WORD - H - 1
  BY DEF Wrap, Int32
<1> HIDE DEF H
<1>3. -q \in Int /\ (-q) * WORD = -(q * WORD)
  BY <1>1
<1>4. m + H \in 0 .. WORD - 1 /\ n + H \in Int /\ n + H = (-q) * WORD + (m + H)
  BY <1>1, <1>2, <1>3
<1>5. (n + H) % WORD = m + H
  BY <1>1, <1>3, <1>4, RemainderOnce
<1> QED
  BY <1>1, <1>2, <1>5

\* The overflow of one digit is that of the whole number.
LEMMA WrapDigit ==
  ASSUME NEW n \in Int, NEW d \in Int
  PROVE  Wrap(Wrap(n) * 10 + d) = Wrap(n * 10 + d)
<1>1. PICK q \in Int : Wrap(n) = n + q * WORD
  BY WrapInWord
<1> DEFINE a == Wrap(n)
           b == a * 10 + d
<1>2. WORD \in Nat /\ a \in Int /\ a = n + q * WORD
  BY <1>1, WordSize, WrapInWord DEF Int32
<1> HIDE DEF a
<1>3. b \in Int /\ b = n * 10 + d + (q * 10) * WORD
  BY <1>2
<1> HIDE DEF b
<1>4. Wrap(b) \in Int32 /\ \E p \in Int : Wrap(b) = b + p * WORD
  BY <1>3, WrapInWord
<1>5. PICK p \in Int : Wrap(b) = b + p * WORD
  BY <1>4
<1>6. q * 10 + p \in Int /\ (q * 10 + p) * WORD = (q * 10) * WORD + p * WORD
  BY <1>2
<1>7. Wrap(b) = n * 10 + d + (q * 10 + p) * WORD
  <2> DEFINE x == (q * 10) * WORD
             y == p * WORD
  <2>1. x \in Int /\ y \in Int
    BY <1>2
  <2>2. b = n * 10 + d + x /\ Wrap(b) = b + y /\ (q * 10 + p) * WORD = x + y
    BY <1>3, <1>5, <1>6
  <2> HIDE DEF x, y
  <2> QED
    BY <1>3, <2>1, <2>2
<1>8. n * 10 + d \in Int
  OBVIOUS
<1>9. Wrap(n * 10 + d) = Wrap(b)
  BY <1>4, <1>6, <1>7, <1>8, WrapOnce
<1> QED
  BY <1>9 DEF a, b
-----------------------------------------------------------------------------
(* Numbers.                                                                *)

\* h is what the first digits of t spell, with no limit on its size.
Horner(h, t, n) ==
  /\ h \in [0 .. n -> Int] /\ h[0] = 0
  /\ \A i \in 1 .. n : h[i] = h[i - 1] * 10 + (t[i] - 48)

LEMMA HornerExists ==
  ASSUME NEW t, NEW n \in Nat, \A i \in 1 .. n : t[i] \in Int
  PROVE  \E h : Horner(h, t, n)
<1> DEFINE step == [p \in (1 .. n) \X Int |-> p[2] * 10 + (t[p[1]] - 48)]
<1>1. step \in [(1 .. n) \X Int -> Int]
  OBVIOUS
<1>2. \A i \in 1 .. n : \A x \in Int : step[<<i, x>>] = x * 10 + (t[i] - 48)
  OBVIOUS
<1> HIDE DEF step
<1>3. PICK h \in [0 .. n -> Int] : Comes(h, n, 0, step)
  <2>1. 0 \in Int
    OBVIOUS
  <2> QED
    BY <1>1, <2>1, RecursionExists
<1>4. ASSUME NEW i \in 1 .. n PROVE h[i] = h[i - 1] * 10 + (t[i] - 48)
  <2>1. h[i - 1] \in Int
    OBVIOUS
  <2> QED
    BY <1>2, <1>3, <2>1 DEF Comes
<1> QED
  BY <1>3, <1>4 DEF Comes, Horner

\* The buffer holds the text t, which n bytes long, and a zero.
Holds(buffer, t, n) ==
  /\ n \in 0 .. INT_LEN - 1
  /\ \A i \in 0 .. INT_LEN - 1 : buffer[i] \in Int
  /\ buffer[n] = 0
  /\ \A i \in 0 .. n - 1 : buffer[i] # 0
  /\ \A i \in 1 .. n : t[i] = buffer[i - 1]

\* atoi keeps of the number what fits into a word, digit by digit.
LEMMA ValueIs ==
  ASSUME NEW buffer, NEW t, NEW n, NEW h, Holds(buffer, t, n), Horner(h, t, n)
  PROVE  Value(buffer) = Wrap(h[n])
<1>0. /\ n \in 0 .. INT_LEN - 1
      /\ \A i \in 0 .. INT_LEN - 1 : buffer[i] \in Int
      /\ buffer[n] = 0
      /\ \A i \in 0 .. n - 1 : buffer[i] # 0
      /\ \A i \in 1 .. n : t[i] = buffer[i - 1]
  BY DEF Holds
<1> USE <1>0
<1> DEFINE N == INT_LEN - 1
           Ends(z) == buffer[z] = 0 /\ \A y \in 0 .. z - 1 : buffer[y] # 0
           Sums(f) == f = [z \in 0 .. N |->
                             IF z = 0 THEN 0 ELSE Wrap(f[z - 1] * 10 + buffer[z - 1] - 48)]
           v == CHOOSE f : Sums(f)
<1>1. N \in Nat /\ INT_LEN \in Nat
  BY HookAssumption
<1>2. (CHOOSE z \in 0 .. N : Ends(z)) = n
  <2>1. \A z \in 0 .. N : Ends(z) => z = n
    <3> SUFFICES ASSUME NEW z \in 0 .. N, Ends(z), z # n PROVE FALSE
      OBVIOUS
    <3>1. CASE z < n
      BY <1>1, <3>1
    <3>2. CASE n < z
      BY <1>1, <3>2
    <3> QED
      BY <1>1, <3>1, <3>2
  <2>2. Ends(n)
    OBVIOUS
  <2> HIDE DEF Ends, N
  <2> QED
    BY <2>1, <2>2 DEF N
<1>3. \E f : Sums(f)
  <2> DEFINE step == [p \in (1 .. N) \X Int |-> Wrap(p[2] * 10 + buffer[p[1] - 1] - 48)]
  <2>1. ASSUME NEW i \in 1 .. N, NEW x \in Int
        PROVE  Wrap(x * 10 + buffer[i - 1] - 48) \in Int
    <3>1. buffer[i - 1] \in Int
      BY <1>1
    <3>2. x * 10 + buffer[i - 1] - 48 \in Int
      BY <3>1
    <3>3. Int32 \subseteq Int
      BY WordSize DEF Int32
    <3> QED
      BY <3>2, <3>3, WrapInWord
  <2>2. step \in [(1 .. N) \X Int -> Int]
    BY <2>1
  <2>3. \A i \in 1 .. N : \A x \in Int : step[<<i, x>>] = Wrap(x * 10 + buffer[i - 1] - 48)
    OBVIOUS
  <2> HIDE DEF step, N
  <2>4. PICK f \in [0 .. N -> Int] : Comes(f, N, 0, step)
    BY <1>1, <2>2, RecursionExists
  <2>5. ASSUME NEW z \in 0 .. N
        PROVE  f[z] = IF z = 0 THEN 0 ELSE Wrap(f[z - 1] * 10 + buffer[z - 1] - 48)
    <3>1. CASE z = 0
      BY <2>4, <3>1 DEF Comes
    <3>2. CASE z # 0
      <4>1. z \in 1 .. N /\ f[z - 1] \in Int
        BY <1>1, <3>2
      <4>2. f[z] = step[<<z, f[z - 1]>>]
        BY <2>4, <4>1 DEF Comes
      <4> QED
        BY <2>3, <3>2, <4>1, <4>2
    <3> QED
      BY <3>1, <3>2
  <2>6. Sums(f)
    BY <2>5
  <2> QED
    BY <2>6
<1>4. Sums(v)
  BY <1>3
<1>5. Value(buffer) = v[CHOOSE z \in 0 .. N : Ends(z)]
  BY DEF Value
<1>6. v[0] = 0 /\ \A z \in 1 .. N : v[z] = Wrap(v[z - 1] * 10 + buffer[z - 1] - 48)
  <2> HIDE DEF v
  <2>1. \A z \in 0 .. N : v[z] = IF z = 0 THEN 0 ELSE Wrap(v[z - 1] * 10 + buffer[z - 1] - 48)
    BY <1>4
  <2> QED
    BY <1>1, <2>1
<1> HIDE DEF v
<1> DEFINE Apart == {i \in 0 .. n : v[i] # Wrap(h[i])}
<1>7. ASSUME NEW m \in Apart, \A k \in Apart : m <= k
      PROVE  FALSE
  <2>1. m \in 0 .. n /\ v[m] # Wrap(h[m])
    OBVIOUS
  <2>2. m # 0
    <3>1. 0 \in Int32 /\ 0 = 0 + 0 * WORD
      BY WordSize DEF Int32
    <3>2. Wrap(0) = 0
      BY <3>1, WrapOnce
    <3> QED
      BY <1>6, <2>1, <3>2 DEF Horner
  <2>3. m - 1 \notin Apart
    <3> HIDE DEF Apart
    <3> QED
      BY <1>7, <2>1, <2>2
  <2>4. v[m - 1] = Wrap(h[m - 1]) /\ m - 1 \in 0 .. N /\ m \in 1 .. n /\ m \in 1 .. N
    BY <1>1, <2>1, <2>2, <2>3
  <2>5. h[m - 1] \in Int /\ buffer[m - 1] \in Int /\ t[m] = buffer[m - 1]
        /\ Wrap(h[m - 1]) \in Int
    <3>1. h[m - 1] \in Int
      BY <2>1, <2>2 DEF Horner
    <3> QED
      BY <1>1, <2>4, <3>1, WrapInWord, WordSize DEF Int32
  <2>6. Wrap(h[m - 1]) * 10 + buffer[m - 1] - 48 = Wrap(h[m - 1]) * 10 + (buffer[m - 1] - 48)
    BY <2>5
  <2>7. v[m] = Wrap(Wrap(h[m - 1]) * 10 + (buffer[m - 1] - 48))
    BY <1>6, <2>4, <2>6
  <2>8. h[m] = h[m - 1] * 10 + (buffer[m - 1] - 48)
    BY <2>4, <2>5 DEF Horner
  <2>9. buffer[m - 1] - 48 \in Int
    BY <2>5
  <2>10. v[m] = Wrap(h[m])
    <3>1. Wrap(Wrap(h[m - 1]) * 10 + (buffer[m - 1] - 48))
            = Wrap(h[m - 1] * 10 + (buffer[m - 1] - 48))
      BY <2>5, <2>9, WrapDigit
    <3> QED
      BY <2>7, <2>8, <3>1
  <2> QED
    BY <2>1, <2>10
<1>8. Apart = {}
  <2>1. Apart \subseteq Nat
    BY <1>1
  <2> HIDE DEF Apart
  <2> QED
    BY <1>7, <2>1, Smallest
<1>9. v[n] = Wrap(h[n])
  BY <1>1, <1>8
<1> QED
  BY <1>2, <1>5, <1>9

\* The sum of the digits times their places, in a word, is the same number.
LEMMA SpeltIs ==
  ASSUME NEW t \in Seq(Int), NEW h, Horner(h, t, Len(t))
  PROVE  Line!Spelt(t) = Wrap(h[Len(t)])
<1> DEFINE n == Len(t)
           Places(f) == f = [k \in 0 .. n |-> IF k = 0 THEN 1 ELSE 10 * f[k - 1]]
           P == CHOOSE f : Places(f)
           Sums(f) == f = [i \in 0 .. n |->
                             IF i = 0 THEN 0 ELSE f[i - 1] + (t[i] - 48) * P[n - i]]
           s == CHOOSE f : Sums(f)
<1>1. n \in Nat /\ \A i \in 1 .. n : t[i] \in Int
  OBVIOUS
<1>2. PICK f \in [0 .. n -> Int] :
         f[0] = 1 /\ \A k \in 1 .. n : f[k] = 10 * f[k - 1]
  <2> DEFINE step == [p \in (1 .. n) \X Int |-> 10 * p[2]]
  <2>1. step \in [(1 .. n) \X Int -> Int] /\ 1 \in Int
    OBVIOUS
  <2>2. \A i \in 1 .. n : \A x \in Int : step[<<i, x>>] = 10 * x
    OBVIOUS
  <2> HIDE DEF step, n
  <2>3. PICK f \in [0 .. n -> Int] : Comes(f, n, 1, step)
    BY <1>1, <2>1, RecursionExists
  <2>4. \A k \in 1 .. n : f[k - 1] \in Int
    BY <1>1
  <2> QED
    BY <2>2, <2>3, <2>4 DEF Comes
<1>3. Places(f)
  <2> HIDE DEF n
  <2>1. ASSUME NEW k \in 0 .. n
        PROVE  f[k] = IF k = 0 THEN 1 ELSE 10 * f[k - 1]
    BY <1>1, <1>2
  <2> QED
    BY <1>2, <2>1
<1>4. Places(P)
  BY <1>3
<1>5. P[0] = 1 /\ \A k \in 1 .. n : P[k] = 10 * P[k - 1]
  <2> HIDE DEF P, n
  <2>1. \A k \in 0 .. n : P[k] = IF k = 0 THEN 1 ELSE 10 * P[k - 1]
    BY <1>4
  <2> QED
    BY <1>1, <2>1
<1>6. \A k \in 0 .. n : P[k] \in Int
  <2> HIDE DEF P, n
  <2> DEFINE Odd == {k \in 0 .. n : P[k] \notin Int}
  <2>1. ASSUME NEW m \in Odd, \A k \in Odd : m <= k PROVE FALSE
    <3>1. m \in 0 .. n /\ m # 0
      BY <1>5
    <3>2. m - 1 \notin Odd
      <4> HIDE DEF Odd
      <4> QED
        BY <1>1, <2>1, <3>1
    <3>3. P[m - 1] \in Int /\ m \in 1 .. n
      BY <1>1, <3>1, <3>2
    <3>4. P[m] \in Int
      BY <1>5, <3>3
    <3> QED
      BY <3>4
  <2>2. Odd \subseteq Nat
    BY <1>1
  <2>3. Odd = {}
    <3> HIDE DEF Odd
    <3> QED
      BY <2>1, <2>2, Smallest
  <2> QED
    BY <2>3
<1> HIDE DEF P
<1>7. PICK g \in [0 .. n -> Int] :
         g[0] = 0 /\ \A i \in 1 .. n : g[i] = g[i - 1] + (t[i] - 48) * P[n - i]
  <2> DEFINE step == [p \in (1 .. n) \X Int |-> p[2] + (t[p[1]] - 48) * P[n - p[1]]]
  <2>1. ASSUME NEW i \in 1 .. n, NEW x \in Int PROVE x + (t[i] - 48) * P[n - i] \in Int
    <3>1. P[n - i] \in Int /\ t[i] \in Int
      BY <1>1, <1>6
    <3> QED
      BY <3>1
  <2>2. step \in [(1 .. n) \X Int -> Int] /\ 0 \in Int
    <3>1. ASSUME NEW p \in (1 .. n) \X Int
          PROVE  p[2] + (t[p[1]] - 48) * P[n - p[1]] \in Int
      <4>1. p[1] \in 1 .. n /\ p[2] \in Int
        OBVIOUS
      <4> QED
        BY <2>1, <4>1
    <3> QED
      BY <3>1
  <2>3. \A i \in 1 .. n : \A x \in Int : step[<<i, x>>] = x + (t[i] - 48) * P[n - i]
    OBVIOUS
  <2> HIDE DEF step, n
  <2>4. PICK g \in [0 .. n -> Int] : Comes(g, n, 0, step)
    BY <1>1, <2>2, RecursionExists
  <2>5. \A k \in 1 .. n : g[k - 1] \in Int
    BY <1>1
  <2> QED
    BY <2>3, <2>4, <2>5 DEF Comes
<1>8. Sums(g)
  <2> HIDE DEF n
  <2>1. ASSUME NEW i \in 0 .. n
        PROVE  g[i] = IF i = 0 THEN 0 ELSE g[i - 1] + (t[i] - 48) * P[n - i]
    BY <1>1, <1>7
  <2> QED
    BY <1>7, <2>1
<1>9. Sums(s)
  BY <1>8
<1>10. s[0] = 0 /\ \A i \in 1 .. n : s[i] = s[i - 1] + (t[i] - 48) * P[n - i]
  <2> HIDE DEF s, n
  <2>1. \A i \in 0 .. n : s[i] = IF i = 0 THEN 0 ELSE s[i - 1] + (t[i] - 48) * P[n - i]
    BY <1>9
  <2> QED
    BY <1>1, <2>1
<1>11. Line!Spelt(t) = IF (s[n] % WORD) >= WORD - WORD \div 2 THEN (s[n] % WORD) - WORD
                       ELSE (s[n] % WORD)
  BY DEF Line!Spelt, P
<1> HIDE DEF s, n
<1> DEFINE Apart == {i \in 0 .. n : s[i] # h[i] * P[n - i]}
<1>12. h \in [0 .. n -> Int] /\ h[0] = 0
       /\ \A i \in 1 .. n : h[i] = h[i - 1] * 10 + (t[i] - 48)
  BY DEF Horner, n
<1>13. ASSUME NEW m \in Apart, \A k \in Apart : m <= k
       PROVE  FALSE
  <2>1. m \in 0 .. n /\ s[m] # h[m] * P[n - m]
    OBVIOUS
  <2>2. m # 0
    <3>1. P[n - 0] \in Int
      BY <1>1, <1>6
    <3>2. 0 * P[n - 0] = 0
      BY <3>1
    <3> QED
      BY <1>10, <1>12, <2>1, <3>2
  <2>3. m - 1 \notin Apart
    <3> HIDE DEF Apart
    <3> QED
      BY <1>1, <1>13, <2>1, <2>2
  <2>4. m \in 1 .. n /\ m - 1 \in 0 .. n /\ n - m \in 0 .. n
        /\ n - (m - 1) \in 1 .. n /\ n - (m - 1) - 1 = n - m
    BY <1>1, <2>1, <2>2
  <2>5. s[m - 1] = h[m - 1] * P[n - (m - 1)]
    BY <2>3, <2>4
  <2>6. P[n - (m - 1)] = 10 * P[n - m]
    BY <1>5, <2>4
  <2> DEFINE p == P[n - m]
             d == t[m] - 48
             x == h[m - 1]
  <2>7. p \in Int /\ d \in Int /\ x \in Int
    <3>1. p \in Int
      BY <1>6, <2>4
    <3>2. t[m] \in Int
      BY <1>1, <2>4
    <3>3. x \in Int
      BY <1>12, <2>4
    <3> QED
      BY <3>1, <3>2, <3>3
  <2>8. s[m] = x * (10 * p) + d * p /\ h[m] = x * 10 + d
    BY <1>10, <1>12, <2>4, <2>5, <2>6
  <2>9. h[m] * p = x * (10 * p) + d * p
    <3> HIDE DEF p, d, x
    <3>1. (x * 10 + d) * p = x * (10 * p) + d * p
      BY <2>7
    <3> QED
      BY <2>8, <3>1
  <2> QED
    BY <2>1, <2>8, <2>9
<1>14. Apart = {}
  <2>1. Apart \subseteq Nat
    BY <1>1
  <2> HIDE DEF Apart
  <2> QED
    BY <1>13, <2>1, Smallest
<1>15. s[n] = h[n] /\ h[n] \in Int
  <2>1. n \in 0 .. n /\ n - n = 0 /\ h[n] \in Int
    BY <1>1, <1>12
  <2>2. s[n] = h[n] * P[n - n]
    BY <1>14, <2>1
  <2>3. s[n] = h[n] * 1
    BY <1>5, <2>1, <2>2
  <2> QED
    BY <2>1, <2>3
<1> DEFINE H == WORD \div 2
           v == s[n] % WORD
           m == IF v >= WORD - H THEN v - WORD ELSE v
<1>16. H \in Nat /\ WORD \in Nat /\ WORD > 0 /\ H < WORD /\ Int32 = -H .. WORD - H - 1
  BY WordSize DEF Int32
<1>17. Line!Spelt(t) = m
  BY <1>11
<1> HIDE DEF H
<1>18. v \in 0 .. WORD - 1 /\ \E q \in Int : s[n] = q * WORD + v
  BY <1>15, <1>16, Remainder
<1> HIDE DEF v
<1>19. PICK q \in Int : s[n] = q * WORD + v
  BY <1>18
<1>20. CASE v >= WORD - H
  <2> DEFINE r == -q - 1
  <2>1. r \in Int /\ r * WORD = -(q * WORD) - WORD
    BY <1>16
  <2> HIDE DEF r
  <2>2. m = s[n] + r * WORD /\ m \in Int32
    BY <1>15, <1>16, <1>18, <1>19, <1>20, <2>1
  <2> QED
    BY <1>15, <1>17, <2>1, <2>2, WrapOnce DEF n
<1>21. CASE ~(v >= WORD - H)
  <2> DEFINE r == -q
  <2>1. r \in Int /\ r * WORD = -(q * WORD)
    BY <1>16
  <2> HIDE DEF r
  <2>2. m = s[n] + r * WORD /\ m \in Int32
    BY <1>15, <1>16, <1>18, <1>19, <1>21, <2>1
  <2> QED
    BY <1>15, <1>17, <2>1, <2>2, WrapOnce DEF n
<1> QED
  BY <1>20, <1>21
-----------------------------------------------------------------------------
(* What a read answers.                                                    *)

\* While a line is typed, its number has digits only and its text no zero byte.
HookInv ==
  /\ EcallInv /\ TypeOK
  /\ mode = "int" => \A i \in 0 .. idx - 1 : buffer_int[i] \in Digits
  /\ mode = "string" => \A i \in 0 .. idx - 1 : dest[i] # 0

\* In the first n cells f has bytes of V, and g the same ones; then g has c.
Extends(f, g, n, c, V) ==
  /\ n \in Nat /\ c \in V /\ g[n] = c
  /\ \A i \in 0 .. n - 1 : f[i] \in V /\ g[i] = f[i]

\* One more byte behind the text.
LEMMA CellsAppend ==
  ASSUME NEW V, NEW f, NEW g, NEW n, NEW c, Extends(f, g, n, c, V)
  PROVE  Cells(g, n + 1) = Append(Cells(f, n), c)
<1> DEFINE a == Cells(f, n)
           b == Cells(g, n + 1)
<1>0. /\ n \in Nat /\ c \in V /\ g[n] = c
      /\ \A i \in 0 .. n - 1 : f[i] \in V /\ g[i] = f[i]
  BY DEF Extends
<1> USE <1>0
<1>1. a \in Seq(V) /\ Len(a) = n /\ \A i \in 1 .. n : a[i] = f[i - 1]
  BY <1>0 DEF Cells
<1>2. n + 1 \in Nat /\ \A i \in 0 .. (n + 1) - 1 : g[i] \in V
  OBVIOUS
<1>3. b \in Seq(V) /\ Len(b) = n + 1 /\ \A i \in 1 .. n + 1 : b[i] = g[i - 1]
  BY <1>2 DEF Cells
<1> HIDE DEF a, b
<1>4. Append(a, c) \in Seq(V) /\ Len(Append(a, c)) = n + 1
  BY <1>1
<1>5. \A i \in 1 .. n + 1 : b[i] = Append(a, c)[i]
  <2>1. ASSUME NEW i \in 1 .. n + 1 PROVE b[i] = Append(a, c)[i]
    <3>1. CASE i = n + 1
      BY <1>1, <1>3, <3>1
    <3>2. CASE i # n + 1
      <4>1. i \in 1 .. n /\ i - 1 \in 0 .. n - 1
        BY <3>2
      <4>2. Append(a, c)[i] = a[i]
        BY <1>1, <4>1
      <4> QED
        BY <1>1, <1>3, <4>1, <4>2
    <3> QED
      BY <3>1, <3>2
  <2> QED
    BY <2>1
<1>6. b = Append(a, c)
  BY <1>3, <1>4, <1>5
<1> QED
  BY <1>6 DEF a, b

LEMMA CellsSame ==
  ASSUME NEW f, NEW g, NEW n \in Nat, \A i \in 0 .. n - 1 : f[i] = g[i]
  PROVE  Cells(f, n) = Cells(g, n)
BY DEF Cells

\* The string in dest ends at its first zero.
LEMMA CStringIs ==
  ASSUME NEW f, NEW n \in 0 .. MaxLength, f[n] = 0, \A i \in 0 .. n - 1 : f[i] # 0
  PROVE  CString(f) = Cells(f, n)
<1> DEFINE Ends(z) == f[z] = 0 /\ \A y \in 0 .. z - 1 : f[y] # 0
<1>1. MaxLength \in Nat
  BY HookAssumption
<1>2. \A z \in 0 .. MaxLength : Ends(z) => z = n
  <2> SUFFICES ASSUME NEW z \in 0 .. MaxLength, Ends(z), z # n PROVE FALSE
    OBVIOUS
  <2>1. CASE z < n
    BY <1>1, <2>1
  <2>2. CASE n < z
    BY <1>1, <2>2
  <2> QED
    BY <1>1, <2>1, <2>2
<1>3. Ends(n)
  OBVIOUS
<1>4. CString(f) = Cells(f, CHOOSE z \in 0 .. MaxLength : Ends(z))
  BY DEF CString
<1> HIDE DEF Ends
<1>5. (CHOOSE z \in 0 .. MaxLength : Ends(z)) = n
  BY <1>2, <1>3
<1> QED
  BY <1>4, <1>5

\* The answer is the number that was typed, in a word.
LEMMA AnswerIsNumber ==
  ASSUME HookInv, NEW c \in Bytes, IntEnd(c)
  PROVE  a0' \in Int32 /\ a0' = Line!Spelt(Cells(buffer_int, idx))
<1> DEFINE t == Cells(buffer_int, idx)
           buffer == [buffer_int EXCEPT ![idx] = 0]
<1>1. /\ mode = "int" /\ idx \in Nat /\ INT_LEN \in Nat /\ idx \in 0 .. INT_LEN - 1
      /\ buffer_int \in [0 .. INT_LEN - 1 -> Int]
      /\ \A i \in 0 .. idx - 1 : buffer_int[i] \in Digits
  BY HookAssumption DEF HookInv, EcallInv, Shape, InBuffers, IntEnd, Poll
<1>2. \A i \in 0 .. idx - 1 : i \in 0 .. INT_LEN - 1
  BY <1>1
<1>3. /\ \A i \in 0 .. INT_LEN - 1 : buffer[i] \in Int
      /\ buffer[idx] = 0
      /\ \A i \in 0 .. idx - 1 : buffer[i] = buffer_int[i] /\ buffer[i] # 0
  BY <1>1, <1>2 DEF Digits
<1>4. a0' = Value(buffer)
  BY DEF IntEnd
<1>5. t \in Seq(Int) /\ Len(t) = idx /\ \A i \in 1 .. idx : t[i] = buffer_int[i - 1]
  <2>1. \A i \in 0 .. idx - 1 : buffer_int[i] \in Int
    BY <1>1, <1>2
  <2>2. /\ t \in Seq(Int) /\ Len(t) = idx
        /\ \A i \in 1 .. idx : Cells(buffer_int, idx)[i] = buffer_int[i - 1]
    BY <1>1, <2>1 DEF Cells
  <2> QED
    BY <2>2
<1> HIDE DEF t, buffer
<1>6. \A i \in 1 .. idx : t[i] \in Int /\ t[i] = buffer[i - 1]
  <2>1. \A i \in 1 .. idx : i - 1 \in 0 .. idx - 1 /\ i - 1 \in 0 .. INT_LEN - 1
    BY <1>1
  <2>2. \A i \in 1 .. idx : t[i] = buffer[i - 1] /\ buffer[i - 1] \in Int
    BY <1>3, <1>5, <2>1
  <2> QED
    BY <2>2
<1>7. PICK h : Horner(h, t, idx)
  BY <1>1, <1>6, HornerExists
<1>8. h[idx] \in Int
  BY <1>1, <1>7 DEF Horner
<1>9. Value(buffer) = Wrap(h[idx])
  <2>1. /\ \A i \in 0 .. idx - 1 : buffer[i] # 0
        /\ \A i \in 1 .. idx : t[i] = buffer[i - 1]
    BY <1>3, <1>6
  <2>2. Holds(buffer, t, idx)
    BY <1>1, <1>3, <2>1 DEF Holds
  <2> QED
    BY <1>7, <2>2, ValueIs
<1>10. Line!Spelt(t) = Wrap(h[idx])
  BY <1>5, <1>7, SpeltIs
<1> QED
  BY <1>4, <1>8, <1>9, <1>10, WrapInWord DEF t

\* The state of the specification of a read.
Reading == IF Reads THEN mode ELSE "nothing"
Room == CASE mode = "int" -> INT_LEN - 1
          [] mode = "string" -> (IF length < 0 THEN 0 ELSE length)
          [] OTHER -> 0
Typed == CASE mode = "int" -> Cells(buffer_int, idx)
           [] mode = "string" -> Cells(dest, idx) [] OTHER -> <<>>
String == IF mode = "string" THEN <<>> ELSE CString(dest)

\* A step that does not touch any of this is none there.
LEMMA Stutters ==
  ASSUME UNCHANGED <<mode, idx, buffer_int, dest, length, a0>>
  PROVE  Reading' = Reading /\ Room' = Room /\ Typed' = Typed /\ String' = String
<1>1. /\ mode' = mode /\ idx' = idx /\ buffer_int' = buffer_int
      /\ dest' = dest /\ length' = length /\ a0' = a0
  OBVIOUS
<1> QED
  BY <1>1 DEF Reading, Room, Typed, String, Reads, Cells, CString

LEMMA CellsEmpty == ASSUME NEW f PROVE Cells(f, 0) = <<>>
BY DEF Cells

LEMMA HookInit == Init => HookInv /\ Line!Init
<1> SUFFICES ASSUME Init PROVE HookInv /\ Line!Init
  OBVIOUS
<1>1. EcallInv
  BY EcallInit
<1>2. TypeOK
  <2>1. a0 \in Int32 /\ fifo \in Seq(Bytes) /\ Len(fifo) <= FIFO_LEN
    BY WordSize, HookAssumption DEF Init, Int32
  <2> QED
    BY <2>1, HookAssumption DEF Init, TypeOK
<1>3. HookInv
  BY <1>1, <1>2 DEF Init, HookInv
<1>4. CString(dest) = <<>>
  <2>1. 0 \in 0 .. MaxLength /\ dest[0] = 0 /\ \A i \in 0 .. 0 - 1 : dest[i] # 0
    BY HookAssumption DEF Init
  <2> QED
    BY <2>1, CStringIs, CellsEmpty
<1> QED
  BY <1>3, <1>4 DEF Init, Line!Init, Reads

\* What happens while nobody waits: bytes come and go, exit ends the program.
LEMMA UnseenStep ==
  ASSUME HookInv, EcallInv',
         \/ \E c \in Bytes : Type(c)
         \/ DriverInterrupt \/ JumpAndLink \/ EcallExit \/ UNCHANGED vars
  PROVE  HookInv' /\ [Line!Next]_Line!vars
<1>0. /\ fifo \in Seq(Bytes) /\ Len(fifo) <= FIFO_LEN /\ FIFO_LEN \in Nat
  BY HookAssumption DEF HookInv, TypeOK
<1>1. CASE EcallExit
  <2>1. /\ Runs /\ mode' \in {"run", "finished"}
        /\ UNCHANGED <<fifo, input, length, a0, pool, ra>>
    BY <1>1 DEF EcallExit
  <2>2. TypeOK'
    BY <2>1 DEF HookInv, TypeOK, input, pool
  <2>3. UNCHANGED Line!vars
    BY <2>1 DEF Line!vars, Reads, Cells, CString, input, Runs
  <2> QED
    BY <2>1, <2>2, <2>3 DEF HookInv
<1>2. CASE ~EcallExit
  <2>1. UNCHANGED <<mode, idx, buffer_int, dest, length, a0, current_offset, owned>>
    BY <1>2 DEF Type, DriverInterrupt, JumpAndLink, vars, input, pool
  <2>2. ra' \in {"app_main", "program"}
    BY <1>2 DEF Type, DriverInterrupt, JumpAndLink, vars, HookInv, TypeOK
  <2>3. /\ fifo' \in Seq(Bytes) /\ Len(fifo') <= FIFO_LEN
        /\ \/ fifo' = fifo \/ \E c \in Bytes : fifo' = Append(fifo, c)
           \/ fifo' = <<>> /\ ~Reads
    <3>1. ASSUME NEW c \in Bytes, Type(c)
          PROVE  fifo' \in Seq(Bytes) /\ Len(fifo') <= FIFO_LEN /\ fifo' = Append(fifo, c)
      BY <1>0, <3>1 DEF Type
    <3>2. CASE DriverInterrupt
      BY <1>0, <3>2 DEF DriverInterrupt, Reads
    <3>3. CASE JumpAndLink \/ UNCHANGED vars
      BY <1>0, <3>3 DEF JumpAndLink, vars
    <3> QED
      BY <1>2, <3>1, <3>2, <3>3
  <2>4. TypeOK'
    BY <2>1, <2>2, <2>3 DEF HookInv, TypeOK
  <2>5. HookInv'
    BY <2>1, <2>4 DEF HookInv
  <2>6. Reading' = Reading /\ Room' = Room /\ Typed' = Typed /\ a0' = a0 /\ String' = String
    BY <2>1, Stutters
  <2>7. CASE fifo' = fifo
    <3>1. UNCHANGED Line!vars
      BY <2>6, <2>7 DEF Line!vars, Reading, Room, Typed, String
    <3> QED
      BY <2>5, <3>1
  <2>8. CASE \E c \in Bytes : fifo' = Append(fifo, c)
    <3>1. PICK c \in Bytes : fifo' = Append(fifo, c)
      BY <2>8
    <3>2. Line!Type(c)
      BY <2>6, <3>1 DEF Line!Type, Reading, Room, Typed, String
    <3> QED
      BY <2>5, <3>2 DEF Line!Next
  <2>9. CASE fifo' = <<>> /\ ~Reads
    <3>1. Reading = "nothing"
      BY <2>9 DEF Reading
    <3>2. Line!Forget
      BY <2>6, <2>9, <3>1 DEF Line!Forget, Reading, Room, Typed, String
    <3> QED
      BY <2>5, <3>2 DEF Line!Next
  <2> QED
    BY <2>3, <2>5, <2>7, <2>8, <2>9
<1> QED
  BY <1>1, <1>2

\* The program starts to wait.
LEMMA AskStep ==
  ASSUME HookInv, EcallInv', EcallReadInt \/ EcallReadChar \/ EcallReadString
  PROVE  HookInv' /\ [Line!Next]_Line!vars
<1>1. /\ mode = "run" /\ idx = 0 /\ UNCHANGED <<fifo, idx, buffer_int, dest, a0, ra>>
      /\ current_offset' = current_offset /\ owned' = owned
      /\ mode' \in {"int", "char", "string"}
      /\ length' \in -1 .. MaxLength
  BY DEF EcallReadInt, EcallReadChar, EcallReadString, Runs, Wait, input, pool,
         HookInv, EcallInv, InBuffers, TypeOK
<1>2. TypeOK'
  BY <1>1 DEF HookInv, TypeOK
<1>3. HookInv'
  BY <1>1, <1>2 DEF HookInv
<1>4. Line!Ask(mode')
  <2>1. Reading = "nothing" /\ Reading' = mode' /\ Typed = <<>> /\ a0' = a0
    BY <1>1 DEF Reading, Reads, Typed
  <2>2. Typed' = <<>>
    BY <1>1, CellsEmpty DEF Typed
  <2>3. Room' \in Nat
    BY <1>1, HookAssumption DEF Room
  <2>4. String' = IF mode' = "string" THEN <<>> ELSE String
    BY <1>1 DEF String, CString, Cells
  <2> QED
    BY <1>1, <2>1, <2>2, <2>3, <2>4 DEF Line!Ask, Reading, Typed, Room, String
<1> QED
  BY <1>1, <1>3, <1>4 DEF Line!Next

\* sbrk answers in the register of the number.
LEMMA SbrkAnswer ==
  ASSUME HookInv, EcallInv', NEW increment \in Int32, EcallSbrk(increment)
  PROVE  HookInv' /\ [Line!Next]_Line!vars
<1>1. /\ mode = "run" /\ UNCHANGED <<fifo, mode, idx, buffer_int, dest, length, ra>>
      /\ a0' \in {current_offset, -1}
  BY DEF EcallSbrk, Runs, input
<1>2. /\ current_offset \in 0 .. POOL_CAPACITY /\ current_offset' \in 0 .. POOL_CAPACITY
      /\ owned' = 0 .. current_offset' - 1
  BY DEF HookInv, EcallInv, PoolSound
<1>3. a0' \in Int32 /\ a0' \in Int
  BY <1>1, <1>2, WordSize DEF Int32
<1>4. current_offset' \in Int /\ owned' \subseteq 0 .. POOL_CAPACITY - 1
  <2>1. \A n \in 0 .. POOL_CAPACITY : n \in Int /\ 0 .. n - 1 \subseteq 0 .. POOL_CAPACITY - 1
    BY WordSize
  <2> QED
    BY <1>2, <2>1
<1>5. TypeOK'
  BY <1>1, <1>3, <1>4 DEF HookInv, TypeOK
<1>6. HookInv'
  BY <1>1, <1>5 DEF HookInv
<1>7. Line!Other
  BY <1>1, <1>3 DEF Line!Other, Reads, CString, Cells
<1> QED
  BY <1>6, <1>7 DEF Line!Next

\* The types after a byte was taken out of the FIFO.
LEMMA PollType ==
  ASSUME HookInv, NEW c \in Bytes, NEW for, Poll(for, c)
  PROVE  /\ fifo' \in Seq(Bytes) /\ Len(fifo') <= FIFO_LEN
         /\ UNCHANGED <<current_offset, ra, owned>>
         /\ c \in Int /\ c >= 0
         /\ Line!Take(c)
<1>1. fifo \in Seq(Bytes) /\ Len(fifo) <= FIFO_LEN /\ FIFO_LEN \in Nat
  BY HookAssumption DEF HookInv, TypeOK
<1>2. fifo # <<>> /\ fifo' = Tail(fifo) /\ c = Head(fifo)
  BY DEF Poll
<1>3. UNCHANGED <<current_offset, ra, owned>>
  BY DEF Poll, pool
<1>4. c \in Int /\ c >= 0
  BY HookAssumption
<1> QED
  BY <1>1, <1>2, <1>3, <1>4 DEF Line!Take

\* A byte that has no place in the answer.
LEMMA SkipStep ==
  ASSUME HookInv, EcallInv', NEW c \in Bytes, IntOther(c) \/ StringOther(c) \/ CharZero(c)
  PROVE  HookInv' /\ [Line!Next]_Line!vars
<1>1. /\ fifo' \in Seq(Bytes) /\ Len(fifo') <= FIFO_LEN
      /\ UNCHANGED <<current_offset, ra, owned>> /\ Line!Take(c)
  BY PollType DEF IntOther, StringOther, CharZero
<1>2. UNCHANGED <<mode, idx, buffer_int, dest, length, a0>>
  BY DEF IntOther, StringOther, CharZero, input
<1>3. TypeOK'
  BY <1>1, <1>2 DEF HookInv, TypeOK
<1>4. HookInv'
  BY <1>2, <1>3 DEF HookInv
<1>5. Reading' = Reading /\ Room' = Room /\ Typed' = Typed /\ a0' = a0 /\ String' = String
  BY <1>2, Stutters
<1>6. idx \in Nat /\ length \in -1 .. MaxLength /\ INT_LEN \in Nat
  BY HookAssumption DEF HookInv, TypeOK
<1>7. /\ Reading \in {"int", "string", "char"}
      /\ IF Reading = "char" THEN c = 0 ELSE c \notin Line!Ends
      /\ Reading = "int" => (c \in Digits => idx >= INT_LEN - 1)
      /\ Reading = "string" => c = 0 \/ idx >= length
  BY DEF IntOther, StringOther, CharZero, Poll, Reading, Reads, Newline, Line!Ends
<1>8. /\ Reading = "int" => Room = INT_LEN - 1 /\ Len(Typed) = idx
      /\ Reading = "string" => Room = (IF length < 0 THEN 0 ELSE length) /\ Len(Typed) = idx
  BY <1>6 DEF Reading, Reads, Room, Typed, Cells
<1>9. ~Line!Acceptable(c)
  <2>1. CASE Reading = "int"
    BY <1>6, <1>7, <1>8, <2>1 DEF Line!Acceptable, Reading, Room, Typed
  <2>2. CASE Reading = "string"
    BY <1>6, <1>7, <1>8, <2>2 DEF Line!Acceptable, Reading, Room, Typed
  <2>3. CASE Reading = "char"
    BY <2>3 DEF Line!Acceptable, Reading
  <2> QED
    BY <1>7, <2>1, <2>2, <2>3
<1>10. Line!Skip(c)
  BY <1>1, <1>5, <1>7, <1>9 DEF Line!Skip, Reading, Room, Typed, String
<1> QED
  BY <1>4, <1>10 DEF Line!Next

\* read_int
LEMMA IntStep ==
  ASSUME HookInv, EcallInv', NEW c \in Bytes, IntEnd(c) \/ IntDigit(c)
  PROVE  HookInv' /\ [Line!Next]_Line!vars
<1>1. /\ fifo' \in Seq(Bytes) /\ Len(fifo') <= FIFO_LEN
      /\ UNCHANGED <<current_offset, ra, owned>> /\ c \in Int /\ Line!Take(c)
  BY PollType DEF IntEnd, IntDigit
<1>2. /\ mode = "int" /\ idx \in Nat /\ INT_LEN \in Nat /\ idx < INT_LEN
      /\ buffer_int \in [0 .. INT_LEN - 1 -> Bytes \cup {0}]
      /\ \A i \in 0 .. idx - 1 : buffer_int[i] \in Digits
      /\ TypeOK
  BY HookAssumption DEF HookInv, EcallInv, Shape, InBuffers, TypeOK, IntEnd, IntDigit, Poll
<1>3. CASE IntEnd(c)
  <2>1. /\ mode' = "run" /\ idx' = 0 /\ dest' = dest /\ length' = length
        /\ buffer_int' = [i \in 0 .. INT_LEN - 1 |-> 0]
    BY <1>3 DEF IntEnd
  <2>2. a0' \in Int32 /\ a0' = Line!Spelt(Cells(buffer_int, idx))
    BY <1>3, AnswerIsNumber
  <2>3. TypeOK'
    BY <1>1, <1>2, <2>1, <2>2 DEF TypeOK
  <2>4. HookInv'
    BY <2>1, <2>3 DEF HookInv
  <2>5. Reading = "int" /\ Reading' = "nothing" /\ Room' = 0
        /\ Typed = Cells(buffer_int, idx) /\ Typed' = <<>> /\ String' = String
    BY <1>2, <2>1 DEF Reading, Reads, Room, Typed, String, CString, Cells
  <2>7. c \in Line!Ends
    BY <1>3 DEF IntEnd, Newline, Line!Ends
  <2>6. Line!Answer(c)
    BY <1>1, <2>2, <2>5, <2>7 DEF Line!Answer, Reading, Room, Typed, String
  <2> QED
    BY <2>4, <2>6 DEF Line!Next
<1>4. CASE IntDigit(c)
  <2>1. /\ mode' = "int" /\ idx' = idx + 1 /\ dest' = dest /\ length' = length
        /\ a0' = a0 /\ c \in Digits /\ idx < INT_LEN - 1
        /\ buffer_int' = [buffer_int EXCEPT ![idx] = c]
    BY <1>4, <1>2 DEF IntDigit
  <2>2. /\ buffer_int' \in [0 .. INT_LEN - 1 -> Bytes \cup {0}]
        /\ buffer_int'[idx] = c
        /\ \A i \in 0 .. idx - 1 : buffer_int'[i] = buffer_int[i]
    BY <1>2, <2>1
  <2>3. TypeOK'
    BY <1>1, <1>2, <2>1, <2>2 DEF TypeOK
  <2>4. \A i \in 0 .. idx' - 1 : buffer_int'[i] \in Digits
    <3>1. ASSUME NEW i \in 0 .. idx PROVE buffer_int'[i] \in Digits
      <4>1. CASE i = idx
        BY <2>1, <2>2, <4>1
      <4>2. CASE i # idx
        BY <1>2, <2>2, <4>2
      <4> QED
        BY <4>1, <4>2
    <3>2. idx' - 1 = idx
      BY <1>2, <2>1
    <3> QED
      BY <3>1, <3>2
  <2>5. HookInv'
    BY <2>1, <2>3, <2>4 DEF HookInv
  <2>6. Cells(buffer_int', idx + 1) = Append(Cells(buffer_int, idx), c)
    <3>1. Extends(buffer_int, buffer_int', idx, c, Digits)
      BY <1>2, <2>1, <2>2 DEF Extends
    <3> QED
      BY <3>1, CellsAppend
  <2>7. Len(Cells(buffer_int, idx)) = idx
    BY <1>2 DEF Cells
  <2>8. c \notin {0} \cup Line!Ends
    BY <2>1 DEF Digits, Line!Ends
  <2>9. /\ Reading = "int" /\ Reading' = "int" /\ Room = INT_LEN - 1 /\ Room' = Room
        /\ Typed = Cells(buffer_int, idx) /\ Typed' = Cells(buffer_int', idx + 1)
        /\ String' = String
    BY <1>2, <2>1 DEF Reading, Reads, Room, Typed, String, CString, Cells
  <2>10. Line!Accept(c)
    <3>1. Len(Typed) < Room
      BY <2>1, <2>7, <2>9
    <3>2. Typed' = Append(Typed, c)
      BY <2>6, <2>9
    <3> QED
      BY <1>1, <2>1, <2>8, <2>9, <3>1, <3>2 DEF Line!Accept, Line!Acceptable, Reading, Room, Typed, String
  <2> QED
    BY <2>5, <2>10 DEF Line!Next
<1> QED
  BY <1>3, <1>4

\* read_string
LEMMA StringStep ==
  ASSUME HookInv, EcallInv', NEW c \in Bytes, StringEnd(c) \/ StringByte(c)
  PROVE  HookInv' /\ [Line!Next]_Line!vars
<1>1. /\ fifo' \in Seq(Bytes) /\ Len(fifo') <= FIFO_LEN
      /\ UNCHANGED <<current_offset, ra, owned>> /\ c \in Int /\ Line!Take(c)
  BY PollType DEF StringEnd, StringByte
<1>2. /\ mode = "string" /\ idx \in Nat /\ length \in -1 .. MaxLength
      /\ MaxLength \in Nat /\ (idx = 0 \/ idx <= length)
      /\ dest \in [0 .. MaxLength -> Bytes \cup {0}]
      /\ \A i \in 0 .. idx - 1 : dest[i] # 0
      /\ TypeOK
  BY HookAssumption DEF HookInv, EcallInv, Shape, InBuffers, TypeOK, StringEnd, StringByte, Poll
<1>3. idx \in 0 .. MaxLength /\ \A i \in 0 .. idx - 1 : i \in 0 .. MaxLength
  BY <1>2
<1>4. CASE StringEnd(c)
  <2>1. /\ mode' = "run" /\ idx' = 0 /\ length' = 0 /\ a0' = a0
        /\ buffer_int' = buffer_int /\ dest' = [dest EXCEPT ![idx] = 0]
    BY <1>4 DEF StringEnd
  <2>2. /\ dest' \in [0 .. MaxLength -> Bytes \cup {0}] /\ dest'[idx] = 0
        /\ \A i \in 0 .. idx - 1 : dest'[i] = dest[i] /\ dest'[i] # 0
    BY <1>2, <1>3, <2>1
  <2>3. TypeOK'
    BY <1>1, <1>2, <2>1, <2>2 DEF TypeOK
  <2>4. HookInv'
    BY <2>1, <2>3 DEF HookInv
  <2>5. CString(dest') = Cells(dest, idx)
    <3>1. CString(dest') = Cells(dest', idx)
      BY <1>3, <2>2, CStringIs
    <3>2. Cells(dest', idx) = Cells(dest, idx)
      BY <1>2, <2>2 DEF Cells
    <3> QED
      BY <3>1, <3>2
  <2>6. /\ Reading = "string" /\ Reading' = "nothing" /\ Room' = 0
        /\ Typed = Cells(dest, idx) /\ Typed' = <<>> /\ String' = Typed
    BY <1>2, <2>1, <2>5 DEF Reading, Reads, Room, Typed, String
  <2>8. c \in Line!Ends
    BY <1>4 DEF StringEnd, Newline, Line!Ends
  <2>7. Line!Answer(c)
    BY <1>1, <2>1, <2>6, <2>8 DEF Line!Answer, Reading, Room, Typed, String
  <2> QED
    BY <2>4, <2>7 DEF Line!Next
<1>5. CASE StringByte(c)
  <2>1. /\ mode' = "string" /\ idx' = idx + 1 /\ length' = length /\ a0' = a0
        /\ buffer_int' = buffer_int /\ dest' = [dest EXCEPT ![idx] = c]
        /\ c \notin Newline /\ c # 0 /\ idx < length
    BY <1>2, <1>5 DEF StringByte
  <2>2. /\ dest' \in [0 .. MaxLength -> Bytes \cup {0}] /\ dest'[idx] = c
        /\ \A i \in 0 .. idx - 1 : dest'[i] = dest[i] /\ dest'[i] # 0
    BY <1>2, <1>3, <2>1
  <2>3. TypeOK'
    BY <1>1, <1>2, <2>1, <2>2 DEF TypeOK
  <2>4. \A i \in 0 .. idx' - 1 : dest'[i] # 0
    <3>1. ASSUME NEW i \in 0 .. idx PROVE dest'[i] # 0
      <4>1. CASE i = idx
        BY <2>1, <2>2, <4>1
      <4>2. CASE i # idx
        BY <1>2, <2>2, <4>2
      <4> QED
        BY <4>1, <4>2
    <3>2. idx' - 1 = idx
      BY <1>2, <2>1
    <3> QED
      BY <3>1, <3>2
  <2>5. HookInv'
    BY <2>1, <2>3, <2>4 DEF HookInv
  <2>6. Cells(dest', idx + 1) = Append(Cells(dest, idx), c)
    <3>1. Extends(dest, dest', idx, c, Bytes \cup {0})
      <4>1. \A i \in 0 .. idx - 1 : dest[i] \in Bytes \cup {0}
        BY <1>2, <1>3
      <4> QED
        BY <1>2, <2>2, <4>1 DEF Extends
    <3> QED
      BY <3>1, CellsAppend
  <2>7. Len(Cells(dest, idx)) = idx
    BY <1>2 DEF Cells
  <2>8. c \notin {0} \cup Line!Ends
    BY <2>1 DEF Newline, Line!Ends
  <2>9. /\ Reading = "string" /\ Reading' = "string" /\ Room' = Room
        /\ Typed = Cells(dest, idx) /\ Typed' = Cells(dest', idx + 1)
        /\ String' = String
    BY <1>2, <2>1 DEF Reading, Reads, Room, Typed, String
  <2>10. Line!Accept(c)
    <3>1. Room = length
      BY <1>2, <2>1 DEF Room
    <3>2. Len(Typed) < Room
      BY <2>1, <2>7, <2>9, <3>1
    <3>3. Typed' = Append(Typed, c)
      BY <2>6, <2>9
    <3> QED
      BY <1>1, <2>1, <2>8, <2>9, <3>2, <3>3 DEF Line!Accept, Line!Acceptable, Reading, Room, Typed, String
  <2> QED
    BY <2>5, <2>10 DEF Line!Next
<1> QED
  BY <1>4, <1>5

\* read_char
LEMMA CharStep ==
  ASSUME HookInv, EcallInv', NEW c \in Bytes, CharByte(c)
  PROVE  HookInv' /\ [Line!Next]_Line!vars
<1>1. /\ fifo' \in Seq(Bytes) /\ Len(fifo') <= FIFO_LEN
      /\ UNCHANGED <<current_offset, ra, owned>> /\ Line!Take(c)
  BY PollType DEF CharByte
<1>2. /\ mode = "char" /\ mode' = "run" /\ c # 0 /\ a0' = c
      /\ UNCHANGED <<idx, buffer_int, dest, length>>
  BY DEF CharByte, Poll, input
<1>3. TypeOK'
  BY <1>1, <1>2 DEF HookInv, TypeOK
<1>4. HookInv'
  BY <1>2, <1>3 DEF HookInv
<1>5. /\ Reading = "char" /\ Reading' = "nothing" /\ Room' = 0
      /\ Typed = <<>> /\ Typed' = <<>> /\ String' = String
  BY <1>2 DEF Reading, Reads, Room, Typed, String, CString, Cells
<1>6. Line!Character(c)
  BY <1>1, <1>2, <1>5 DEF Line!Character, Reading, Room, Typed, String
<1> QED
  BY <1>4, <1>6 DEF Line!Next

LEMMA HookStep == HookInv /\ [Next]_vars => HookInv' /\ [Line!Next]_Line!vars
<1> SUFFICES ASSUME HookInv, [Next]_vars PROVE HookInv' /\ [Line!Next]_Line!vars
  OBVIOUS
<1>1. EcallInv'
  BY EcallStep DEF HookInv
<1> QED
  BY <1>1, UnseenStep, AskStep, SbrkAnswer, SkipStep, IntStep, StringStep, CharStep
  DEF Next, Program, Handles

\* Every variable has its type: the answers are words, the buffers hold bytes.
THEOREM EcallTypes == Spec => []TypeOK
<1>1. Init => HookInv
  BY HookInit
<1>2. HookInv /\ [Next]_vars => HookInv'
  BY HookStep
<1>3. HookInv => TypeOK
  BY DEF HookInv
<1> QED
  BY <1>1, <1>2, <1>3, PTL DEF Spec

\* A read takes the bytes of the FIFO one by one, drops only what has no place in
\* its answer, answers at the end of the line with what the others spell, the
\* number in a machine word, and leaves nothing behind for the next, whatever the
\* size of the buffers, of the word and of the lines (test_panic.c:79-175).
THEOREM ReadsAnswerTheLine == Spec => ImplementsLineInput
<1>1. Init => HookInv /\ Line!Init
  BY HookInit
<1>2. HookInv /\ [Next]_vars => HookInv' /\ [Line!Next]_Line!vars
  BY HookStep
<1> QED
  BY <1>1, <1>2, PTL DEF Spec, ImplementsLineInput, Line!Spec
=============================================================================
