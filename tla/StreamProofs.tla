---------------------------- MODULE StreamProofs ----------------------------
(***************************************************************************)
(* The serial functions implement ByteStream, for all bytes, lengths,      *)
(* targets and terminators. The first parts are about what both modules    *)
(* compute in their own way: numbers (atoi and parseInt multiply by ten    *)
(* where the abstract module weighs each digit by its place) and searches  *)
(* (strstr, findMulti and C strings where it looks at every place). Then   *)
(* an invariant says what the locals of a call hold, and every step of a   *)
(* call is one step of the abstract queue.                                 *)
(***************************************************************************)
EXTENDS SerialProofs, Recursion
-----------------------------------------------------------------------------
(* Numbers.                                                                *)

\* h[i] is what the digits D among the first i bytes of t spell.
Horner(h, t, D) ==
  /\ t \in Seq(Int)
  /\ h \in [0 .. Len(t) -> Int] /\ h[0] = 0
  /\ \A i \in 1 .. Len(t) :
       h[i] = IF t[i] \in D THEN h[i - 1] * 10 + (t[i] - 48) ELSE h[i - 1]

LEMMA HornerExists ==
  ASSUME NEW t \in Seq(Int), NEW D
  PROVE  \E h : Horner(h, t, D)
<1> DEFINE n == Len(t)
           step == [p \in (1 .. n) \X Int |->
                      IF t[p[1]] \in D THEN p[2] * 10 + (t[p[1]] - 48) ELSE p[2]]
<1>1. n \in Nat /\ \A i \in 1 .. n : t[i] \in Int
  OBVIOUS
<1>2. step \in [(1 .. n) \X Int -> Int] /\ 0 \in Int
  BY <1>1
<1>3. \A i \in 1 .. n : \A x \in Int :
        step[<<i, x>>] = IF t[i] \in D THEN x * 10 + (t[i] - 48) ELSE x
  OBVIOUS
<1> HIDE DEF step, n
<1>4. PICK h \in [0 .. n -> Int] : Comes(h, n, 0, step)
  BY <1>1, <1>2, RecursionExists
<1>5. ASSUME NEW i \in 1 .. n
      PROVE  h[i] = IF t[i] \in D THEN h[i - 1] * 10 + (t[i] - 48) ELSE h[i - 1]
  <2>1. h[i - 1] \in Int
    BY <1>1
  <2> QED
    BY <1>3, <1>4, <2>1 DEF Comes
<1> QED
  BY <1>4, <1>5 DEF Comes, Horner, n

\* Weighing every digit by its place gives the same number.
LEMMA SpeltIs ==
  ASSUME NEW t, NEW D, NEW h, Horner(h, t, D)
  PROVE  Stream!Spelt(t, D) = h[Len(t)]
<1> DEFINE n == Len(t)
           Places(f) == f = [k \in 0 .. n |->
             IF k = 0 THEN 1 ELSE IF t[n - k + 1] \in D THEN 10 * f[k - 1] ELSE f[k - 1]]
           P == CHOOSE f : Places(f)
           Sums(f) == f = [i \in 0 .. n |->
             IF i = 0 THEN 0 ELSE IF t[i] \in D THEN f[i - 1] + (t[i] - 48) * P[n - i] ELSE f[i - 1]]
           s == CHOOSE f : Sums(f)
<1>1. n \in Nat /\ \A i \in 1 .. n : t[i] \in Int
  BY DEF Horner
<1>2. Stream!Spelt(t, D) = s[n]
  BY DEF Stream!Spelt, P
<1>3. PICK f \in [0 .. n -> Int] :
         f[0] = 1 /\ \A k \in 1 .. n : f[k] = IF t[n - k + 1] \in D THEN 10 * f[k - 1] ELSE f[k - 1]
  <2> DEFINE step == [p \in (1 .. n) \X Int |-> IF t[n - p[1] + 1] \in D THEN 10 * p[2] ELSE p[2]]
  <2>1. step \in [(1 .. n) \X Int -> Int] /\ 1 \in Int
    OBVIOUS
  <2>2. \A i \in 1 .. n : \A x \in Int :
          step[<<i, x>>] = IF t[n - i + 1] \in D THEN 10 * x ELSE x
    OBVIOUS
  <2> HIDE DEF step, n
  <2>3. PICK f \in [0 .. n -> Int] : Comes(f, n, 1, step)
    BY <1>1, <2>1, RecursionExists
  <2>4. \A k \in 1 .. n : f[k - 1] \in Int
    BY <1>1
  <2> QED
    BY <2>2, <2>3, <2>4 DEF Comes
<1>4. Places(f)
  <2> HIDE DEF n
  <2>1. ASSUME NEW k \in 0 .. n
        PROVE  f[k] = IF k = 0 THEN 1 ELSE IF t[n - k + 1] \in D THEN 10 * f[k - 1] ELSE f[k - 1]
    BY <1>1, <1>3
  <2> QED
    BY <1>3, <2>1
<1>5. Places(P)
  BY <1>4
<1>6. P[0] = 1
      /\ \A k \in 1 .. n : P[k] = IF t[n - k + 1] \in D THEN 10 * P[k - 1] ELSE P[k - 1]
  <2> HIDE DEF P, n
  <2>1. \A k \in 0 .. n :
          P[k] = IF k = 0 THEN 1 ELSE IF t[n - k + 1] \in D THEN 10 * P[k - 1] ELSE P[k - 1]
    BY <1>5
  <2> QED
    BY <1>1, <2>1
<1>7. \A k \in 0 .. n : P[k] \in Int
  <2> HIDE DEF P, n
  <2> DEFINE S == {k \in Nat : P[k] \in Int}
  <2>1. Climbs(S, n)
    <3>1. 0 \in S
      BY <1>6
    <3>2. ASSUME NEW i \in 1 .. n, i - 1 \in S PROVE i \in S
      <4>1. P[i - 1] \in Int /\ i \in Nat
        BY <1>1, <3>2
      <4>2. P[i] = IF t[n - i + 1] \in D THEN 10 * P[i - 1] ELSE P[i - 1]
        BY <1>6
      <4>3. P[i] \in Int
        BY <4>1, <4>2
      <4> QED
        BY <4>1, <4>3
    <3> HIDE DEF S
    <3> QED
      BY <3>1, <3>2 DEF Climbs
  <2> HIDE DEF S
  <2>2. \A k \in 0 .. n : k \in S
    BY <1>1, <2>1, Climb
  <2> QED
    BY <2>2 DEF S
<1> HIDE DEF P
<1>8. PICK g \in [0 .. n -> Int] :
        g[0] = 0
        /\ \A i \in 1 .. n :
             g[i] = IF t[i] \in D THEN g[i - 1] + (t[i] - 48) * P[n - i] ELSE g[i - 1]
  <2> DEFINE step == [p \in (1 .. n) \X Int |->
                        IF t[p[1]] \in D THEN p[2] + (t[p[1]] - 48) * P[n - p[1]] ELSE p[2]]
  <2>1. ASSUME NEW i \in 1 .. n, NEW x \in Int PROVE x + (t[i] - 48) * P[n - i] \in Int
    <3>1. P[n - i] \in Int /\ t[i] \in Int
      BY <1>1, <1>7
    <3> QED
      BY <3>1
  <2>2. step \in [(1 .. n) \X Int -> Int] /\ 0 \in Int
    <3>1. ASSUME NEW p \in (1 .. n) \X Int
          PROVE  (IF t[p[1]] \in D THEN p[2] + (t[p[1]] - 48) * P[n - p[1]] ELSE p[2]) \in Int
      <4>1. p[1] \in 1 .. n /\ p[2] \in Int
        OBVIOUS
      <4> QED
        BY <2>1, <4>1
    <3> QED
      BY <3>1
  <2>3. \A i \in 1 .. n : \A x \in Int :
          step[<<i, x>>] = IF t[i] \in D THEN x + (t[i] - 48) * P[n - i] ELSE x
    OBVIOUS
  <2> HIDE DEF step, n
  <2>4. PICK g \in [0 .. n -> Int] : Comes(g, n, 0, step)
    BY <1>1, <2>2, RecursionExists
  <2>5. ASSUME NEW i \in 1 .. n
        PROVE  g[i] = IF t[i] \in D THEN g[i - 1] + (t[i] - 48) * P[n - i] ELSE g[i - 1]
    <3>1. g[i - 1] \in Int
      BY <1>1
    <3>2. g[i] = step[<<i, g[i - 1]>>]
      BY <2>4 DEF Comes
    <3>3. step[<<i, g[i - 1]>>] = IF t[i] \in D THEN g[i - 1] + (t[i] - 48) * P[n - i] ELSE g[i - 1]
      BY <2>3, <3>1
    <3> QED
      BY <3>2, <3>3
  <2>6. g[0] = 0
    BY <2>4 DEF Comes
  <2> QED
    BY <2>5, <2>6
<1>9. Sums(g)
  <2> HIDE DEF n
  <2>1. ASSUME NEW i \in 0 .. n
        PROVE  g[i] = IF i = 0 THEN 0
                      ELSE IF t[i] \in D THEN g[i - 1] + (t[i] - 48) * P[n - i] ELSE g[i - 1]
    BY <1>1, <1>8
  <2> QED
    BY <1>8, <2>1
<1>10. Sums(s)
  BY <1>9
<1>11. s[0] = 0
       /\ \A i \in 1 .. n :
            s[i] = IF t[i] \in D THEN s[i - 1] + (t[i] - 48) * P[n - i] ELSE s[i - 1]
  <2> HIDE DEF s, n
  <2>1. \A i \in 0 .. n :
          s[i] = IF i = 0 THEN 0
                 ELSE IF t[i] \in D THEN s[i - 1] + (t[i] - 48) * P[n - i] ELSE s[i - 1]
    BY <1>10
  <2> QED
    BY <1>1, <2>1
<1> HIDE DEF s
<1>12. h \in [0 .. n -> Int] /\ h[0] = 0
       /\ \A i \in 1 .. n : h[i] = IF t[i] \in D THEN h[i - 1] * 10 + (t[i] - 48) ELSE h[i - 1]
  BY DEF Horner, n
<1> HIDE DEF n
<1> DEFINE Same == {i \in 0 .. n : s[i] = h[i] * P[n - i]}
<1>13. 0 \in Same
  <2>1. P[n - 0] \in Int
    BY <1>1, <1>7
  <2>2. 0 * P[n - 0] = 0
    BY <2>1
  <2> QED
    BY <1>1, <1>11, <1>12, <2>2
<1>14. ASSUME NEW m \in 1 .. n, m - 1 \in Same
       PROVE  m \in Same
  <2>1. m - 1 \in 0 .. n /\ n - m \in 0 .. n
        /\ n - (m - 1) \in 1 .. n /\ n - (m - 1) - 1 = n - m /\ n - (n - (m - 1)) + 1 = m
    BY <1>1
  <2>2. s[m - 1] = h[m - 1] * P[n - (m - 1)]
    BY <1>14
  <2>3. P[n - (m - 1)] = IF t[m] \in D THEN 10 * P[n - m] ELSE P[n - m]
    BY <1>6, <2>1
  <2> DEFINE p == P[n - m]
             d == t[m] - 48
             x == h[m - 1]
  <2>4. p \in Int /\ d \in Int /\ x \in Int
    <3>1. p \in Int
      BY <1>7, <2>1
    <3>2. t[m] \in Int
      BY <1>1, <2>1
    <3>3. x \in Int
      BY <1>12, <2>1
    <3> QED
      BY <3>1, <3>2, <3>3
  <2>5. s[m] = h[m] * p
    <3>1. CASE t[m] \in D
      <4>1. s[m] = x * (10 * p) + d * p /\ h[m] = x * 10 + d
        BY <1>11, <1>12, <2>2, <2>3, <3>1
      <4> HIDE DEF p, d, x
      <4>2. (x * 10 + d) * p = x * (10 * p) + d * p
        BY <2>4
      <4> QED
        BY <4>1, <4>2
    <3>2. CASE t[m] \notin D
      BY <1>11, <1>12, <2>2, <2>3, <3>2
    <3> QED
      BY <3>1, <3>2
  <2> QED
    BY <1>14, <2>5
<1>15. \A i \in 0 .. n : i \in Same
  <2> HIDE DEF Same
  <2>1. Climbs(Same, n)
    BY <1>13, <1>14 DEF Climbs
  <2> QED
    BY <1>1, <2>1, Climb
<1>16. s[n] = h[n]
  <2>1. n \in 0 .. n /\ n - n = 0 /\ h[n] \in Int
    BY <1>1, <1>12
  <2>2. s[n] = h[n] * P[n - n]
    BY <1>15, <2>1
  <2>3. s[n] = h[n] * 1
    BY <1>6, <2>1, <2>2
  <2> QED
    BY <2>1, <2>3
<1> QED
  BY <1>2, <1>16 DEF n

\* A byte more: a digit counts for one, and the others for ten times as much.
LEMMA SpeltGrows ==
  ASSUME NEW t \in Seq(Int), NEW c \in Int, NEW D
  PROVE  /\ Stream!Spelt(t, D) \in Int
         /\ Stream!Spelt(Append(t, c), D)
              = IF c \in D THEN Stream!Spelt(t, D) * 10 + (c - 48) ELSE Stream!Spelt(t, D)
<1> DEFINE u == Append(t, c)
           n == Len(t)
<1>1. u \in Seq(Int) /\ Len(u) = n + 1 /\ u[n + 1] = c /\ \A i \in 1 .. n : u[i] = t[i]
  OBVIOUS
<1>2. n \in Nat
  OBVIOUS
<1> HIDE DEF u
<1>3. PICK g : Horner(g, u, D)
  BY <1>1, HornerExists
<1> DEFINE h == [i \in 0 .. n |-> g[i]]
<1>4. Horner(h, t, D)
  <2>1. g \in [0 .. n + 1 -> Int] /\ g[0] = 0
        /\ \A i \in 1 .. n + 1 : g[i] = IF u[i] \in D THEN g[i - 1] * 10 + (u[i] - 48) ELSE g[i - 1]
    BY <1>1, <1>3 DEF Horner
  <2>2. h \in [0 .. n -> Int] /\ h[0] = 0 /\ \A i \in 0 .. n : h[i] = g[i]
    BY <1>2, <2>1
  <2> HIDE DEF h
  <2>3. ASSUME NEW i \in 1 .. n
        PROVE  h[i] = IF t[i] \in D THEN h[i - 1] * 10 + (t[i] - 48) ELSE h[i - 1]
    <3>1. i \in 1 .. n + 1 /\ i \in 0 .. n /\ i - 1 \in 0 .. n /\ u[i] = t[i]
      BY <1>1, <1>2
    <3> QED
      BY <2>1, <2>2, <3>1
  <2> QED
    BY <2>2, <2>3 DEF Horner
<1>5. Stream!Spelt(t, D) = g[n] /\ g[n] \in Int
  <2>1. Stream!Spelt(t, D) = h[n]
    BY <1>4, SpeltIs
  <2>2. n \in 0 .. Len(u)
    BY <1>1, <1>2
  <2> QED
    BY <1>2, <1>3, <2>1, <2>2 DEF Horner
<1>6. Stream!Spelt(u, D) = g[n + 1]
  BY <1>1, <1>3, SpeltIs
<1>7. g[n + 1] = IF c \in D THEN g[n] * 10 + (c - 48) ELSE g[n]
  <2>1. n + 1 \in 1 .. Len(u) /\ (n + 1) - 1 = n
    BY <1>1, <1>2
  <2> QED
    BY <1>1, <1>3, <2>1 DEF Horner
<1> QED
  BY <1>5, <1>6, <1>7 DEF u

LEMMA SpeltNone ==
  ASSUME NEW D
  PROVE  Stream!Spelt(<<>>, D) = 0
<1>1. <<>> \in Seq(Int) /\ Len(<<>>) = 0
  OBVIOUS
<1>2. PICK h : Horner(h, <<>>, D)
  BY <1>1, HornerExists
<1> QED
  BY <1>1, <1>2, SpeltIs DEF Horner

\* What atoi makes of a line is its sign and the number behind it.
LEMMA AtoiIs ==
  ASSUME NEW s \in Seq(Int), NEW c \in Newline
  PROVE  atoi(s) = Stream!Signed(Append(s, c))
<1> DEFINE u == Append(s, c)
           L == Len(s)
           start == IF s # <<>> /\ s[1] = Minus THEN 1 ELSE 0
           Last(n) == /\ \A k \in start + 1 .. n : u[k] \in Digit
                      /\ n < Len(u) => u[n + 1] \notin Digit
           end == CHOOSE n \in start .. Len(u) : Last(n)
           d == SubSeq(u, start + 1, end)
           Sums(f) == f = [i \in 0 .. L |->
             IF i <= start THEN 0
             ELSE IF \A k \in start + 1 .. i : s[k] \in Digit THEN f[i - 1] * 10 + s[i] - 48
             ELSE f[i - 1]]
           v == CHOOSE f : Sums(f)
<1>1. /\ L \in Nat /\ \A i \in 1 .. L : s[i] \in Int
      /\ u \in Seq(Int) /\ Len(u) = L + 1 /\ u[L + 1] = c /\ \A i \in 1 .. L : u[i] = s[i]
      /\ c \in Int /\ c \notin Digit /\ c # Minus
      /\ s # <<>> <=> L # 0
      /\ u # <<>>
  BY DEF Newline, Digit, Minus
<1>2. start = (IF u # <<>> /\ u[1] = Minus THEN 1 ELSE 0) /\ start \in 0 .. L
  <2>1. CASE L = 0
    BY <1>1, <2>1
  <2>2. CASE L # 0
    <3>1. 1 \in 1 .. L
      BY <1>1, <2>2
    <3> HIDE DEF u
    <3>2. u[1] = s[1]
      BY <1>1, <3>1
    <3> QED
      BY <1>1, <3>1, <3>2
  <2> QED
    BY <2>1, <2>2
<1>3. atoi(s) = IF start = 1 THEN -v[L] ELSE v[L]
  BY DEF atoi, v
<1>4. Stream!Signed(u) = IF start = 1 THEN -Stream!Spelt(d, Digit) ELSE Stream!Spelt(d, Digit)
  <2> DEFINE start0 == IF u # <<>> /\ u[1] = Minus THEN 1 ELSE 0
             end0 == CHOOSE n \in start0 .. Len(u) :
                       /\ \A k \in start0 + 1 .. n : u[k] \in Digit
                       /\ n < Len(u) => u[n + 1] \notin Digit
             d0 == SubSeq(u, start0 + 1, end0)
  <2>1. Stream!Signed(u) = IF start0 = 1 THEN -Stream!Spelt(d0, Digit) ELSE Stream!Spelt(d0, Digit)
    BY DEF Stream!Signed, Stream!Minus, Stream!Digit, Minus, Digit
  <2>2. start0 = start
    BY <1>2
  <2> HIDE DEF start0, start
  <2>3. d0 = d
    BY <2>2
  <2> HIDE DEF d0, d
  <2> QED
    BY <2>1, <2>2, <2>3
<1> HIDE DEF u, start
<1>5. \E n \in start .. Len(u) : Last(n)
  <2> DEFINE T == {n \in start .. L : u[n + 1] \notin Digit}
  <2>1. L \in T /\ T \subseteq Nat
    BY <1>1, <1>2
  <2>2. PICK n \in T : \A m \in T : n <= m
    <3> HIDE DEF T
    <3> QED
      BY <2>1, Smallest
  <2>3. ASSUME NEW k \in start + 1 .. n PROVE u[k] \in Digit
    <3>1. k - 1 \in start .. L /\ k - 1 < n /\ (k - 1) + 1 = k
      BY <1>1, <1>2
    <3>2. k - 1 \notin T
      <4> HIDE DEF T
      <4> QED
        BY <1>1, <1>2, <2>1, <2>2, <3>1
    <3> QED
      BY <3>1, <3>2
  <2>4. n \in start .. Len(u) /\ Last(n)
    BY <1>1, <1>2, <2>3
  <2> QED
    BY <2>4
<1>6. end \in start .. Len(u) /\ Last(end)
  <2> HIDE DEF Last
  <2> QED
    BY <1>5
<1> HIDE DEF end
<1>7. end \in start .. L
  <2>1. end # L + 1
    <3> SUFFICES ASSUME end = L + 1 PROVE FALSE
      OBVIOUS
    <3>1. L + 1 \in start + 1 .. end
      BY <1>1, <1>2
    <3> QED
      BY <1>1, <1>6, <3>1
  <2> QED
    BY <1>1, <1>2, <1>6, <2>1
<1>8. /\ d \in Seq(Int) /\ Len(d) = end - start
      /\ \A j \in 1 .. end - start : d[j] = s[start + j] /\ d[j] \in Digit
  <2>1. start + 1 \in 1 .. Len(u) + 1 /\ end \in start .. Len(u)
    BY <1>1, <1>2, <1>7
  <2>2. /\ d \in Seq(Int) /\ Len(d) = IF start + 1 <= end THEN end - (start + 1) + 1 ELSE 0
        /\ \A j \in 1 .. end - (start + 1) + 1 : d[j] = u[(start + 1) + j - 1]
    <3> DEFINE m == start + 1
    <3>1. m \in Int /\ end \in Int /\ m \in 1 .. Len(u) + 1 /\ end \in m - 1 .. Len(u)
      BY <1>1, <1>2, <1>7
    <3> HIDE DEF m
    <3>2. \A i \in m .. end : u[i] \in Int
      BY <1>1, <3>1
    <3>3. /\ SubSeq(u, m, end) \in Seq(Int) /\ Len(SubSeq(u, m, end)) = IF m <= end THEN end - m + 1 ELSE 0
          /\ \A j \in 1 .. end - m + 1 : SubSeq(u, m, end)[j] = u[m + j - 1]
      BY <3>1, <3>2, SubSeqProperties
    <3> QED
      BY <3>3 DEF m, d
  <2>3. Len(d) = end - start
    BY <1>2, <1>7, <2>2
  <2>4. ASSUME NEW j \in 1 .. end - start PROVE d[j] = s[start + j] /\ d[j] \in Digit
    <3>1. /\ j \in 1 .. end - (start + 1) + 1 /\ (start + 1) + j - 1 = start + j
          /\ start + j \in start + 1 .. end /\ start + j \in 1 .. L
      BY <1>1, <1>2, <1>7
    <3>2. d[j] = u[start + j]
      BY <2>2, <3>1
    <3> QED
      BY <1>1, <1>6, <3>1, <3>2
  <2> QED
    BY <2>2, <2>3, <2>4
<1> HIDE DEF d
<1>9. PICK h : Horner(h, d, Digit)
  BY <1>8, HornerExists
<1>10. /\ h[0] = 0 /\ \A j \in 0 .. end - start : h[j] \in Int
       /\ \A j \in 1 .. end - start : h[j] = h[j - 1] * 10 + (s[start + j] - 48)
  BY <1>8, <1>9 DEF Horner
<1>11. Stream!Spelt(d, Digit) = h[end - start]
  BY <1>8, <1>9, SpeltIs
<1>12. \E f : Sums(f)
  <2> DEFINE step == [p \in (1 .. L) \X Int |->
                        IF p[1] <= start THEN 0
                        ELSE IF \A k \in start + 1 .. p[1] : s[k] \in Digit THEN p[2] * 10 + s[p[1]] - 48
                        ELSE p[2]]
  <2>1. step \in [(1 .. L) \X Int -> Int] /\ 0 \in Int
    <3>1. ASSUME NEW p \in (1 .. L) \X Int
          PROVE  (IF p[1] <= start THEN 0
                  ELSE IF \A k \in start + 1 .. p[1] : s[k] \in Digit THEN p[2] * 10 + s[p[1]] - 48
                  ELSE p[2]) \in Int
      <4>1. p[2] \in Int /\ s[p[1]] \in Int
        BY <1>1
      <4> QED
        BY <4>1
    <3> QED
      BY <3>1
  <2>2. \A i \in 1 .. L : \A x \in Int :
          step[<<i, x>>] = IF i <= start THEN 0
                           ELSE IF \A k \in start + 1 .. i : s[k] \in Digit THEN x * 10 + s[i] - 48
                           ELSE x
    OBVIOUS
  <2> HIDE DEF step, L
  <2>3. PICK f \in [0 .. L -> Int] : Comes(f, L, 0, step)
    BY <1>1, <2>1, RecursionExists
  <2>4. ASSUME NEW i \in 0 .. L
        PROVE  f[i] = IF i <= start THEN 0
                      ELSE IF \A k \in start + 1 .. i : s[k] \in Digit THEN f[i - 1] * 10 + s[i] - 48
                      ELSE f[i - 1]
    <3>1. CASE i = 0
      BY <1>2, <2>3, <3>1 DEF Comes
    <3>2. CASE i # 0
      <4>1. i \in 1 .. L /\ f[i - 1] \in Int
        BY <1>1, <3>2
      <4>2. f[i] = step[<<i, f[i - 1]>>]
        BY <2>3, <4>1 DEF Comes
      <4> QED
        BY <2>2, <4>1, <4>2
    <3> QED
      BY <3>1, <3>2
  <2>5. f = [i \in 0 .. L |-> f[i]]
    OBVIOUS
  <2>6. Sums(f)
    BY <2>4, <2>5
  <2> QED
    BY <2>6
<1>13. Sums(v)
  BY <1>12
<1>14. \A i \in 0 .. L :
         v[i] = IF i <= start THEN 0
                ELSE IF \A k \in start + 1 .. i : s[k] \in Digit THEN v[i - 1] * 10 + s[i] - 48
                ELSE v[i - 1]
  <2> HIDE DEF v, L
  <2> QED
    BY <1>13
<1> HIDE DEF v, L, Sums
<1> DEFINE Goal(i) == IF i <= start THEN 0 ELSE IF i <= end THEN h[i - start] ELSE h[end - start]
           Same == {i \in 0 .. L : v[i] = Goal(i)}
<1>15. 0 \in Same
  <2>1. 0 \in 0 .. L /\ 0 <= start
    BY <1>1, <1>2
  <2> QED
    BY <1>14, <2>1
<1>16. ASSUME NEW i \in 1 .. L, i - 1 \in Same
       PROVE  i \in Same
  <2>1. /\ i \in 0 .. L /\ start \in Nat /\ end \in Nat /\ start <= end /\ i \in Nat
        /\ s[i] \in Int
    BY <1>1, <1>2, <1>7
  <2>2. v[i - 1] = Goal(i - 1)
    BY <1>16
  <2>3. CASE i <= start
    BY <1>14, <2>1, <2>3
  <2>4. CASE i > start /\ i <= end
    <3>1. i - start \in 1 .. end - start /\ start + (i - start) = i /\ (i - start) - 1 = (i - 1) - start
          /\ (i - 1) - start \in 0 .. end - start
      BY <2>1, <2>4
    <3>2. \A k \in start + 1 .. i : s[k] \in Digit
      <4> SUFFICES ASSUME NEW k \in start + 1 .. i PROVE s[k] \in Digit
        OBVIOUS
      <4>1. k - start \in 1 .. end - start /\ start + (k - start) = k
        BY <2>1, <2>4
      <4> QED
        BY <1>8, <4>1
    <3>3. v[i - 1] = h[(i - 1) - start]
      <4>1. CASE i - 1 = start
        BY <1>10, <2>1, <2>2, <4>1
      <4>2. CASE i - 1 # start
        BY <2>1, <2>2, <2>4, <4>2
      <4> QED
        BY <4>1, <4>2
    <3>4. v[i] = v[i - 1] * 10 + s[i] - 48
      BY <1>14, <2>1, <2>4, <3>2
    <3>5. h[i - start] = h[(i - 1) - start] * 10 + (s[i] - 48) /\ h[(i - 1) - start] \in Int
      BY <1>10, <3>1
    <3>6. v[i] = h[i - start]
      BY <2>1, <3>3, <3>4, <3>5
    <3> QED
      BY <2>1, <2>4, <3>6
  <2>5. CASE i > end
    <3>1. end + 1 \in start + 1 .. i /\ end < L /\ end + 1 \in 1 .. L
      BY <1>1, <2>1, <2>5
    <3>2. s[end + 1] \notin Digit
      <4>1. u[end + 1] \notin Digit
        BY <1>1, <1>6, <2>1, <3>1
      <4> QED
        BY <1>1, <3>1, <4>1
    <3>3. v[i] = v[i - 1]
      BY <1>14, <2>1, <2>5, <3>1, <3>2
    <3>4. v[i - 1] = h[end - start]
      <4>1. CASE i - 1 > end
        BY <2>1, <2>2, <4>1
      <4>2. CASE i - 1 = end /\ end > start
        BY <2>1, <2>2, <4>2
      <4>3. CASE i - 1 = end /\ end = start
        <5>1. end - start = 0
          BY <2>1, <4>3
        <5> QED
          BY <1>10, <2>1, <2>2, <4>3, <5>1
      <4> QED
        BY <2>1, <2>5, <4>1, <4>2, <4>3
    <3> QED
      BY <2>1, <2>5, <3>3, <3>4
  <2> QED
    BY <2>1, <2>3, <2>4, <2>5
<1>17. \A i \in 0 .. L : i \in Same
  <2> HIDE DEF Same
  <2>1. Climbs(Same, L)
    BY <1>15, <1>16 DEF Climbs
  <2> QED
    BY <1>1, <2>1, Climb
<1>18. v[L] = h[end - start]
  <2>1. L \in 0 .. L /\ end <= L /\ start <= end /\ start \in Nat /\ end \in Nat
    BY <1>1, <1>2, <1>7
  <2>2. v[L] = Goal(L)
    BY <1>17, <2>1
  <2>3. CASE L <= start
    <3>1. end - start = 0
      BY <1>1, <2>1, <2>3
    <3> QED
      BY <1>10, <2>2, <2>3, <3>1
  <2>4. CASE L > start
    <3>1. CASE L = end
      BY <1>1, <2>1, <2>2, <2>4, <3>1
    <3>2. CASE end < L
      <4>1. ~ (L <= start) /\ ~ (L <= end)
        BY <1>1, <2>1, <2>4, <3>2
      <4> QED
        BY <2>2, <4>1
    <3> QED
      BY <1>1, <2>1, <3>1, <3>2
  <2> QED
    BY <1>1, <2>1, <2>3, <2>4
<1> QED
  BY <1>3, <1>4, <1>11, <1>18 DEF u
-----------------------------------------------------------------------------
(* Searching.                                                              *)

LEMMA Prefix ==
  ASSUME NEW s \in Seq(Bytes), NEW n \in 0 .. Len(s)
  PROVE  /\ SubSeq(s, 1, n) \in Seq(Bytes) /\ Len(SubSeq(s, 1, n)) = n
         /\ \A k \in 1 .. n : SubSeq(s, 1, n)[k] = s[k]
         /\ SubSeq(s, 1, Len(s)) = s
         /\ \A c \in Bytes : SubSeq(Append(s, c), 1, n) = SubSeq(s, 1, n)
<1>1. SubSeq(s, 1, n) \in Seq(Bytes) /\ Len(SubSeq(s, 1, n)) = n
  OBVIOUS
<1>2. \A k \in 1 .. n : SubSeq(s, 1, n)[k] = s[k]
  OBVIOUS
<1>3. SubSeq(s, 1, Len(s)) = s
  OBVIOUS
<1>4. ASSUME NEW c \in Bytes PROVE SubSeq(Append(s, c), 1, n) = SubSeq(s, 1, n)
  <2> DEFINE u == Append(s, c)
  <2>1. u \in Seq(Bytes) /\ n \in 0 .. Len(u) /\ \A k \in 1 .. n : u[k] = s[k]
    OBVIOUS
  <2> HIDE DEF u
  <2>2. SubSeq(u, 1, n) \in Seq(Bytes) /\ Len(SubSeq(u, 1, n)) = n
        /\ \A k \in 1 .. n : SubSeq(u, 1, n)[k] = u[k]
    BY <2>1
  <2>3. SubSeq(u, 1, n) = SubSeq(s, 1, n)
    BY <1>1, <1>2, <2>1, <2>2, SeqEqual
  <2> QED
    BY <2>3 DEF u
<1> QED
  BY <1>1, <1>2, <1>3, <1>4

\* What ends with the target has it somewhere.
LEMMA EndsOccurs ==
  ASSUME NEW t \in Seq(Bytes), NEW s \in Seq(Bytes), Stream!Ends(t, s)
  PROVE  Stream!Occurs(t, s)
<1>1. Len(s) \in 0 .. Len(s) /\ SubSeq(s, 1, Len(s)) = s
  OBVIOUS
<1> QED
  BY <1>1 DEF Stream!Occurs

\* One byte more can only put it at the end.
LEMMA OccursGrows ==
  ASSUME NEW t \in Seq(Bytes), NEW s \in Seq(Bytes), NEW c \in Bytes,
         ~Stream!Occurs(t, s), ~Stream!Ends(t, Append(s, c))
  PROVE  ~Stream!Occurs(t, Append(s, c))
<1> DEFINE u == Append(s, c)
<1> SUFFICES ASSUME NEW n \in 0 .. Len(u), Stream!Ends(t, SubSeq(u, 1, n)) PROVE FALSE
  BY DEF Stream!Occurs
<1>1. u \in Seq(Bytes) /\ Len(u) = Len(s) + 1 /\ Len(s) \in Nat
  OBVIOUS
<1>2. CASE n <= Len(s)
  <2>1. n \in 0 .. Len(s)
    BY <1>1, <1>2
  <2>2. SubSeq(u, 1, n) = SubSeq(s, 1, n)
    BY <2>1, Prefix
  <2> QED
    BY <2>1, <2>2 DEF Stream!Occurs
<1>3. CASE n > Len(s)
  <2>1. n = Len(u)
    BY <1>1, <1>3
  <2>2. SubSeq(u, 1, n) = u
    <3> HIDE DEF u
    <3> QED
      BY <1>1, <2>1
  <2> QED
    BY <2>2
<1> QED
  BY <1>1, <1>2, <1>3

\* strstr finds the target wherever it is.
LEMMA StrstrFinds ==
  ASSUME NEW t \in Seq(Bytes), NEW s \in Seq(Bytes)
  PROVE  strstr(s, t) <=> Stream!Occurs(t, s)
<1> DEFINE m == Len(t)
           L == Len(s)
           At(n) == \A k \in 1 .. m : t[k] = s[n + k]
<1>1. m \in Nat /\ L \in Nat
  OBVIOUS
<1>2. ASSUME NEW n \in 0 .. L - m
      PROVE  SubSeq(s, n + 1, n + m) = t <=> At(n)
  <2> DEFINE a == n + 1
             b == n + m
             u == SubSeq(s, a, b)
  <2>1. a \in Int /\ b \in Int /\ \A i \in a .. b : i \in 1 .. L
    BY <1>1
  <2>2. \A i \in a .. b : s[i] \in Bytes
    BY <2>1
  <2> HIDE DEF a, b
  <2>3. /\ u \in Seq(Bytes) /\ Len(u) = IF a <= b THEN b - a + 1 ELSE 0
        /\ \A k \in 1 .. b - a + 1 : u[k] = s[a + k - 1]
    BY <2>1, <2>2, SubSeqProperties
  <2> HIDE DEF u
  <2>4. Len(u) = m
    BY <1>1, <2>3 DEF a, b
  <2>5. \A k \in 1 .. m : u[k] = s[n + k]
    <3> SUFFICES ASSUME NEW k \in 1 .. m PROVE u[k] = s[n + k]
      OBVIOUS
    <3>1. k \in 1 .. b - a + 1 /\ a + k - 1 = n + k
      BY <1>1 DEF a, b
    <3> QED
      BY <2>3, <3>1
  <2>6. At(n) => u = t
    BY <2>3, <2>4, <2>5, SeqEqual
  <2>7. u = t => At(n)
    BY <2>5
  <2> QED
    BY <2>6, <2>7 DEF u, a, b
<1>3. ASSUME NEW n \in 0 .. L
      PROVE  Stream!Ends(t, SubSeq(s, 1, n)) <=> m <= n /\ At(n - m)
  <2> DEFINE u == SubSeq(s, 1, n)
  <2>1. Len(u) = n /\ \A k \in 1 .. n : u[k] = s[k]
    BY Prefix
  <2> HIDE DEF u
  <2>2. m <= n => \A k \in 1 .. m : u[n - m + k] = s[n - m + k]
    BY <1>1, <2>1
  <2> QED
    BY <2>1, <2>2 DEF Stream!Ends, u
<1>4. ASSUME strstr(s, t) PROVE Stream!Occurs(t, s)
  <2>1. PICK n \in 0 .. L - m : SubSeq(s, n + 1, n + m) = t
    BY <1>4 DEF strstr
  <2>2. At(n) /\ n + m \in 0 .. L /\ m <= n + m /\ (n + m) - m = n
    BY <1>1, <1>2, <2>1
  <2> DEFINE e == n + m
  <2>3. e \in 0 .. L /\ m <= e /\ At(e - m)
    BY <2>2
  <2> HIDE DEF e
  <2>4. Stream!Ends(t, SubSeq(s, 1, e))
    BY <1>3, <2>3
  <2> QED
    BY <2>3, <2>4 DEF Stream!Occurs
<1>5. ASSUME Stream!Occurs(t, s) PROVE strstr(s, t)
  <2>1. PICK n \in 0 .. L : Stream!Ends(t, SubSeq(s, 1, n))
    BY <1>5 DEF Stream!Occurs
  <2> DEFINE e == n - m
  <2>2. m <= n /\ At(e)
    BY <1>3, <2>1
  <2>3. e \in 0 .. L - m
    BY <1>1, <2>2
  <2> HIDE DEF e
  <2>4. SubSeq(s, e + 1, e + m) = t
    BY <1>2, <2>2, <2>3
  <2> QED
    BY <2>3, <2>4 DEF strstr
<1> QED
  BY <1>4, <1>5

\* The first n bytes of s are those before the first c.
Before(c, s, n) ==
  /\ n \in 0 .. Len(s) /\ (n < Len(s) => s[n + 1] = c)
  /\ \A k \in 1 .. n : s[k] # c

LEMMA UpToIs ==
  ASSUME NEW s \in Seq(Bytes), NEW c, NEW n, Before(c, s, n)
  PROVE  Stream!UpTo(c, s) = SubSeq(s, 1, n)
<1> DEFINE P(m) == (m < Len(s) => s[m + 1] = c) /\ \A k \in 1 .. m : s[k] # c
<1>1. n \in 0 .. Len(s) /\ P(n) /\ Len(s) \in Nat
  BY DEF Before
<1>2. ASSUME NEW m \in 0 .. Len(s), P(m) PROVE m = n
  <2>1. CASE m < n
    <3>1. m + 1 \in 1 .. n /\ m < Len(s)
      BY <1>1, <2>1
    <3> QED
      BY <1>1, <1>2, <3>1
  <2>2. CASE n < m
    <3>1. n + 1 \in 1 .. m /\ n < Len(s)
      BY <1>1, <2>2
    <3> QED
      BY <1>1, <1>2, <3>1
  <2> QED
    BY <1>1, <2>1, <2>2
<1>3. (CHOOSE m \in 0 .. Len(s) : P(m)) = n
  <2> HIDE DEF P
  <2> QED
    BY <1>1, <1>2
<1> QED
  BY <1>3 DEF Stream!UpTo

\* C strings end before the first zero.
LEMMA CStringIs ==
  ASSUME NEW s \in Seq(Bytes)
  PROVE  CString(s) = Stream!UpTo(0, s) /\ CString(s) \in Seq(Bytes)
<1> DEFINE stop == {n \in 1 .. Len(s) : s[n] = 0}
<1>0. Len(s) \in Nat
  OBVIOUS
<1>1. CASE stop = {}
  <2>1. CString(s) = s
    BY <1>1 DEF CString
  <2>2. Before(0, s, Len(s))
    BY <1>0, <1>1 DEF Before
  <2>3. Stream!UpTo(0, s) = SubSeq(s, 1, Len(s))
    BY <2>2, UpToIs
  <2> QED
    BY <2>1, <2>3
<1>2. CASE stop # {}
  <2> DEFINE P(n) == \A m \in stop : n <= m
             z == CHOOSE n \in stop : P(n)
  <2>1. stop \subseteq Nat
    BY <1>0
  <2>2. \E n \in stop : P(n)
    <3> HIDE DEF stop
    <3> QED
      BY <1>2, <2>1, Smallest
  <2>3. z \in stop /\ P(z)
    <3> HIDE DEF stop, P
    <3> QED
      BY <2>2
  <2>4. CString(s) = SubSeq(s, 1, z - 1)
    BY <1>2 DEF CString
  <2> HIDE DEF z
  <2>5. z \in 1 .. Len(s) /\ s[z] = 0
    BY <2>3
  <2>6. ASSUME NEW k \in 1 .. z - 1 PROVE s[k] # 0
    <3>1. k \in 1 .. Len(s) /\ ~ (z <= k)
      BY <1>0, <2>5
    <3> QED
      BY <2>3, <3>1
  <2> DEFINE n == z - 1
  <2>7. n \in 0 .. Len(s) /\ n + 1 = z /\ \A k \in 1 .. n : s[k] # 0
    BY <1>0, <2>5, <2>6
  <2> HIDE DEF n
  <2>8. Before(0, s, n)
    BY <2>5, <2>7 DEF Before
  <2>9. Stream!UpTo(0, s) = SubSeq(s, 1, n) /\ SubSeq(s, 1, n) \in Seq(Bytes)
    BY <2>7, <2>8, Prefix, UpToIs
  <2> QED
    BY <2>4, <2>9 DEF n
<1> QED
  BY <1>1, <1>2

\* A text without the terminator is what comes before one that follows it.
LEMMA UpToEnd ==
  ASSUME NEW s \in Seq(Bytes), NEW c \in Bytes, \A k \in 1 .. Len(s) : s[k] # c
  PROVE  Stream!UpTo(c, s) = s /\ Stream!UpTo(c, Append(s, c)) = s
<1> DEFINE L == Len(s)
           u == Append(s, c)
<1>1. /\ L \in Nat /\ u \in Seq(Bytes) /\ Len(u) = L + 1 /\ u[L + 1] = c
      /\ \A k \in 1 .. L : u[k] = s[k]
  OBVIOUS
<1>2. SubSeq(s, 1, L) = s /\ SubSeq(u, 1, L) = SubSeq(s, 1, L)
  BY <1>1, Prefix
<1> HIDE DEF u
<1>3. Before(c, s, L) /\ Before(c, u, L)
  BY <1>1 DEF Before
<1>4. Stream!UpTo(c, s) = s
  BY <1>2, <1>3, UpToIs
<1>5. Stream!UpTo(c, u) = s
  BY <1>1, <1>2, <1>3, UpToIs
<1> QED
  BY <1>4, <1>5 DEF u
-----------------------------------------------------------------------------
(* What the abstract queue of bytes makes of a call.                       *)

\* A call without its locals.
View ==
  [f \in DOMAIN call \ (Locals \cup IF call.op = "findUntil" THEN {"length"} ELSE {}) |-> call[f]]

LEMMA ViewIs ==
  ASSUME call \in Calls
  PROVE  /\ View.op = call.op
         /\ View = Idle <=> call.op = "none"
         /\ call.op \in {"bytes", "until"} => View.length = call.length
         /\ call.op \in {"until", "findUntil"} => View.end = call.end
         /\ call.op \in {"find", "findUntil"} => View.target = call.target
         /\ call.op = "parse" => View.lookahead = call.lookahead /\ View.ignore = call.ignore
         /\ call.op = "ecall_string" => View.size = call.size
<1> DEFINE Seen == DOMAIN call \ (Locals \cup IF call.op = "findUntil" THEN {"length"} ELSE {})
<1>1. \A f \in Seen : View[f] = call[f]
  BY DEF View
<1>2. "op" \in Seen
  BY DEF Locals, Calls
<1>3. View.op = call.op
  BY <1>1, <1>2
<1>4. View = Idle <=> call.op = "none"
  <2>1. call.op = "none" => call = Idle
    BY DEF Calls, Idle
  <2>2. call = Idle => View = Idle
    BY DEF View, Idle, Locals
  <2>3. View = Idle => call.op = "none"
    BY <1>3 DEF Idle
  <2> QED
    BY <2>1, <2>2, <2>3
<1>5. call.op \in {"bytes", "until"} => "length" \in Seen
  BY DEF Locals, Calls
<1>6. call.op \in {"until", "findUntil"} => "end" \in Seen
  BY DEF Locals, Calls
<1>7. call.op \in {"find", "findUntil"} => "target" \in Seen
  BY DEF Locals, Calls
<1>8. call.op = "parse" => "lookahead" \in Seen /\ "ignore" \in Seen
  BY DEF Locals, Calls
<1>9. call.op = "ecall_string" => "size" \in Seen
  BY DEF Locals, Calls
<1> HIDE DEF Seen
<1> QED
  BY <1>1, <1>3, <1>4, <1>5, <1>6, <1>7, <1>8, <1>9

\* A step that changes only locals is none of the abstract call.
LEMMA ViewStays ==
  ASSUME call \in Calls,
         \/ \E x : call' = [call EXCEPT !.buffer = x]
         \/ \E x : call' = [call EXCEPT !.index = x]
         \/ \E c : call' = Counted(c)
         \/ call' = call
  PROVE  View' = View
<1>1. DOMAIN call' = DOMAIN call /\ \A f \in DOMAIN call \ Locals : call'[f] = call[f]
  BY DEF Counted, Locals
<1>2. "op" \in DOMAIN call \ Locals
  BY DEF Calls, Locals
<1>3. call'.op = call.op
  BY <1>1, <1>2
<1> QED
  BY <1>1, <1>3 DEF View

LEMMA ViewOver == call' = Idle => View' = Idle /\ View' = Stream!Idle
BY DEF View, Idle, Locals, Stream!Idle

LEMMA CompleteIs ==
  ASSUME call \in Calls, NEW t
  PROVE  /\ call.op \in {"read", "peek", "ecall_char"} => (Stream!Complete(t) <=> Len(t) = 1)
         /\ call.op = "bytes" => (Stream!Complete(t) <=> Len(t) = call.length)
         /\ call.op \in {"until", "findUntil"} =>
              (Stream!Complete(t) <=> Len(t) = call.length \/ Stream!LastIn(t, {call.end}))
         /\ call.op = "find" => (Stream!Complete(t) <=> Stream!Ends(call.target, t))
         /\ call.op = "ecall_int" =>
              (Stream!Complete(t) <=> Len(t) = INT_CHARS \/ Stream!LastIn(t, Newline))
         /\ call.op = "ecall_string" =>
              (Stream!Complete(t) <=> Len(t) = call.size + 1 \/ Stream!LastIn(t, Newline))
         /\ call.op = "parse" => ~Stream!Complete(t)
<1> DEFINE v == View
<1>1. Stream!Complete(t) =
        CASE v.op \in {"read", "peek", "ecall_char"} -> Len(t) = 1
          [] v.op = "bytes" -> Len(t) = v.length
          [] v.op = "until" -> Len(t) = v.length \/ Stream!LastIn(t, {v.end})
          [] v.op = "findUntil" -> Len(t) = FIND_BUFFER - 1 \/ Stream!LastIn(t, {v.end})
          [] v.op = "find" -> Stream!Ends(v.target, t)
          [] v.op = "ecall_int" -> Len(t) = INT_CHARS \/ Stream!LastIn(t, Newline)
          [] v.op = "ecall_string" -> Len(t) = v.size + 1 \/ Stream!LastIn(t, Newline)
          [] OTHER -> FALSE
  BY DEF Stream!Complete, View, Stream!EndOfLine, Newline
<1>2. call.op = "findUntil" => call.length = FIND_BUFFER - 1
  BY CallShapes
<1> HIDE DEF v
<1>3. /\ v.op = call.op
      /\ call.op \in {"bytes", "until"} => v.length = call.length
      /\ call.op \in {"until", "findUntil"} => v.end = call.end
      /\ call.op \in {"find", "findUntil"} => v.target = call.target
      /\ call.op = "ecall_string" => v.size = call.size
  BY ViewIs DEF v
<1> QED
  BY <1>1, <1>2, <1>3

LEMMA PartIs ==
  ASSUME call \in Calls, NEW c
  PROVE  /\ call.op \in {"read", "bytes", "until", "findUntil", "find"} => Stream!Part(c)
         /\ call.op = "peek" => ~Stream!Part(c)
         /\ call.op = "parse" /\ taken = <<>> => (Stream!Part(c) <=> c \in Digit \cup {Minus})
         /\ call.op = "parse" /\ taken # <<>> => (Stream!Part(c) <=> c \in Digit \cup {call.ignore})
         /\ call.op = "ecall_int" => (Stream!Part(c) <=> c \in Digit \cup {Minus} \cup Newline)
         /\ call.op \in {"ecall_string", "ecall_char"} => (Stream!Part(c) <=> c # 0)
<1> DEFINE v == View
<1>1. Stream!Part(c) =
        CASE v.op = "parse" /\ taken = <<>> -> c \in Digit \cup {Minus}
          [] v.op = "parse" /\ taken # <<>> -> c \in Digit \cup {v.ignore}
          [] v.op = "ecall_int" -> c \in Digit \cup {Minus} \cup Newline
          [] v.op \in {"ecall_string", "ecall_char"} -> c # 0
          [] OTHER -> v # Idle /\ v.op # "peek"
  BY DEF Stream!Part, View, Stream!EndOfLine, Newline, Stream!Digit, Digit, Stream!Minus, Minus,
         Stream!Idle, Idle
<1> HIDE DEF v
<1>2. /\ v.op = call.op
      /\ v = Idle <=> call.op = "none"
      /\ call.op = "parse" => v.ignore = call.ignore
  BY ViewIs DEF v
<1>3. CASE call.op \in {"read", "bytes", "until", "findUntil", "find"}
  BY <1>1, <1>2, <1>3
<1>4. CASE call.op = "peek"
  BY <1>1, <1>2, <1>4
<1>5. CASE call.op = "parse"
  BY <1>1, <1>2, <1>5
<1>6. CASE call.op = "ecall_int"
  BY <1>1, <1>2, <1>6
<1>7. CASE call.op \in {"ecall_string", "ecall_char"}
  BY <1>1, <1>2, <1>7
<1> QED
  BY <1>3, <1>4, <1>5, <1>6, <1>7

LEMMA SkippedIs ==
  ASSUME call \in Calls, NEW c
  PROVE  /\ call.op \in {"read", "peek", "bytes", "until", "findUntil", "find"} => ~Stream!Skipped(c)
         /\ call.op = "parse" =>
              (Stream!Skipped(c) <=>
                 /\ taken = <<>>
                 /\ \/ call.lookahead = "SKIP_ALL"
                    \/ call.lookahead = "SKIP_WHITESPACE" /\ c \in Whitespace)
         /\ call.op \in {"ecall_int", "ecall_string", "ecall_char"} => Stream!Skipped(c)
<1> DEFINE v == View
<1>1. Stream!Skipped(c) =
        CASE v.op = "parse" -> taken = <<>> /\ (v.lookahead = "SKIP_ALL"
                                  \/ (v.lookahead = "SKIP_WHITESPACE" /\ c \in Whitespace))
          [] v.op \in {"ecall_int", "ecall_string", "ecall_char"} -> TRUE
          [] OTHER -> FALSE
  BY DEF Stream!Skipped, View, Stream!Whitespace, Whitespace
<1> HIDE DEF v
<1>2. v.op = call.op /\ (call.op = "parse" => v.lookahead = call.lookahead)
  BY ViewIs DEF v
<1>3. CASE call.op \in {"read", "peek", "bytes", "until", "findUntil", "find"}
  BY <1>1, <1>2, <1>3
<1>4. CASE call.op = "parse"
  BY <1>1, <1>2, <1>4
<1>5. CASE call.op \in {"ecall_int", "ecall_string", "ecall_char"}
  BY <1>1, <1>2, <1>5
<1> QED
  BY <1>3, <1>4, <1>5

\* What the bytes t say, call by call.
LEMMA AnswerIs ==
  ASSUME call \in Calls, NEW t
  PROVE  /\ call.op \in {"read", "ecall_char"} => Stream!Answer(t) = IF t = <<>> THEN <<-1>> ELSE t
         /\ call.op = "peek" => Stream!Answer(t) = IF Unread = <<>> THEN <<-1>> ELSE <<Head(Unread)>>
         /\ call.op \in {"bytes", "ecall_string"} => Stream!Answer(t) = t
         /\ call.op = "until" => Stream!Answer(t) = Stream!UpTo(call.end, t)
         /\ call.op = "findUntil" =>
              Stream!Answer(t)
                = Stream!Truth(Stream!Occurs(call.target, Stream!UpTo(0, Stream!UpTo(call.end, t))))
         /\ call.op = "find" => Stream!Answer(t) = Stream!Truth(Stream!Occurs(call.target, t))
         /\ call.op = "ecall_int" =>
              Stream!Answer(t) = IF Stream!LastIn(t, Newline) THEN <<Stream!Signed(t)>> ELSE <<-1>>
<1> DEFINE v == View
           spelt == Stream!Spelt(t, ((Digit \cup {Minus}) \ {v.ignore}) \ {Minus})
           negative == \E k \in 1 .. Len(t) : t[k] = Minus /\ Minus \in (Digit \cup {Minus}) \ {v.ignore}
<1>1. Stream!Answer(t) =
  CASE v.op \in {"read", "ecall_char"} -> IF t = <<>> THEN <<-1>> ELSE t
    [] v.op = "peek" -> IF Unread = <<>> THEN <<-1>> ELSE <<Head(Unread)>>
    [] v.op = "bytes" -> t
    [] v.op = "until" -> Stream!UpTo(v.end, t)
    [] v.op = "findUntil" -> Stream!Truth(Stream!Occurs(v.target, Stream!UpTo(0, Stream!UpTo(v.end, t))))
    [] v.op = "find" -> Stream!Truth(Stream!Occurs(v.target, t))
    [] v.op = "parse" -> IF negative THEN <<-spelt>> ELSE <<spelt>>
    [] v.op = "ecall_int" -> IF Stream!LastIn(t, Newline) THEN <<Stream!Signed(t)>> ELSE <<-1>>
    [] v.op = "ecall_string" -> t
  BY DEF Stream!Answer, View, Stream!EndOfLine, Newline, Stream!Digit, Digit, Stream!Minus, Minus
<1> HIDE DEF v, spelt, negative
<1>2. /\ v.op = call.op
      /\ call.op \in {"until", "findUntil"} => v.end = call.end
      /\ call.op \in {"find", "findUntil"} => v.target = call.target
  BY ViewIs DEF v
<1>3. CASE call.op \in {"read", "ecall_char"}
  BY <1>1, <1>2, <1>3
<1>4. CASE call.op = "peek"
  BY <1>1, <1>2, <1>4
<1>5. CASE call.op = "bytes"
  BY <1>1, <1>2, <1>5
<1>6. CASE call.op = "ecall_string"
  BY <1>1, <1>2, <1>6
<1>7. CASE call.op = "until"
  BY <1>1, <1>2, <1>7
<1>8. CASE call.op = "findUntil"
  BY <1>1, <1>2, <1>8
<1>9. CASE call.op = "find"
  BY <1>1, <1>2, <1>9
<1>10. CASE call.op = "ecall_int"
  BY <1>1, <1>2, <1>10
<1> QED
  BY <1>3, <1>4, <1>5, <1>6, <1>7, <1>8, <1>9, <1>10

\* The number a text spells: its digits, but those that are to be ignored, and
\* a minus unless that is.
LEMMA NumberAnswer ==
  ASSUME call \in Calls, call.op = "parse", NEW t
  PROVE  LET n == Stream!Spelt(t, Digit \ {call.ignore})
         IN Stream!Answer(t) = IF \E k \in 1 .. Len(t) : t[k] = Minus /\ Minus # call.ignore
                               THEN <<-n>> ELSE <<n>>
<1> DEFINE v == View
           D == ((Digit \cup {Minus}) \ {v.ignore}) \ {Minus}
           spelt == Stream!Spelt(t, D)
           negative == \E k \in 1 .. Len(t) : t[k] = Minus /\ Minus \in (Digit \cup {Minus}) \ {v.ignore}
<1>1. v.op = "parse" => Stream!Answer(t) = IF negative THEN <<-spelt>> ELSE <<spelt>>
  BY DEF Stream!Answer, View, Stream!Digit, Digit, Stream!Minus, Minus
<1>2. v.op = "parse" /\ v.ignore = call.ignore
  BY ViewIs DEF v
<1>3. Minus \notin Digit
  BY DEF Minus, Digit
<1> HIDE DEF v
<1>4. D = Digit \ {call.ignore}
  BY <1>2, <1>3
<1>5. negative <=> \E k \in 1 .. Len(t) : t[k] = Minus /\ Minus # call.ignore
  BY <1>2
<1> HIDE DEF D, negative
<1> QED
  BY <1>1, <1>2, <1>4, <1>5
-----------------------------------------------------------------------------
(* What the locals of a call hold.                                         *)

Without(s, S) == \A k \in 1 .. Len(s) : s[k] \notin S
Negative(s) == \E k \in 1 .. Len(s) : s[k] = Minus

\* Buffers hold what counted so far, and no end of the text among it.
TextSoFar ==
  /\ call.op \in {"none", "read", "peek", "ecall_char"} => taken = <<>>
  /\ Stores \/ call.op \in {"ecall_int", "ecall_string"} => call.buffer = taken
  /\ call.op \in {"until", "findUntil"} => Without(taken, {call.end})
  /\ call.op \in {"ecall_int", "ecall_string"} => Without(taken, Newline)

FoundNothing ==
  call.op = "find" /\ call.target # <<>> => ~Stream!Occurs(call.target, taken)

NumberSoFar ==
  call.op = "parse" =>
    /\ call.started <=> taken # <<>>
    /\ call.value = Stream!Spelt(taken, Digit \ {call.ignore})
    /\ call.isNegative <=> Negative(taken) /\ Minus # call.ignore

StreamInv == TextSoFar /\ FoundNothing /\ NumberSoFar

LEMMA WithoutGrows ==
  ASSUME NEW s \in Seq(Bytes), NEW c \in Bytes, NEW S, Without(s, S)
  PROVE  /\ ~Stream!LastIn(s, S)
         /\ Stream!LastIn(Append(s, c), S) <=> c \in S
         /\ c \notin S => Without(Append(s, c), S)
<1> DEFINE u == Append(s, c)
           n == Len(s)
<1>1. /\ n \in Nat /\ u \in Seq(Bytes) /\ Len(u) = n + 1 /\ u[n + 1] = c /\ u # <<>>
      /\ \A k \in 1 .. n : u[k] = s[k]
  OBVIOUS
<1>6. s # <<>> => n \in 1 .. n
  BY EmptySeq
<1> HIDE DEF u
<1>2. ~Stream!LastIn(s, S)
  BY <1>1, <1>6 DEF Stream!LastIn, Without
<1>3. Stream!LastIn(u, S) <=> c \in S
  BY <1>1 DEF Stream!LastIn
<1>4. ASSUME c \notin S, NEW k \in 1 .. n + 1 PROVE u[k] \notin S
  BY <1>1, <1>4 DEF Without
<1>5. c \notin S => Without(u, S)
  BY <1>1, <1>4 DEF Without
<1> QED
  BY <1>2, <1>3, <1>5 DEF u

LEMMA NegativeGrows ==
  ASSUME NEW s \in Seq(Bytes), NEW c \in Bytes
  PROVE  Negative(Append(s, c)) <=> Negative(s) \/ c = Minus
<1> DEFINE u == Append(s, c)
           n == Len(s)
<1>1. n \in Nat /\ Len(u) = n + 1 /\ u[n + 1] = c /\ \A k \in 1 .. n : u[k] = s[k]
  OBVIOUS
<1> HIDE DEF u
<1>2. \A k \in 1 .. n + 1 : k \in 1 .. n \/ k = n + 1
  BY <1>1
<1>3. n + 1 \in 1 .. n + 1 /\ \A k \in 1 .. n : k \in 1 .. n + 1
  BY <1>1
<1>4. Negative(u) <=> \E k \in 1 .. n + 1 : u[k] = Minus
  BY <1>1 DEF Negative
<1>5. Negative(u) <=> Negative(s) \/ c = Minus
  BY <1>1, <1>2, <1>3, <1>4 DEF Negative
<1> QED
  BY <1>5 DEF u

\* A call that has returned holds nothing.
LEMMA ReturnForgets ==
  ASSUME NEW answer, Return(answer)
  PROVE  StreamInv'
BY DEF Return, Idle, StreamInv, TextSoFar, FoundNothing, NumberSoFar, Stores

LEMMA SameStream ==
  ASSUME StreamInv, UNCHANGED <<call, taken>>
  PROVE  StreamInv'
BY DEF StreamInv, TextSoFar, FoundNothing, NumberSoFar, Stores
-----------------------------------------------------------------------------
(* Steps of the abstract queue.                                            *)

\* A byte that counts.
LEMMA SimTake ==
  ASSUME SerialInv, NEW c \in Bytes, Take(c), call.op # "none",
         ~Stream!Complete(taken), Stream!Part(c),
         \/ View' = View /\ taken' = Append(taken, c) /\ result' = result
         \/ Stream!Complete(Append(taken, c)) /\ Return(Stream!Answer(Append(taken, c)))
  PROVE  Stream!Next
<1>1. Unread # <<>> /\ c = Head(Unread) /\ Unread' = Tail(Unread) /\ call \in Calls
  BY TakeFirst DEF SerialInv, CallState
<1>2. View # Idle
  BY <1>1, ViewIs
<1>3. Stream!More
  BY <1>1, <1>2 DEF Stream!More, View, Stream!Idle, Idle
<1>4. CASE View' = View /\ taken' = Append(taken, c) /\ result' = result
  <2>1. Stream!Take
    BY <1>1, <1>3, <1>4 DEF Stream!Take, View
  <2> QED
    BY <2>1 DEF Stream!Next
<1>5. CASE Stream!Complete(Append(taken, c)) /\ Return(Stream!Answer(Append(taken, c)))
  <2>1. View' = Stream!Idle
    BY <1>5, ViewOver DEF Return
  <2> DEFINE t == Append(taken, c)
  <2> HIDE DEF t
  <2>2. Stream!Complete(t) /\ Return(Stream!Answer(t))
    BY <1>5 DEF t
  <2>3. Stream!Answers(Append(taken, Head(Unread)))
    BY <1>1, <2>1, <2>2 DEF Return, Stream!Answers, View, t
  <2>4. Stream!Complete(Append(taken, Head(Unread)))
    BY <1>1, <2>2 DEF t
  <2>5. Stream!Take
    BY <1>1, <1>3, <2>3, <2>4 DEF Stream!Take
  <2> QED
    BY <2>5 DEF Stream!Next
<1> QED
  BY <1>4, <1>5

\* A byte that is read over.
LEMMA SimSkip ==
  ASSUME SerialInv, NEW c \in Bytes, Discard(c), call.op # "none",
         ~Stream!Complete(taken), ~Stream!Part(c), Stream!Skipped(c)
  PROVE  Stream!Next
<1>1. Unread # <<>> /\ c = Head(Unread) /\ Unread' = Tail(Unread) /\ call \in Calls
  BY TakeFirst DEF SerialInv, CallState, Discard
<1>2. View # Idle
  BY <1>1, ViewIs
<1>3. Stream!More
  BY <1>1, <1>2 DEF Stream!More, View, Stream!Idle, Idle
<1>4. View' = View /\ taken' = taken /\ result' = result
  BY DEF Discard, View
<1>5. Stream!Skip
  BY <1>1, <1>3, <1>4 DEF Stream!Skip, View
<1> QED
  BY <1>5 DEF Stream!Next

\* A call that comes back without taking a byte.
LEMMA SimReturn ==
  ASSUME call \in Calls, call.op # "none", Unread' = Unread,
         \/ Stream!Complete(taken)
         \/ Unread = <<>> /\ call.op \notin {"ecall_int", "ecall_string", "ecall_char"}
         \/ Unread # <<>> /\ ~Stream!Part(Head(Unread)) /\ ~Stream!Skipped(Head(Unread)),
         Return(Stream!Answer(taken))
  PROVE  Stream!Next
<1>1. View # Idle /\ View.op = call.op
  BY ViewIs
<1>2. Stream!MayGiveUp <=> Unread = <<>> /\ View.op \notin {"ecall_int", "ecall_string", "ecall_char"}
  BY DEF Stream!MayGiveUp, View
<1>3. Stream!Complete(taken) \/ Stream!MayGiveUp \/ Stream!Refused
  BY <1>1, <1>2 DEF Stream!Refused
<1>4. View' = Stream!Idle
  BY ViewOver DEF Return
<1>5. Stream!Answers(taken)
  BY <1>4 DEF Return, Stream!Answers, View
<1>6. Stream!Return
  BY <1>1, <1>3, <1>5 DEF Stream!Return, View, Stream!Idle, Idle
<1> QED
  BY <1>6 DEF Stream!Next

\* A wait that ends without a byte.
LEMMA SimTimeout ==
  ASSUME call \in Calls, NoByte,
         call.op \notin {"none", "ecall_int", "ecall_string", "ecall_char"},
         Return(Stream!Answer(taken))
  PROVE  Stream!Next /\ StreamInv'
<1>1. Unread = <<>> /\ Unread' = Unread
  BY DEF NoByte, Unread
<1> QED
  BY <1>1, SimReturn, ReturnForgets
-----------------------------------------------------------------------------
(* Every step of a call is one of the abstract queue.                      *)

LEMMA StoresShape ==
  ASSUME call \in Calls, Stores
  PROVE  /\ call.buffer \in Seq(Bytes) /\ call.length \in Nat
         /\ call.op # "bytes" => call.end \in Bytes
         /\ call.op = "findUntil" => call.target \in Seq(Bytes)
<1>1. CASE call.op = "bytes"
  BY <1>1, CallShapes, SerialAssumption
<1>2. CASE call.op = "until"
  BY <1>2, CallShapes, SerialAssumption
<1>3. CASE call.op = "findUntil"
  <2>1. /\ call.buffer \in Seq(Bytes) /\ call.length = FIND_BUFFER - 1
        /\ call.end \in Terminators /\ call.target \in Targets
    BY <1>3, CallShapes
  <2>2. Targets \subseteq Seq(Bytes)
    BY SerialAssumption
  <2>3. FIND_BUFFER - 1 \in Nat /\ Terminators \subseteq Bytes
    BY SerialAssumption
  <2> QED
    BY <1>3, <2>1, <2>2, <2>3
<1> QED
  BY <1>1, <1>2, <1>3 DEF Stores

\* A byte that is stored belongs to the text.
LEMMA StoreGoesOn ==
  ASSUME SerialInv, StreamInv, NEW c \in Bytes,
         Stores \/ call.op \in {"ecall_int", "ecall_string"},
         call.op \in {"until", "findUntil"} => c # call.end,
         call.op \in {"ecall_int", "ecall_string"} => c \notin Newline,
         Goes([call EXCEPT !.buffer = Append(@, c)], c)
  PROVE  /\ View' = View /\ taken' = Append(taken, c) /\ result' = result
         /\ StreamInv'
<1> DEFINE more == Append(call.buffer, c)
<1>1. call \in Calls /\ taken \in Seq(Bytes) /\ TextSoFar
  BY DEF SerialInv, CallState, StreamInv
<1>2. call' = [call EXCEPT !.buffer = more] /\ taken' = Append(taken, c) /\ result' = result
  BY DEF Goes
<1>3. View' = View
  <2> HIDE DEF more
  <2> QED
    BY <1>1, <1>2, ViewStays
<1>4. /\ call'.op = call.op /\ call'.buffer = more
      /\ call.op \in {"until", "findUntil"} => call'.end = call.end
  <2> HIDE DEF more
  <2>1. "op" \in DOMAIN call /\ "buffer" \in DOMAIN call
        /\ (call.op \in {"until", "findUntil"} => "end" \in DOMAIN call)
    <3>1. CASE call.op = "bytes"
      BY <1>1, <3>1, CallShapes
    <3>2. CASE call.op = "until"
      BY <1>1, <3>2, CallShapes
    <3>3. CASE call.op = "findUntil"
      BY <1>1, <3>3, CallShapes
    <3>4. CASE call.op = "ecall_int"
      BY <1>1, <3>4, CallShapes
    <3>5. CASE call.op = "ecall_string"
      BY <1>1, <3>5, CallShapes
    <3> QED
      BY <3>1, <3>2, <3>3, <3>4, <3>5 DEF Stores
  <2> QED
    BY <1>2, <2>1
<1>5. call.buffer = taken
  BY <1>1 DEF TextSoFar
<1>6. call'.buffer = taken'
  BY <1>2, <1>4, <1>5
<1>7. call.op \in {"until", "findUntil"} => Without(taken, {call.end})' 
  <2> SUFFICES ASSUME call.op \in {"until", "findUntil"} PROVE Without(taken, {call.end})'
    OBVIOUS
  <2>1. Without(taken, {call.end}) /\ c \notin {call.end}
    BY <1>1 DEF TextSoFar
  <2> DEFINE S == {call.end}
  <2>2. Without(taken, S) /\ c \notin S
    BY <2>1
  <2> HIDE DEF S
  <2>3. Without(Append(taken, c), S)
    BY <1>1, <2>2, WithoutGrows
  <2>4. S = {call'.end}
    BY <1>4 DEF S
  <2> QED
    BY <1>2, <2>3, <2>4 DEF Without
<1>8. call.op \in {"ecall_int", "ecall_string"} => Without(taken, Newline)'
  <2> SUFFICES ASSUME call.op \in {"ecall_int", "ecall_string"} PROVE Without(taken, Newline)'
    OBVIOUS
  <2>1. Without(taken, Newline) /\ c \notin Newline
    BY <1>1 DEF TextSoFar
  <2>2. Without(Append(taken, c), Newline)
    BY <1>1, <2>1, WithoutGrows
  <2> QED
    BY <1>2, <2>2 DEF Without
<1>9. call.op \in {"bytes", "until", "findUntil", "ecall_int", "ecall_string"}
  BY DEF Stores
<1>10. TextSoFar'
  BY <1>4, <1>6, <1>7, <1>8, <1>9 DEF TextSoFar
<1>11. FoundNothing' /\ NumberSoFar'
  BY <1>4, <1>9 DEF FoundNothing, NumberSoFar
<1> QED
  BY <1>2, <1>3, <1>10, <1>11 DEF StreamInv

\* What readBytes and its callers make of the buffer, with or without the
\* terminator that ended the text.
LEMMA FilledAnswers ==
  ASSUME SerialInv, StreamInv, Stores, Filled(call.buffer), NEW t,
         t = taken \/ (call.op # "bytes" /\ t = Append(taken, call.end))
  PROVE  Return(Stream!Answer(t))
<1>1. call \in Calls /\ taken \in Seq(Bytes) /\ TextSoFar
  BY DEF SerialInv, CallState, StreamInv
<1>2. call.buffer = taken
  BY <1>1 DEF TextSoFar
<1>3. CASE call.op = "bytes"
  <2>1. Stream!Answer(t) = taken
    BY <1>1, <1>3, AnswerIs
  <2> QED
    BY <1>2, <1>3, <2>1 DEF Filled
<1>4. ASSUME call.op \in {"until", "findUntil"}
      PROVE  Stream!UpTo(call.end, t) = taken
  <2>1. call.end \in Bytes
    BY <1>1, <1>4, StoresShape
  <2>2. \A k \in 1 .. Len(taken) : taken[k] # call.end
    BY <1>1, <1>4 DEF TextSoFar, Without
  <2>3. Stream!UpTo(call.end, taken) = taken /\ Stream!UpTo(call.end, Append(taken, call.end)) = taken
    BY <1>1, <2>1, <2>2, UpToEnd
  <2> QED
    BY <2>3
<1>5. CASE call.op = "until"
  <2>1. Stream!Answer(t) = taken
    BY <1>1, <1>4, <1>5, AnswerIs
  <2> QED
    BY <1>2, <1>5, <2>1 DEF Filled
<1>6. CASE call.op = "findUntil"
  <2> DEFINE text == Stream!UpTo(0, taken)
  <2>1. Stream!UpTo(call.end, t) = taken
    BY <1>4, <1>6
  <2>2. Stream!Answer(t) = Stream!Truth(Stream!Occurs(call.target, text))
    BY <1>1, <1>6, <2>1, AnswerIs
  <2>3. CString(taken) = text /\ text \in Seq(Bytes) /\ call.target \in Seq(Bytes)
    BY <1>1, <1>6, CStringIs, StoresShape
  <2> HIDE DEF text
  <2>4. strstr(CString(taken), call.target) <=> Stream!Occurs(call.target, text)
    BY <2>3, StrstrFinds
  <2>5. Stream!Answer(t) = <<IF strstr(CString(taken), call.target) THEN 1 ELSE 0>>
    BY <2>2, <2>4 DEF Stream!Truth
  <2> QED
    BY <1>2, <1>6, <2>5 DEF Filled
<1> QED
  BY <1>3, <1>5, <1>6 DEF Stores

LEMMA FilledForgets ==
  ASSUME Filled(call.buffer)
  PROVE  StreamInv'
BY ReturnForgets DEF Filled

\* One byte of readBytes.
LEMMA SimStore ==
  ASSUME SerialInv, StreamInv, Store
  PROVE  Stream!Next /\ StreamInv'
<1>1. call \in Calls /\ taken \in Seq(Bytes) /\ TextSoFar /\ Stores /\ ~Full
  BY DEF SerialInv, CallState, StreamInv, Store
<1>2. PICK c \in Bytes :
        /\ Take(c)
        /\ IF call.op # "bytes" /\ c = call.end THEN Filled(call.buffer)
           ELSE Goes([call EXCEPT !.buffer = Append(@, c)], c)
  BY DEF Store
<1>3. call.op \in {"bytes", "until", "findUntil"} /\ call.buffer = taken
  BY <1>1 DEF Stores, TextSoFar
<1>4. Stream!Part(c)
  BY <1>1, <1>3, PartIs
<1>5. call.op \in {"until", "findUntil"} =>
        /\ ~Stream!LastIn(taken, {call.end})
        /\ Stream!LastIn(Append(taken, call.end), {call.end})
  <2> SUFFICES ASSUME call.op \in {"until", "findUntil"}
               PROVE  /\ ~Stream!LastIn(taken, {call.end})
                      /\ Stream!LastIn(Append(taken, call.end), {call.end})
    OBVIOUS
  <2> DEFINE S == {call.end}
             e == call.end
  <2>1. e \in Bytes /\ Without(taken, S) /\ e \in S
    BY <1>1, StoresShape DEF TextSoFar
  <2> HIDE DEF S, e
  <2>2. ~Stream!LastIn(taken, S) /\ Stream!LastIn(Append(taken, e), S)
    BY <1>1, <2>1, WithoutGrows
  <2> QED
    BY <2>2 DEF S, e
<1>6. ~Stream!Complete(taken)
  BY <1>1, <1>3, <1>5, CompleteIs DEF Full
<1>7. CASE call.op # "bytes" /\ c = call.end
  <2> DEFINE t == Append(taken, c)
  <2>1. Filled(call.buffer) /\ t = Append(taken, call.end) /\ call.op \in {"until", "findUntil"}
    BY <1>2, <1>3, <1>7
  <2>2. Stream!LastIn(t, {call.end})
    BY <1>5, <2>1
  <2> HIDE DEF t
  <2>3. Return(Stream!Answer(t))
    BY <1>1, <1>7, <2>1, FilledAnswers
  <2>4. Stream!Complete(t)
    BY <1>1, <2>1, <2>2, CompleteIs
  <2>5. Stream!Complete(Append(taken, c)) /\ Return(Stream!Answer(Append(taken, c)))
    BY <2>3, <2>4 DEF t
  <2> QED
    BY <1>2, <1>3, <1>4, <1>6, <2>1, <2>5, SimTake, FilledForgets
<1>8. CASE ~(call.op # "bytes" /\ c = call.end)
  <2>1. Goes([call EXCEPT !.buffer = Append(@, c)], c)
    BY <1>2, <1>8
  <2>2. call.op \in {"until", "findUntil"} => c # call.end
    BY <1>8
  <2>3. call.op \notin {"ecall_int", "ecall_string", "none"}
    BY <1>3
  <2>4. View' = View /\ taken' = Append(taken, c) /\ result' = result /\ StreamInv'
    BY <1>1, <2>1, <2>2, <2>3, StoreGoesOn
  <2> QED
    BY <1>2, <1>4, <1>6, <2>3, <2>4, SimTake
<1> QED
  BY <1>7, <1>8

\* readBytes at its length, and at its timeout.
LEMMA SimStoreEnds ==
  ASSUME SerialInv, StreamInv, StoreFull \/ StoreTimeout
  PROVE  Stream!Next /\ StreamInv'
<1>1. call \in Calls /\ TextSoFar /\ Stores /\ Filled(call.buffer)
  BY DEF SerialInv, CallState, StreamInv, StoreFull, StoreTimeout
<1>2. call.op \in {"bytes", "until", "findUntil"} /\ call.buffer = taken
  BY <1>1 DEF Stores, TextSoFar
<1>3. Return(Stream!Answer(taken))
  BY <1>1, FilledAnswers
<1>4. CASE StoreFull
  <2>1. Full /\ Unread' = Unread
    BY <1>4 DEF StoreFull, Unread
  <2>2. Stream!Complete(taken)
    BY <1>1, <1>2, <2>1, CompleteIs DEF Full
  <2> QED
    BY <1>1, <1>2, <1>3, <2>1, <2>2, SimReturn, FilledForgets
<1>5. CASE StoreTimeout
  <2>1. NoByte
    BY <1>5 DEF StoreTimeout
  <2> QED
    BY <1>1, <1>2, <1>3, <2>1, SimTimeout
<1> QED
  BY <1>4, <1>5

\* serial_read and serial_peek.
LEMMA SimRead ==
  ASSUME SerialInv, StreamInv, serial_read \/ serial_peek
  PROVE  Stream!Next /\ StreamInv'
<1>1. call \in Calls /\ Ring /\ call.op \in {"read", "peek"} /\ taken = <<>>
  BY DEF SerialInv, CallState, StreamInv, TextSoFar, serial_read, serial_peek
<1>2. ~Stream!Complete(taken)
  BY <1>1, CompleteIs
<1>3. ASSUME call.op = "read", NEW c \in Bytes, Take(c), Return(<<c>>)
      PROVE  Stream!Next /\ StreamInv'
  <2> DEFINE t == Append(taken, c)
  <2>1. t = <<c>> /\ Len(t) = 1 /\ t # <<>>
    BY <1>1
  <2> HIDE DEF t
  <2>2. Stream!Complete(t) /\ Stream!Answer(t) = <<c>>
    BY <1>1, <1>3, <2>1, CompleteIs, AnswerIs
  <2>3. Stream!Part(c) /\ call.op # "none"
    BY <1>1, <1>3, PartIs
  <2>4. Stream!Complete(t) /\ Return(Stream!Answer(t))
    BY <1>3, <2>2
  <2>5. Stream!Complete(Append(taken, c)) /\ Return(Stream!Answer(Append(taken, c)))
    BY <2>4 DEF t
  <2> QED
    BY <1>2, <1>3, <2>3, <2>5, SimTake, ReturnForgets
<1>4. ASSUME call.op = "peek", NEW c \in Bytes, Peek(c), Return(<<c>>)
      PROVE  Stream!Next /\ StreamInv'
  <2>1. Unread # <<>> /\ c = Head(Unread)
    BY <1>4 DEF Peek
  <2>2. Unread' = Unread
    BY <1>1, <1>4, PeekSame
  <2>3. Stream!Answer(taken) = <<c>>
    BY <1>1, <1>4, <2>1, AnswerIs
  <2>4. ~Stream!Part(Head(Unread)) /\ ~Stream!Skipped(Head(Unread))
    BY <1>1, <1>4, PartIs, SkippedIs
  <2>5. Return(Stream!Answer(taken))
    BY <1>4, <2>3
  <2> QED
    BY <1>1, <1>4, <2>1, <2>2, <2>4, <2>5, SimReturn, ReturnForgets
<1>5. ASSUME NoByte, Return(<<-1>>)
      PROVE  Stream!Next /\ StreamInv'
  <2>1. Stream!Answer(taken) = <<-1>>
    BY <1>1, <1>5, AnswerIs DEF NoByte
  <2>2. Return(Stream!Answer(taken))
    BY <1>5, <2>1
  <2> QED
    BY <1>1, <1>5, <2>2, SimTimeout
<1> QED
  BY <1>3, <1>4, <1>5 DEF serial_read, serial_peek
LEMMA EndsIsMatch ==
  ASSUME NEW t, NEW s
  PROVE  Stream!Ends(t, s) <=> Matches(Len(t), t, s)
BY DEF Stream!Ends, Matches

\* One byte of find.
LEMMA SimFindByte ==
  ASSUME SerialInv, StreamInv, FindByte
  PROVE  Stream!Next /\ StreamInv'
<1> DEFINE target == call.target
<1>1. call \in Calls /\ taken \in Seq(Bytes) /\ FindsLongest /\ FoundNothing
      /\ call.op = "find" /\ target # <<>>
  BY DEF SerialInv, CallState, StreamInv, FindByte
<1>2. call \in [op : {"find"}, target : Targets, index : Nat]
  BY <1>1, CallShapes
<1>3. target \in Seq(Bytes)
  BY <1>2, SerialAssumption
<1>4. PICK c \in Bytes :
        /\ Take(c)
        /\ LET index == Advance(target, call.index, c)
           IN IF index = Len(target) THEN Return(<<1>>)
              ELSE Goes([call EXCEPT !.index = index], c)
  BY DEF FindByte
<1> DEFINE i == call.index
           next == Advance(target, i, c)
           t == Append(taken, c)
<1>5. /\ i \in 0 .. Len(target) - 1 /\ Matches(i, target, taken)
      /\ \A j \in i + 1 .. Len(target) : ~Matches(j, target, taken)
  BY <1>1, <1>2, <1>3 DEF FindsLongest
<1>6. t \in Seq(Bytes) /\ ~Stream!Occurs(target, taken)
  BY <1>1 DEF FoundNothing
<1>7. next \in 0 .. Len(target) /\ Matches(next, target, t)
      /\ \A j \in next + 1 .. Len(target) : ~Matches(j, target, t)
  <2> HIDE DEF target, i
  <2> QED
    BY <1>1, <1>3, <1>5, AdvanceLongest
<1>8. next = Len(target) <=> Stream!Ends(target, t)
  <2> HIDE DEF target, next, t
  <2>1. next # Len(target) => Len(target) \in next + 1 .. Len(target)
    BY <1>3, <1>7
  <2> QED
    BY <1>7, <2>1, EndsIsMatch
<1>9. ~Stream!Complete(taken)
  <2>1. ~Stream!Ends(target, taken)
    BY <1>1, <1>3, <1>6, EndsOccurs
  <2> QED
    BY <1>1, <2>1, CompleteIs
<1>10. Stream!Part(c) /\ call.op # "none"
  BY <1>1, PartIs
<1>11. CASE next = Len(target)
  <2>1. Return(<<1>>) /\ Stream!Ends(target, t)
    BY <1>4, <1>8, <1>11
  <2>2. Stream!Occurs(target, t)
    BY <1>3, <1>6, <2>1, EndsOccurs
  <2> HIDE DEF t
  <2>3. Stream!Complete(t) /\ Stream!Answer(t) = <<1>>
    BY <1>1, <2>1, <2>2, CompleteIs, AnswerIs DEF Stream!Truth
  <2>4. Stream!Complete(t) /\ Return(Stream!Answer(t))
    BY <2>1, <2>3
  <2>5. Stream!Complete(Append(taken, c)) /\ Return(Stream!Answer(Append(taken, c)))
    BY <2>4 DEF t
  <2> QED
    BY <1>4, <1>9, <1>10, <2>1, <2>5, SimTake, ReturnForgets
<1>12. CASE next # Len(target)
  <2>1. Goes([call EXCEPT !.index = next], c)
    BY <1>4, <1>12
  <2> HIDE DEF next
  <2>2. call' = [call EXCEPT !.index = next] /\ taken' = t /\ result' = result
    BY <2>1 DEF Goes
  <2>3. View' = View
    BY <1>1, <2>2, ViewStays
  <2>4. call'.op = "find" /\ call'.target = target
    BY <1>2, <2>2
  <2>5. ~Stream!Occurs(target, t)
    BY <1>1, <1>3, <1>6, <1>8, <1>12, OccursGrows
  <2>6. StreamInv'
    <3>1. FoundNothing'
      <4> HIDE DEF t, target
      <4>1. ~Stream!Occurs(target, taken')
        BY <2>2, <2>5
      <4>2. ~Stream!Occurs(call'.target, taken')
        BY <2>4, <4>1
      <4> QED
        BY <4>2 DEF FoundNothing
    <3>2. TextSoFar' /\ NumberSoFar'
      BY <2>4 DEF TextSoFar, NumberSoFar, Stores
    <3> QED
      BY <3>1, <3>2 DEF StreamInv
  <2> QED
    BY <1>4, <1>9, <1>10, <2>2, <2>3, <2>6, SimTake
<1> QED
  BY <1>11, <1>12

\* The empty target, and a search that times out.
LEMMA SimFindEnds ==
  ASSUME SerialInv, StreamInv, FindEmpty \/ FindTimeout
  PROVE  Stream!Next /\ StreamInv'
<1>1. call \in Calls /\ taken \in Seq(Bytes) /\ FoundNothing /\ call.op = "find"
  BY DEF SerialInv, CallState, StreamInv, FindEmpty, FindTimeout
<1>2. CASE FindEmpty
  <2>1. call.target = <<>> /\ Return(<<1>>) /\ Unread' = Unread
    BY <1>2 DEF FindEmpty, Unread
  <2>2. Stream!Ends(<<>>, taken)
    BY <1>1 DEF Stream!Ends
  <2>3. <<>> \in Seq(Bytes)
    OBVIOUS
  <2> DEFINE e == <<>>
  <2>4. e \in Seq(Bytes) /\ Stream!Ends(e, taken) /\ call.target = e
    BY <2>1, <2>2, <2>3
  <2> HIDE DEF e
  <2>5. Stream!Occurs(e, taken)
    BY <1>1, <2>4, EndsOccurs
  <2>6. Stream!Complete(taken) /\ Stream!Answer(taken) = <<1>>
    BY <1>1, <2>4, <2>5, CompleteIs, AnswerIs DEF Stream!Truth
  <2>7. Return(Stream!Answer(taken))
    BY <2>1, <2>6
  <2> QED
    BY <1>1, <2>1, <2>6, <2>7, SimReturn, ReturnForgets
<1>3. CASE FindTimeout
  <2>1. call.target # <<>> /\ NoByte /\ Return(<<0>>)
    BY <1>3 DEF FindTimeout
  <2>2. Stream!Answer(taken) = <<0>>
    BY <1>1, <2>1, AnswerIs DEF FoundNothing, Stream!Truth
  <2>3. Return(Stream!Answer(taken))
    BY <2>1, <2>2
  <2> QED
    BY <1>1, <2>1, <2>3, SimTimeout
<1> QED
  BY <1>2, <1>3

\* What parseInt has counted is what the text it took spells.
LEMMA NumberIs ==
  ASSUME SerialInv, StreamInv, call.op = "parse"
  PROVE  Stream!Answer(taken) = <<Number>>
<1>1. call \in Calls /\ NumberSoFar
  BY DEF SerialInv, CallState, StreamInv
<1> DEFINE n == Stream!Spelt(taken, Digit \ {call.ignore})
<1>2. call.value = n /\ (call.isNegative <=> Negative(taken) /\ Minus # call.ignore)
  BY <1>1 DEF NumberSoFar
<1>3. Stream!Answer(taken)
        = IF \E k \in 1 .. Len(taken) : taken[k] = Minus /\ Minus # call.ignore THEN <<-n>> ELSE <<n>>
  BY <1>1, NumberAnswer
<1> HIDE DEF n
<1>4. (\E k \in 1 .. Len(taken) : taken[k] = Minus /\ Minus # call.ignore) <=> call.isNegative
  BY <1>2 DEF Negative
<1>5. call.isNegative \in BOOLEAN
  BY <1>1, CallShapes
<1> QED
  BY <1>2, <1>3, <1>4, <1>5 DEF Number

LEMMA BytesAreNumbers ==
  ASSUME NEW s \in Seq(Bytes)
  PROVE  s \in Seq(Int)
<1>1. \A i \in 1 .. Len(s) : s[i] \in Bytes
  BY ElementOfSeq
<1>2. \A c \in Bytes : c \in Int
  BY SerialAssumption
<1>3. \A i \in 1 .. Len(s) : s[i] \in Int
  BY <1>1, <1>2
<1> QED
  BY <1>3

\* One byte more of the number.
LEMMA NumberGrows ==
  ASSUME SerialInv, StreamInv, NEW c \in Bytes, ParseByte(c)
  PROVE  StreamInv'
<1> DEFINE S == [op : {"parse"}, lookahead : Lookahead, ignore : Ignores,
                 started : BOOLEAN, isNegative : BOOLEAN, value : Nat]
           D == Digit \ {call.ignore}
           t == Append(taken, c)
<1>1. call.op = "parse" /\ call' = Counted(c) /\ taken' = t
  BY DEF ParseByte, Goes
<1>2. call \in S /\ taken \in Seq(Bytes) /\ c \in Nat /\ NumberSoFar
  BY <1>1, CallShapes, SerialAssumption DEF SerialInv, CallState, StreamInv
<1>3. c = call.ignore \/ c = Minus \/ c \in Digit
  BY DEF ParseByte
<1>4. /\ call'.op = "parse" /\ call'.ignore = call.ignore /\ call'.started = TRUE
      /\ call'.value = IF c \in D THEN call.value * 10 + (c - 48) ELSE call.value
      /\ call'.isNegative = IF c = Minus /\ Minus # call.ignore THEN TRUE ELSE call.isNegative
  <2>0. Minus \notin Digit
    BY DEF Minus, Digit
  <2>1. CASE c = call.ignore
    <3>1. call' = [call EXCEPT !.started = TRUE]
      BY <1>1, <2>1 DEF Counted
    <3> QED
      BY <1>2, <2>1, <3>1
  <2>2. CASE c # call.ignore /\ c = Minus
    <3>1. call' = [call EXCEPT !.started = TRUE, !.isNegative = TRUE]
      BY <1>1, <2>2 DEF Counted
    <3> QED
      BY <1>2, <2>0, <2>2, <3>1
  <2>3. CASE c # call.ignore /\ c # Minus
    <3>1. call' = [call EXCEPT !.started = TRUE, !.value = @ * 10 + c - 48]
      BY <1>1, <2>3 DEF Counted
    <3>2. c \in D /\ call.value \in Nat
      BY <1>2, <1>3, <2>3
    <3>3. call'.op = "parse" /\ call'.ignore = call.ignore /\ call'.started = TRUE
          /\ call'.value = call.value * 10 + c - 48 /\ call'.isNegative = call.isNegative
      BY <1>2, <3>1
    <3>4. call.value * 10 + c - 48 = call.value * 10 + (c - 48)
      BY <1>2, <3>2
    <3> QED
      BY <2>3, <3>2, <3>3, <3>4
  <2> QED
    BY <2>1, <2>2, <2>3
<1>5. t # <<>>
  BY <1>2
<1>6. Stream!Spelt(t, D) = IF c \in D THEN Stream!Spelt(taken, D) * 10 + (c - 48) ELSE Stream!Spelt(taken, D)
  <2>1. taken \in Seq(Int) /\ c \in Int
    BY <1>2, BytesAreNumbers
  <2> HIDE DEF D
  <2> QED
    BY <2>1, SpeltGrows
<1>7. Negative(t) <=> Negative(taken) \/ c = Minus
  BY <1>2, NegativeGrows
<1>8. /\ call.value = Stream!Spelt(taken, D)
      /\ call.isNegative <=> Negative(taken) /\ Minus # call.ignore
  BY <1>1, <1>2 DEF NumberSoFar
<1>9. call'.value = Stream!Spelt(taken', Digit \ {call'.ignore})
  <2>1. D = Digit \ {call'.ignore}
    BY <1>4
  <2> HIDE DEF D, t
  <2> QED
    BY <1>1, <1>4, <1>6, <1>8, <2>1
<1>10. call'.isNegative <=> Negative(taken') /\ Minus # call'.ignore
  <2> HIDE DEF D, t
  <2>1. call.isNegative \in BOOLEAN
    BY <1>2
  <2>2. Negative(taken') <=> Negative(t)
    BY <1>1 DEF Negative
  <2> QED
    BY <1>4, <1>7, <1>8, <2>1, <2>2
<1>11. NumberSoFar'
  <2> HIDE DEF t
  <2>1. Negative(taken') <=> Negative(taken)'
    BY DEF Negative
  <2>2. taken' # <<>> /\ call'.started
    BY <1>1, <1>4, <1>5
  <2> QED
    BY <1>9, <1>10, <2>1, <2>2 DEF NumberSoFar
<1>12. TextSoFar' /\ FoundNothing'
  BY <1>4 DEF TextSoFar, FoundNothing, Stores
<1> QED
  BY <1>11, <1>12 DEF StreamInv

\* parseInt: what it reads over, what it counts, where it ends.
LEMMA SimParse ==
  ASSUME SerialInv, StreamInv, ParseTimeout \/ \E c \in Bytes : Parses(c)
  PROVE  Stream!Next /\ StreamInv'
<1>1. call \in Calls /\ Ring /\ call.op = "parse" /\ (call.started <=> taken # <<>>)
  BY DEF SerialInv, CallState, StreamInv, NumberSoFar, ParseTimeout, Parses, ParseSkip, ParseByte, ParseEnd
<1>2. ~Stream!Complete(taken) /\ call.op \notin {"none", "ecall_int", "ecall_string", "ecall_char"}
  BY <1>1, CompleteIs
<1>3. CASE ParseTimeout
  <2>1. Return(Stream!Answer(taken)) /\ NoByte
    BY <1>1, <1>3, NumberIs DEF ParseTimeout
  <2> QED
    BY <1>1, <1>2, <2>1, SimTimeout
<1>4. ASSUME NEW c \in Bytes, ParseSkip(c) PROVE Stream!Next /\ StreamInv'
  <2>1. /\ taken = <<>> /\ c \notin Digit \cup {Minus} /\ Discard(c)
        /\ \/ call.lookahead = "SKIP_ALL"
           \/ call.lookahead = "SKIP_WHITESPACE" /\ c \in Whitespace
    BY <1>1, <1>4 DEF ParseSkip
  <2>2. ~Stream!Part(c) /\ Stream!Skipped(c)
    BY <1>1, <2>1, PartIs, SkippedIs
  <2>3. UNCHANGED <<call, taken>>
    BY <2>1 DEF Discard
  <2> QED
    BY <1>2, <2>1, <2>2, <2>3, SimSkip, SameStream
<1>5. ASSUME NEW c \in Bytes, ParseByte(c) PROVE Stream!Next /\ StreamInv'
  <2>1. Take(c) /\ call' = Counted(c) /\ taken' = Append(taken, c) /\ result' = result
    BY <1>5 DEF ParseByte, Goes
  <2>2. c \in Digit \/ (taken = <<>> /\ c = Minus) \/ (taken # <<>> /\ c = call.ignore)
    BY <1>1, <1>5 DEF ParseByte
  <2>3. Stream!Part(c)
    <3>1. CASE taken = <<>>
      BY <1>1, <2>2, <3>1, PartIs
    <3>2. CASE taken # <<>>
      BY <1>1, <2>2, <3>2, PartIs
    <3> QED
      BY <3>1, <3>2
  <2>4. View' = View
    BY <1>1, <2>1, ViewStays
  <2> QED
    BY <1>2, <1>5, <2>1, <2>3, <2>4, SimTake, NumberGrows
<1>6. ASSUME NEW c \in Bytes, ParseEnd(c) PROVE Stream!Next /\ StreamInv'
  <2>1. /\ Peek(c) /\ Return(<<Number>>) /\ c \notin Digit
        /\ \/ taken # <<>> /\ c # call.ignore
           \/ /\ taken = <<>> /\ c # Minus
              /\ \/ call.lookahead = "SKIP_NONE"
                 \/ call.lookahead = "SKIP_WHITESPACE" /\ c \notin Whitespace
    BY <1>1, <1>6 DEF ParseEnd
  <2>2. Unread # <<>> /\ c = Head(Unread) /\ Unread' = Unread
    BY <1>1, <2>1, PeekSame DEF Peek
  <2>3. ~Stream!Part(c) /\ ~Stream!Skipped(c)
    <3>1. CASE taken # <<>>
      BY <1>1, <2>1, <3>1, PartIs, SkippedIs
    <3>2. CASE taken = <<>>
      BY <1>1, <2>1, <3>2, PartIs, SkippedIs
    <3> QED
      BY <3>1, <3>2
  <2>4. ~Stream!Part(Head(Unread)) /\ ~Stream!Skipped(Head(Unread))
    BY <1>1, <2>2, <2>3, PartIs, SkippedIs
  <2>5. Return(Stream!Answer(taken))
    BY <1>1, <2>1, NumberIs
  <2> QED
    BY <1>1, <1>2, <2>1, <2>2, <2>4, <2>5, SimReturn, ReturnForgets
<1> QED
  BY <1>3, <1>4, <1>5, <1>6 DEF Parses
\* ecall_read_int and ecall_read, byte after byte.
LEMMA SimReads ==
  ASSUME SerialInv, StreamInv, NEW c \in Bytes, Reads(c)
  PROVE  Stream!Next /\ StreamInv'
<1> DEFINE t == Append(taken, c)
<1>1. call \in Calls /\ taken \in Seq(Bytes) /\ TextSoFar /\ ~(c \in Newline /\ c = 0)
  BY DEF SerialInv, CallState, StreamInv, Newline
<1>2. ASSUME call.op # "none", Discard(c), ~Stream!Complete(taken), ~Stream!Part(c), Stream!Skipped(c)
      PROVE  Stream!Next /\ StreamInv'
  <2>1. UNCHANGED <<call, taken>>
    BY <1>2 DEF Discard
  <2> QED
    BY <1>2, <2>1, SimSkip, SameStream
<1>3. ASSUME call.op # "none", Take(c), ~Stream!Complete(taken), Stream!Part(c),
             Stream!Complete(t), NEW answer, Return(answer), answer = Stream!Answer(t)
      PROVE  Stream!Next /\ StreamInv'
  <2> HIDE DEF t
  <2>1. Stream!Complete(t) /\ Return(Stream!Answer(t))
    BY <1>3
  <2>2. Stream!Complete(Append(taken, c)) /\ Return(Stream!Answer(Append(taken, c)))
    BY <2>1 DEF t
  <2> QED
    BY <1>3, <2>2, SimTake, ReturnForgets
<1>4. ASSUME call.op \in {"ecall_int", "ecall_string"}
      PROVE  /\ call.buffer = taken /\ Without(taken, Newline) /\ ~Stream!LastIn(taken, Newline)
             /\ (Stream!LastIn(t, Newline) <=> c \in Newline)
             /\ call.op # "none" /\ call.op \notin {"until", "findUntil"}
  <2>1. Without(taken, Newline) /\ call.buffer = taken
    BY <1>1, <1>4 DEF TextSoFar
  <2> QED
    BY <1>1, <1>4, <2>1, WithoutGrows
<1>5. ASSUME call.op \in {"ecall_int", "ecall_string"}, c \notin Newline,
             Take(c), ~Stream!Complete(taken), Stream!Part(c),
             Goes([call EXCEPT !.buffer = Append(@, c)], c)
      PROVE  Stream!Next /\ StreamInv'
  <2>1. call.op # "none" /\ call.op \notin {"until", "findUntil"}
    BY <1>4, <1>5
  <2>2. View' = View /\ taken' = Append(taken, c) /\ result' = result /\ StreamInv'
    BY <1>5, <2>1, StoreGoesOn
  <2> QED
    BY <1>5, <2>1, <2>2, SimTake
<1>6. CASE ecall_read_int(c)
  <2>1. call.op = "ecall_int" /\ Len(call.buffer) < INT_CHARS
    BY <1>6 DEF ecall_read_int
  <2>2. Len(taken) \in Nat /\ INT_CHARS \in Nat /\ Len(taken) < INT_CHARS
    BY <1>1, <1>4, <2>1, SerialAssumption
  <2>3. ~Stream!Complete(taken)
    BY <1>1, <1>4, <2>1, <2>2, CompleteIs
  <2>4. CASE c \in Digit \cup {Minus}
    <3>1. Take(c) /\ Goes([call EXCEPT !.buffer = Append(@, c)], c)
      BY <1>6, <2>4 DEF ecall_read_int
    <3>2. c \notin Newline /\ Stream!Part(c)
      BY <1>1, <2>1, <2>4, PartIs DEF Newline, Digit, Minus
    <3> QED
      BY <1>5, <2>1, <2>3, <3>1, <3>2
  <2>5. CASE c \in Newline
    <3>1. c \notin Digit \cup {Minus}
      BY <2>5 DEF Newline, Digit, Minus
    <3>2. Take(c) /\ Return(<<atoi(taken)>>)
      BY <1>4, <1>6, <2>1, <2>5, <3>1 DEF ecall_read_int
    <3>3. Stream!Part(c) /\ call.op # "none"
      BY <1>1, <2>1, <2>5, PartIs
    <3>4. Stream!LastIn(t, Newline)
      BY <1>4, <2>1, <2>5
    <3>5. atoi(taken) = Stream!Signed(t)
      BY <1>1, <2>5, BytesAreNumbers, AtoiIs
    <3> HIDE DEF t
    <3>6. Stream!Complete(t) /\ Stream!Answer(t) = <<atoi(taken)>>
      BY <1>1, <2>1, <3>4, <3>5, CompleteIs, AnswerIs
    <3> QED
      BY <1>3, <2>3, <3>2, <3>3, <3>6
  <2>6. CASE c \notin Digit \cup {Minus} \cup Newline
    <3>1. Discard(c)
      BY <1>6, <2>6 DEF ecall_read_int
    <3>2. ~Stream!Part(c) /\ Stream!Skipped(c) /\ call.op # "none"
      BY <1>1, <2>1, <2>6, PartIs, SkippedIs
    <3> QED
      BY <1>2, <2>3, <3>1, <3>2
  <2> QED
    BY <2>4, <2>5, <2>6
<1>7. CASE ecall_read_string(c)
  <2>1. call.op = "ecall_string" /\ Len(call.buffer) < call.size + 1
    BY <1>7 DEF ecall_read_string
  <2>2. call.size \in Nat
    BY <1>1, <2>1, CallShapes, SerialAssumption
  <2>3. Len(taken) \in Nat /\ Len(taken) < call.size + 1
    BY <1>1, <1>4, <2>1
  <2>4. ~Stream!Complete(taken)
    BY <1>1, <1>4, <2>1, <2>2, <2>3, CompleteIs
  <2>5. CASE c = 0
    <3>1. Discard(c)
      BY <1>7, <2>5 DEF ecall_read_string
    <3>2. ~Stream!Part(c) /\ Stream!Skipped(c) /\ call.op # "none"
      BY <1>1, <2>1, <2>5, PartIs, SkippedIs
    <3> QED
      BY <1>2, <2>4, <3>1, <3>2
  <2>6. CASE c # 0 /\ c \in Newline
    <3>1. Take(c) /\ Return(t)
      BY <1>4, <1>7, <2>1, <2>6 DEF ecall_read_string
    <3>2. Stream!Part(c) /\ call.op # "none"
      BY <1>1, <2>1, <2>6, PartIs
    <3>3. Stream!LastIn(t, Newline)
      BY <1>4, <2>1, <2>6
    <3> HIDE DEF t
    <3>4. Stream!Complete(t) /\ Stream!Answer(t) = t
      BY <1>1, <2>1, <3>3, CompleteIs, AnswerIs
    <3> QED
      BY <1>3, <2>4, <3>1, <3>2, <3>4
  <2>7. CASE c # 0 /\ c \notin Newline
    <3>1. Take(c) /\ Goes([call EXCEPT !.buffer = Append(@, c)], c)
      BY <1>7, <2>7 DEF ecall_read_string
    <3>2. Stream!Part(c)
      BY <1>1, <2>1, <2>7, PartIs
    <3> QED
      BY <1>5, <2>1, <2>4, <2>7, <3>1, <3>2
  <2> QED
    BY <2>5, <2>6, <2>7
<1>8. CASE ecall_read_char(c)
  <2>1. call.op = "ecall_char" /\ taken = <<>> /\ call.op # "none"
    BY <1>1, <1>8 DEF ecall_read_char, TextSoFar
  <2>2. ~Stream!Complete(taken)
    BY <1>1, <2>1, CompleteIs
  <2>3. CASE c = 0
    <3>1. Discard(c)
      BY <1>8, <2>3 DEF ecall_read_char
    <3>2. ~Stream!Part(c) /\ Stream!Skipped(c)
      BY <1>1, <2>1, <2>3, PartIs, SkippedIs
    <3> QED
      BY <1>2, <2>1, <2>2, <3>1, <3>2
  <2>4. CASE c # 0
    <3>1. Take(c) /\ Return(<<c>>)
      BY <1>8, <2>4 DEF ecall_read_char
    <3>2. Stream!Part(c)
      BY <1>1, <2>1, <2>4, PartIs
    <3>3. t = <<c>> /\ Len(t) = 1 /\ t # <<>>
      BY <2>1
    <3> HIDE DEF t
    <3>4. Stream!Complete(t) /\ Stream!Answer(t) = <<c>>
      BY <1>1, <2>1, <3>3, CompleteIs, AnswerIs
    <3> QED
      BY <1>3, <2>1, <2>2, <3>1, <3>2, <3>4
  <2> QED
    BY <2>3, <2>4
<1> QED
  BY <1>6, <1>7, <1>8 DEF Reads

\* The ecalls that have filled what the program gave them.
LEMMA SimReadsEnd ==
  ASSUME SerialInv, StreamInv, IntFull \/ StringFull
  PROVE  Stream!Next /\ StreamInv'
<1>1. call \in Calls /\ taken \in Seq(Bytes) /\ TextSoFar /\ Unread' = Unread
      /\ call.op \in {"ecall_int", "ecall_string"}
  BY DEF SerialInv, CallState, StreamInv, IntFull, StringFull, Unread
<1>2. call.buffer = taken /\ Without(taken, Newline)
  BY <1>1 DEF TextSoFar
<1>3. CASE IntFull
  <2>1. call.op = "ecall_int" /\ Len(taken) = INT_CHARS /\ Return(<<-1>>)
    BY <1>2, <1>3 DEF IntFull
  <2>2. ~Stream!LastIn(taken, Newline)
    <3>1. taken # <<>> => taken[Len(taken)] \notin Newline
      <4>1. taken # <<>> => Len(taken) \in 1 .. Len(taken)
        BY <1>1, EmptySeq
      <4> QED
        BY <1>2, <4>1 DEF Without
    <3> QED
      BY <3>1 DEF Stream!LastIn
  <2>3. Stream!Complete(taken) /\ Stream!Answer(taken) = <<-1>>
    BY <1>1, <2>1, <2>2, CompleteIs, AnswerIs
  <2>4. Return(Stream!Answer(taken))
    BY <2>1, <2>3
  <2> QED
    BY <1>1, <2>1, <2>3, <2>4, SimReturn, ReturnForgets
<1>4. CASE StringFull
  <2>1. call.op = "ecall_string" /\ Len(taken) = call.size + 1 /\ Return(taken)
    BY <1>2, <1>4 DEF StringFull
  <2>2. Stream!Complete(taken) /\ Stream!Answer(taken) = taken
    BY <1>1, <2>1, CompleteIs, AnswerIs
  <2>3. Return(Stream!Answer(taken))
    BY <2>1, <2>2
  <2> QED
    BY <1>1, <2>1, <2>2, <2>3, SimReturn, ReturnForgets
<1> QED
  BY <1>3, <1>4

LEMMA SimStep ==
  ASSUME SerialInv, StreamInv, Step
  PROVE  Stream!Next /\ StreamInv'
<1>1. CASE serial_read \/ serial_peek
  BY <1>1, SimRead
<1>2. CASE Store
  BY <1>2, SimStore
<1>3. CASE StoreFull \/ StoreTimeout
  BY <1>3, SimStoreEnds
<1>4. CASE FindEmpty \/ FindTimeout
  BY <1>4, SimFindEnds
<1>5. CASE FindByte
  BY <1>5, SimFindByte
<1>6. CASE ParseTimeout \/ \E c \in Bytes : Parses(c)
  BY <1>6, SimParse
<1>7. CASE IntFull \/ StringFull
  BY <1>7, SimReadsEnd
<1>8. CASE \E c \in Bytes : Reads(c)
  BY <1>8, SimReads
<1> QED
  BY <1>1, <1>2, <1>3, <1>4, <1>5, <1>6, <1>7, <1>8 DEF Step

\* A call begins with nothing taken and nothing stored.
LEMMA SimStart ==
  ASSUME SerialInv, StreamInv, Start
  PROVE  Stream!Next /\ StreamInv'
<1>1. /\ call = Idle /\ result' = <<>> /\ taken' = taken /\ taken = <<>>
      /\ Begin \/ UNCHANGED <<installed, rx, peeked>>
  BY DEF SerialInv, CallState, Start, Call, Idle
<1>2. Unread' = Unread
  BY <1>1, BeginSame DEF SerialInv, Unread
<1>3. call' \in Calls /\ call'.op # "none"
  <2>1. call' \in Calls
    BY StartKeeps DEF SerialInv, CallState
  <2>2. call'.op # "none"
    BY DEF Start, Call
  <2> QED
    BY <2>1, <2>2
<1>4. View = Idle /\ View' # Idle
  <2>1. View = Idle
    BY <1>1 DEF View, Idle, Locals
  <2>2. "op" \in DOMAIN call' /\ "op" \notin Locals /\ "op" # "length"
    BY <1>3 DEF Calls, Locals
  <2>3. View'.op = call'.op
    BY <2>2 DEF View
  <2> QED
    BY <1>3, <2>1, <2>3 DEF Idle
<1>5. Stream!Call
  BY <1>1, <1>2, <1>4 DEF Stream!Call, View, Stream!Idle, Idle
<1>6. \/ call'.op \in {"read", "peek", "ecall_char"}
      \/ call'.op \in {"bytes", "until", "findUntil", "ecall_int", "ecall_string"} /\ call'.buffer = <<>>
      \/ call'.op = "find" /\ call'.target \in Targets
      \/ call'.op = "parse" /\ ~call'.started /\ ~call'.isNegative /\ call'.value = 0
  BY DEF Start, Call
<1>7. taken' = <<>> /\ Len(taken') = 0
  BY <1>1
<1>8. TextSoFar'
  BY <1>6, <1>7 DEF TextSoFar, Without, Stores
<1>9. FoundNothing'
  <2> SUFFICES ASSUME call'.op = "find", call'.target # <<>>, Stream!Occurs(call'.target, <<>>) PROVE FALSE
    BY <1>7 DEF FoundNothing
  <2> DEFINE t == call'.target
  <2>1. t \in Seq(Bytes)
    BY <1>6, SerialAssumption
  <2> HIDE DEF t
  <2>2. t # <<>> /\ Stream!Occurs(t, <<>>)
    BY DEF t
  <2>3. PICK n \in 0 .. Len(<<>>) : Stream!Ends(t, SubSeq(<<>>, 1, n))
    BY <2>2 DEF Stream!Occurs
  <2>4. SubSeq(<<>>, 1, n) = <<>>
    OBVIOUS
  <2>5. Len(t) <= 0
    BY <2>3, <2>4 DEF Stream!Ends
  <2>6. Len(t) \in Nat \ {0}
    BY <2>1, <2>2, EmptySeq
  <2> QED
    BY <2>5, <2>6
<1>10. NumberSoFar'
  <2>1. ~Negative(<<>>)
    BY DEF Negative
  <2> SUFFICES ASSUME call'.op = "parse" 
               PROVE  /\ call'.started <=> taken' # <<>>
                      /\ call'.value = Stream!Spelt(taken', Digit \ {call'.ignore})
                      /\ call'.isNegative <=> Negative(taken') /\ Minus # call'.ignore
    BY DEF NumberSoFar, Negative
  <2> DEFINE D == Digit \ {call'.ignore}
  <2>2. Stream!Spelt(<<>>, D) = 0
    BY SpeltNone
  <2> HIDE DEF D
  <2>3. Stream!Spelt(taken', D) = 0 /\ ~Negative(taken')
    BY <1>7, <2>1, <2>2
  <2> QED
    BY <1>6, <1>7, <2>3 DEF D
<1> QED
  BY <1>5, <1>8, <1>9, <1>10 DEF StreamInv, Stream!Next

\* Every step of the serial functions is one of the abstract queue, or changes
\* nothing it knows of.
LEMMA SimNext ==
  ASSUME SerialInv, StreamInv, [Next]_vars
  PROVE  [Stream!Next]_(Stream!vars) /\ StreamInv'
<1>1. ASSUME NEW c \in Bytes, Receive(c) PROVE Stream!Next /\ StreamInv'
  <2>1. installed /\ installed' /\ peeked' = peeked /\ rx' = Append(rx, c)
    BY <1>1 DEF Receive
  <2>2. Unread = peeked \o rx /\ Unread' = peeked \o Append(rx, c)
    BY <2>1 DEF Unread
  <2>3. peeked \o Append(rx, c) = Append(peeked \o rx, c)
    BY DEF SerialInv, Ring
  <2>4. Unread' = Append(Unread, c)
    BY <2>2, <2>3
  <2>5. UNCHANGED <<call, result, taken>> /\ View' = View
    BY <1>1 DEF Receive, View
  <2>6. Stream!Arrive(c)
    BY <2>4, <2>5 DEF Stream!Arrive, View
  <2> QED
    BY <2>5, <2>6, SameStream DEF Stream!Next
<1>2. CASE serial_begin
  <2>1. UNCHANGED <<call, result, taken>> /\ View' = View /\ Unread' = Unread
    BY <1>2, BeginSame DEF serial_begin, View, SerialInv
  <2>2. UNCHANGED Stream!vars
    BY <2>1 DEF Stream!vars, View
  <2> QED
    BY <2>1, <2>2, SameStream
<1>3. CASE serial_end
  <2>1. UNCHANGED <<call, result, taken>> /\ View' = View /\ Unread' = <<>> /\ call = Idle
    BY <1>3 DEF serial_end, View, Unread
  <2>2. View = Idle
    BY <2>1 DEF View, Idle, Locals
  <2>3. Stream!Drop
    BY <2>1, <2>2 DEF Stream!Drop, View, Stream!Idle, Idle
  <2> QED
    BY <2>1, <2>3, SameStream DEF Stream!Next
<1>4. CASE Start
  BY <1>4, SimStart
<1>5. CASE Step
  BY <1>5, SimStep
<1>6. CASE UNCHANGED vars
  <2>1. UNCHANGED <<call, result, taken>> /\ View' = View /\ Unread' = Unread
    BY <1>6 DEF vars, View, Unread
  <2>2. UNCHANGED Stream!vars
    BY <2>1 DEF Stream!vars, View
  <2> QED
    BY <2>1, <2>2, SameStream
<1> QED
  BY <1>1, <1>2, <1>3, <1>4, <1>5, <1>6 DEF Next

LEMMA SimInit == Init => Stream!Init /\ StreamInv
<1> SUFFICES ASSUME Init PROVE Stream!Init /\ StreamInv
  OBVIOUS
<1>1. call = Idle /\ taken = <<>> /\ result = <<>> /\ Unread = <<>> /\ View = Idle
  BY DEF Init, Unread, View, Idle, Locals
<1>2. Stream!Init
  BY <1>1 DEF Stream!Init, View, Stream!Idle, Idle
<1>3. StreamInv
  BY <1>1 DEF StreamInv, TextSoFar, FoundNothing, NumberSoFar, Idle, Stores
<1> QED
  BY <1>2, <1>3

\* What the serial functions do between the ring of the driver and the byte
\* that was peeked is a queue of bytes: whatever is called with whatever
\* arguments, a call takes what it needs and not one byte more, and its answer
\* is what those bytes say (Stream.cpp:105-318, creatino.cpp:51-220).
THEOREM SerialIsAStream == Spec => ImplementsByteStream
<1>1. SerialInv /\ StreamInv /\ [Next]_vars => StreamInv' /\ [Stream!Next]_(Stream!vars)
  BY SimNext
<1> QED
  BY <1>1, SimInit, SerialInvariant, PTL DEF Spec, ImplementsByteStream, Stream!Spec
=============================================================================
