--------------------------- MODULE LogStreamProofs ---------------------------
(***************************************************************************)
(* Proofs about LogStream, for any size of a read, any cap on a line, any     *)
(* keywords and any number and length of lines, rotations and truncations:   *)
(* unless the file is replaced unnoticed, what is delivered is genuine and in *)
(* order, and as long as it is only appended to, none of its lines is missed. *)
(***************************************************************************)
EXTENDS LogStream, SequenceTheorems, FiniteSetTheorems, WellFoundedInduction, TLAPS

(* What can follow a byte in a file, and what that means for bytes further    *)
(* apart.                                                                   *)
Follows(a, b) ==
    IF Newline(a) THEN b[1] = a[1] + 1 ELSE b[1] = a[1] /\ b[2] \in {0, a[2] + 1}

Genuine(s) ==
    /\ \A i \in 1..(Len(s) - 1) : Follows(s[i], s[i + 1])
    /\ \A i, j \in 1..Len(s) : i < j =>
          /\ s[i][1] <= s[j][1]
          /\ Newline(s[i]) => s[i][1] < s[j][1]
          /\ (\A m \in i..(j - 1) : ~Newline(s[m])) => s[i][1] = s[j][1]

(* A byte the writer has written: the line it belongs to is finished if it is *)
(* a newline, or if no line is being written.                               *)
Written(byte) ==
    /\ byte[1] <= line
    /\ Newline(byte) \/ index = 0 => byte[1] < line

WriterInv ==
    /\ Genuine(file)
    /\ \A i \in 1..Len(file) : Written(file[i])
    /\ exists /\ index > 0 => file # <<>> /\ file[Len(file)] = <<line, index>>
    /\ exists /\ index = 0 /\ file # <<>> => file[Len(file)] = <<line - 1, 0>>
    /\ ~exists => index = 0
    /\ index > 0 => line <= MaxLines
    /\ inode >= 1

-----------------------------------------------------------------------------
Live == pc \in {"poll", "read", "lines"}

(* The file named by the path is the one that was read, and partial_line ends *)
(* where the next read begins.                                              *)
Same  == inode = ino /\ Len(file) >= offset
Taken == offset - Len(partial)

(* Every line delivered comes before the byte.                              *)
Before(byte) == \A k \in 1..Len(delivered) : delivered[k] # <<>> => delivered[k][1][1] < byte[1]

DeliveredInv ==
    /\ GenuineInOrder
    /\ \A k \in 1..Len(delivered) : delivered[k] # <<>> => delivered[k][1][1] < line

SameInv ==
    /\ Taken >= 0
    /\ partial = SubSeq(file, Taken + 1, offset)
    /\ \A j \in 1..Len(file) : j > Taken => Before(file[j])

ReplacedInv ==
    /\ \A i \in 1..Len(partial) : partial[i][1] < line
    /\ \A j \in 1..Len(file) :
          /\ Before(file[j])
          /\ \A i \in 1..Len(partial) : partial[i][1] < file[j][1]

CallInv ==
    /\ ino <= inode
    /\ Genuine(partial)
    /\ \A i \in 1..Len(partial) : Written(partial[i]) /\ Before(partial[i])
    /\ IF Same THEN SameInv ELSE ReplacedInv
    /\ pc = "read" => exists /\ Same

OrderInv == DeliveredInv /\ (Live => CallInv)

-----------------------------------------------------------------------------
(* NothingMissed of the lines that end at or before a position q, in a file f *)
(* read from the offset st for a keyword kw, when the lines d were delivered. *)
BeginIn(f, st, i) == CHOOSE b \in (st + 1)..i :
                        /\ b = st + 1 \/ Newline(f[b - 1])
                        /\ \A j \in b..(i - 1) : ~Newline(f[j])
LineIn(f, st, i)  == SubSeq(f, BeginIn(f, st, i), i - 1)
EndsIn(f, st, q)  == {i \in (st + 1)..q : Newline(f[i])}
Contains(l, kw)   == kw = 0 \/ \E i \in 1..Len(l) : l[i][2] = kw
ExpectedIn(f, st, kw, q) == {i \in EndsIn(f, st, q) : Contains(Clipped(LineIn(f, st, i)), kw)}
SureIn(f, st, kw, q) == kw = 0 \/ \A i \in EndsIn(f, st, q) : Len(LineIn(f, st, i)) <= LineCap

\* The line l was delivered for a line t of the file.
Stands(l, t) == Len(l) = Len(Clipped(t)) /\ (l # <<>> => l[1][1] = t[1][1])

DeliversIn(f, st, kw, d, q) ==
    LET expected == ExpectedIn(f, st, kw, q)
    IN /\ Len(d) = Cardinality(expected)
       /\ \A i \in expected :
             Stands(d[Cardinality({j \in expected : j <= i})], LineIn(f, st, i))

(* A file that is only appended to: partial_line is the text since the last   *)
(* line delivered, or the last LineCap bytes of it.                          *)
Untouched == rotations + truncations = 0 /\ inode = 1

AppendInv ==
    /\ exists /\ ino = 1 /\ offset <= Len(file) /\ start <= Taken
    /\ partial = SubSeq(file, Taken + 1, offset)
    /\ \/ Taken = start \/ Newline(file[Taken])
       \/ LineCap <= Len(partial) /\ \A j \in (Taken + 1)..(Taken + LineCap) : ~Newline(file[j])
    /\ pc # "lines" => ~HasLine(partial)
    /\ SureIn(file, start, keyword, Taken) => DeliversIn(file, start, keyword, delivered, Taken)

UntouchedInv ==
    /\ pc = "initial" => delivered = <<>> /\ partial = <<>>
    /\ Untouched /\ Live => AppendInv

IInv ==
    /\ TypeOK /\ WriterInv /\ UntouchedInv
    /\ ~UnnoticedSwaps => OrderInv

-----------------------------------------------------------------------------
(* Sequences: a piece of one, one element more, two pieces joined.           *)
LEMMA Cutting ==
    ASSUME NEW S, NEW s \in Seq(S), NEW m \in Nat, NEW n \in Nat,
           m >= 1, m <= n + 1, n <= Len(s)
    PROVE  /\ SubSeq(s, m, n) \in Seq(S) /\ Len(SubSeq(s, m, n)) = n - m + 1
           /\ \A i \in 1..(n - m + 1) : SubSeq(s, m, n)[i] = s[m + i - 1]
<1> DEFINE t == SubSeq(s, m, n)
<1>1. Len(s) \in Nat
  BY LenProperties
<1>2. \A i \in 1..Len(s) : s[i] \in S
  BY ElementOfSeq
<1>3. m \in Int /\ n \in Int /\ \A i \in m..n : s[i] \in S
  BY <1>1, <1>2
<1>4. \A k, l \in Int : (\A i \in k..l : s[i] \in S) =>
          /\ SubSeq(s, k, l) \in Seq(S)
          /\ Len(SubSeq(s, k, l)) = IF k <= l THEN l - k + 1 ELSE 0
          /\ \A i \in 1..(l - k + 1) : SubSeq(s, k, l)[i] = s[k + i - 1]
  BY SubSeqProperties
<1>5. /\ t \in Seq(S)
      /\ Len(t) = IF m <= n THEN n - m + 1 ELSE 0
      /\ \A i \in 1..(n - m + 1) : t[i] = s[m + i - 1]
  BY <1>3, <1>4, Zenon
<1> HIDE DEF t
<1>6. Len(t) = n - m + 1
  BY <1>5
<1> QED
  BY <1>5, <1>6 DEF t

LEMMA Extending ==
    ASSUME NEW S, NEW s \in Seq(S), NEW e \in S
    PROVE  /\ Append(s, e) \in Seq(S) /\ Append(s, e) # <<>>
           /\ Len(Append(s, e)) = Len(s) + 1 /\ Len(s) \in Nat
           /\ Append(s, e)[Len(s) + 1] = e
           /\ \A i \in 1..Len(s) : Append(s, e)[i] = s[i]
<1>1. Len(s) \in Nat
  BY LenProperties
<1> QED
  BY <1>1, AppendProperties

(* Two sequences with the same elements are the same.                        *)
LEMMA SameElements ==
    ASSUME NEW S, NEW s \in Seq(S), NEW t \in Seq(S), Len(s) = Len(t),
           \A i \in 1..Len(s) : s[i] = t[i]
    PROVE  s = t
  BY SeqEqual

LEMMA Joining ==
    ASSUME NEW S, NEW s \in Seq(S), NEW k \in Nat, NEW m \in Nat, NEW n \in Nat,
           k >= 1, k <= m + 1, m <= n, n <= Len(s)
    PROVE  SubSeq(s, k, m) \o SubSeq(s, m + 1, n) = SubSeq(s, k, n)
<1> DEFINE a == SubSeq(s, k, m)
           b == SubSeq(s, m + 1, n)
           c == SubSeq(s, k, n)
<1>1. Len(s) \in Nat
  BY LenProperties
<1>2. a \in Seq(S) /\ Len(a) = m - k + 1 /\ \A i \in 1..(m - k + 1) : a[i] = s[k + i - 1]
  BY <1>1, Cutting
<1>3. b \in Seq(S) /\ Len(b) = n - (m + 1) + 1 /\ \A i \in 1..(n - (m + 1) + 1) : b[i] = s[(m + 1) + i - 1]
  BY <1>1, Cutting
<1>4. c \in Seq(S) /\ Len(c) = n - k + 1 /\ \A i \in 1..(n - k + 1) : c[i] = s[k + i - 1]
  BY <1>1, Cutting
<1> HIDE DEF a, b, c
<1>5. /\ a \o b \in Seq(S) /\ Len(a \o b) = Len(a) + Len(b)
      /\ \A i \in 1..(Len(a) + Len(b)) : (a \o b)[i] = IF i <= Len(a) THEN a[i] ELSE b[i - Len(a)]
  BY <1>2, <1>3, ConcatProperties
<1>6. Len(a \o b) = Len(c)
  BY <1>2, <1>3, <1>4, <1>5
<1>7. ASSUME NEW i \in 1..Len(c)
      PROVE  (a \o b)[i] = c[i]
  <2>1. i \in 1..(Len(a) + Len(b)) /\ i \in 1..(n - k + 1)
    BY <1>2, <1>3, <1>4
  <2>2. CASE i <= Len(a)
    <3>1. i \in 1..(m - k + 1)
      BY <1>2, <2>2
    <3> QED
      BY <1>2, <1>4, <1>5, <2>1, <2>2, <3>1
  <2>3. CASE ~(i <= Len(a))
    <3>1. /\ i - Len(a) \in 1..(n - (m + 1) + 1)
          /\ (m + 1) + (i - Len(a)) - 1 = k + i - 1
      BY <1>2, <2>1, <2>3
    <3> QED
      BY <1>3, <1>4, <1>5, <2>1, <2>3, <3>1
  <2> QED
    BY <2>2, <2>3
<1> QED
  BY <1>4, <1>5, <1>6, <1>7, SameElements DEF a, b, c

LEMMA PieceStays ==
    ASSUME NEW S, NEW f \in Seq(S), NEW g \in Seq(S), NEW k \in Nat, NEW n \in Nat,
           k >= 1, k <= n + 1, n <= Len(f), n <= Len(g), \A i \in 1..n : g[i] = f[i]
    PROVE  SubSeq(g, k, n) = SubSeq(f, k, n)
<1> DEFINE u == SubSeq(f, k, n)
           v == SubSeq(g, k, n)
<1>1. u \in Seq(S) /\ Len(u) = n - k + 1 /\ \A x \in 1..(n - k + 1) : u[x] = f[k + x - 1]
  BY Cutting
<1>2. v \in Seq(S) /\ Len(v) = n - k + 1 /\ \A x \in 1..(n - k + 1) : v[x] = g[k + x - 1]
  BY Cutting
<1> HIDE DEF u, v
<1>3. \A x \in 1..Len(v) : x \in 1..(n - k + 1) /\ k + x - 1 \in 1..n
  BY <1>2
<1>4. Len(u) = Len(v) /\ \A x \in 1..Len(v) : v[x] = u[x]
  BY <1>1, <1>2, <1>3
<1> QED
  BY <1>1, <1>2, <1>4, SameElements DEF u, v

LEMMA CuttingAgain ==
    ASSUME NEW S, NEW s \in Seq(S), NEW k \in Nat, NEW n \in Nat, NEW i \in Nat, NEW j \in Nat,
           k >= 1, k <= n + 1, n <= Len(s), i >= 1, i <= j + 1, j <= n - k + 1
    PROVE  SubSeq(SubSeq(s, k, n), i, j) = SubSeq(s, k + i - 1, k + j - 1)
<1> DEFINE t == SubSeq(s, k, n)
           u == SubSeq(t, i, j)
           v == SubSeq(s, k + i - 1, k + j - 1)
<1>1. Len(s) \in Nat
  BY LenProperties
<1>2. t \in Seq(S) /\ Len(t) = n - k + 1 /\ \A x \in 1..(n - k + 1) : t[x] = s[k + x - 1]
  BY <1>1, Cutting
<1> HIDE DEF t
<1>3. u \in Seq(S) /\ Len(u) = j - i + 1 /\ \A x \in 1..(j - i + 1) : u[x] = t[i + x - 1]
  BY <1>2, Cutting
<1>4. k + i - 1 \in Nat /\ k + j - 1 \in Nat
  OBVIOUS
<1>5. /\ v \in Seq(S) /\ Len(v) = (k + j - 1) - (k + i - 1) + 1
      /\ \A x \in 1..((k + j - 1) - (k + i - 1) + 1) : v[x] = s[(k + i - 1) + x - 1]
  BY <1>1, <1>4, Cutting
<1> HIDE DEF u, v
<1>6. Len(u) = Len(v)
  BY <1>3, <1>5
<1>7. ASSUME NEW x \in 1..Len(u)
      PROVE  u[x] = v[x]
  <2>1. /\ x \in 1..(j - i + 1) /\ x \in 1..((k + j - 1) - (k + i - 1) + 1)
        /\ i + x - 1 \in 1..(n - k + 1) /\ k + (i + x - 1) - 1 = (k + i - 1) + x - 1
    BY <1>3
  <2> QED
    BY <1>2, <1>3, <1>5, <2>1
<1> QED
  BY <1>3, <1>5, <1>6, <1>7, SameElements DEF t, u, v

(* A nonempty set of numbers has a least one.                                *)
LEMMA LeastExists ==
    ASSUME NEW S, S \subseteq Nat, S # {}
    PROVE  \E x \in S : \A y \in S : x <= y
<1> DEFINE R == OpToRel(<, Nat)
<1>1. IsWellFoundedOn(R, Nat)
  BY NatLessThanWellFounded, Zenon
<1>2. ASSUME NEW x \in Nat, NEW y \in Nat, y < x
      PROVE  <<y, x>> \in R
  <2>1. <<y, x>> \in Nat \X Nat /\ <<y, x>>[1] < <<y, x>>[2]
    <3> HIDE DEF R
    <3> QED
      BY <1>2
  <2> QED
    BY <2>1, Zenon DEF OpToRel
<1> HIDE DEF R
<1>3. PICK x \in S : \A y \in S : ~(<<y, x>> \in R)
  BY <1>1, WFMin
<1>4. ASSUME NEW y \in S
      PROVE  x <= y
  <2>1. x \in Nat /\ y \in Nat
    OBVIOUS
  <2>2. ~(y < x)
    BY <2>1, <1>2, <1>3, Zenon
  <2> QED
    BY <2>1, <2>2
<1> QED
  BY <1>4, Zenon

-----------------------------------------------------------------------------
(* Bytes, and what a file of consecutive ones has.                           *)
LEMMA ByteParts ==
    /\ \A b \in Bytes : b[1] \in Nat /\ b[2] \in Nat
    /\ \A x \in 1..(MaxLines + 1), y \in 0..MaxLength :
          <<x, y>> \in Bytes /\ <<x, y>>[1] = x /\ <<x, y>>[2] = y
  BY SizesAssumption DEF Bytes

LEMMA FirstNewlineIs ==
    ASSUME NEW t \in Seq(Bytes), HasLine(t)
    PROVE  /\ FirstNewline(t) \in 1..Len(t) /\ Newline(t[FirstNewline(t)])
           /\ \A j \in 1..(FirstNewline(t) - 1) : ~Newline(t[j])
<1> DEFINE S == {i \in 1..Len(t) : Newline(t[i])}
<1>1. Len(t) \in Nat
  BY LenProperties
<1>2. S \subseteq Nat /\ S # {}
  BY <1>1 DEF HasLine
<1>3. PICK i \in S : \A y \in S : i <= y
  BY <1>2, LeastExists, Zenon
<1>4. \A j \in 1..(i - 1) : ~Newline(t[j])
  <2> SUFFICES ASSUME NEW j \in 1..(i - 1), Newline(t[j])
               PROVE  FALSE
    OBVIOUS
  <2>1. j \in 1..Len(t) /\ i \in Nat /\ j < i
    BY <1>1
  <2> QED
    BY <1>3, <2>1
<1>5. \E n \in 1..Len(t) : Newline(t[n]) /\ \A j \in 1..(n - 1) : ~Newline(t[j])
  BY <1>4
<1> QED
  BY <1>5, Zenon DEF FirstNewline

LEMMA GenuineSub ==
    ASSUME NEW s \in Seq(Bytes), Genuine(s), NEW m \in Nat, NEW n \in Nat,
           m >= 1, m <= n + 1, n <= Len(s)
    PROVE  Genuine(SubSeq(s, m, n))
<1> DEFINE t == SubSeq(s, m, n)
<1>1. Len(s) \in Nat
  BY LenProperties
<1>2. t \in Seq(Bytes) /\ Len(t) = n - m + 1 /\ \A i \in 1..(n - m + 1) : t[i] = s[m + i - 1]
  BY <1>1, Cutting
<1> HIDE DEF t
<1>3. \A i \in 1..Len(t) : m + i - 1 \in 1..Len(s) /\ t[i] = s[m + i - 1]
  BY <1>1, <1>2
<1>4. ASSUME NEW i \in 1..(Len(t) - 1)
      PROVE  Follows(t[i], t[i + 1])
  <2>1. /\ i \in 1..Len(t) /\ i + 1 \in 1..Len(t)
        /\ m + i - 1 \in 1..(Len(s) - 1) /\ m + (i + 1) - 1 = (m + i - 1) + 1
    BY <1>1, <1>2
  <2> QED
    BY <1>3, <2>1 DEF Genuine
<1>5. ASSUME NEW i \in 1..Len(t), NEW j \in 1..Len(t), i < j
      PROVE  /\ t[i][1] <= t[j][1]
             /\ Newline(t[i]) => t[i][1] < t[j][1]
             /\ (\A x \in i..(j - 1) : ~Newline(t[x])) => t[i][1] = t[j][1]
  <2> DEFINE a == m + i - 1
             b == m + j - 1
  <2>1. a \in 1..Len(s) /\ b \in 1..Len(s) /\ a < b /\ t[i] = s[a] /\ t[j] = s[b]
    BY <1>2, <1>3, <1>5
  <2>2. ASSUME \A x \in i..(j - 1) : ~Newline(t[x])
        PROVE  \A x \in a..(b - 1) : ~Newline(s[x])
    <3> SUFFICES ASSUME NEW x \in a..(b - 1)
                 PROVE  ~Newline(s[x])
      OBVIOUS
    <3>1. /\ x - m + 1 \in i..(j - 1) /\ x - m + 1 \in 1..Len(t)
          /\ m + (x - m + 1) - 1 = x
      BY <1>2
    <3> QED
      BY <1>3, <2>2, <3>1
  <2> HIDE DEF a, b
  <2> QED
    BY <2>1, <2>2 DEF Genuine
<1> QED
  BY <1>4, <1>5 DEF Genuine, t

LEMMA GenuineAppend ==
    ASSUME NEW s \in Seq(Bytes), Genuine(s), NEW e \in Bytes,
           s # <<>> => Follows(s[Len(s)], e)
    PROVE  Genuine(Append(s, e))
<1> DEFINE t == Append(s, e)
           n == Len(s)
<1>1. /\ t \in Seq(Bytes) /\ Len(t) = n + 1 /\ n \in Nat /\ t[n + 1] = e
      /\ \A i \in 1..n : t[i] = s[i]
  BY Extending
<1>2. \A i \in 1..n : s[i] \in Bytes
  BY ElementOfSeq
<1>3. n > 0 => s # <<>>
  BY EmptySeq
<1> HIDE DEF t, n
<1>4. ASSUME NEW i \in 1..(Len(t) - 1)
      PROVE  Follows(t[i], t[i + 1])
  <2>1. i \in 1..n
    BY <1>1
  <2>2. CASE i = n
    BY <1>1, <1>3, <2>1, <2>2 DEF n
  <2>3. CASE i # n
    <3>1. i + 1 \in 1..n /\ i \in 1..(Len(s) - 1)
      BY <1>1, <2>1, <2>3 DEF n
    <3> QED
      BY <1>1, <2>1, <3>1 DEF Genuine
  <2> QED
    BY <2>2, <2>3
<1>5. ASSUME n > 0
      PROVE  /\ s[n] \in Bytes /\ s[n][1] <= e[1]
             /\ Newline(s[n]) => s[n][1] < e[1]
             /\ ~Newline(s[n]) => s[n][1] = e[1]
  <2>1. s[n] \in Bytes /\ Follows(s[n], e)
    BY <1>1, <1>2, <1>3, <1>5 DEF n
  <2> QED
    BY <2>1, ByteParts DEF Follows
<1>6. ASSUME NEW i \in 1..Len(t), NEW j \in 1..Len(t), i < j
      PROVE  /\ t[i][1] <= t[j][1]
             /\ Newline(t[i]) => t[i][1] < t[j][1]
             /\ (\A x \in i..(j - 1) : ~Newline(t[x])) => t[i][1] = t[j][1]
  <2>1. i \in 1..n /\ t[i] = s[i] /\ n > 0
    BY <1>1, <1>6
  <2>2. CASE j \in 1..n
    <3>1. (\A x \in i..(j - 1) : ~Newline(t[x])) => (\A x \in i..(j - 1) : ~Newline(s[x]))
      <4>1. \A x \in i..(j - 1) : x \in 1..n
        BY <1>1, <2>1, <2>2
      <4> QED
        BY <1>1, <4>1
    <3> QED
      BY <1>1, <1>6, <2>1, <2>2, <3>1 DEF Genuine, n
  <2>3. CASE j = n + 1
    <3>1. t[j] = e /\ s[i] \in Bytes /\ s[n] \in Bytes
      BY <1>1, <1>2, <1>5, <2>1, <2>3
    <3>2. CASE i = n
      <4>1. i \in i..(j - 1)
        BY <1>1, <2>3, <3>2
      <4> QED
        BY <1>5, <2>1, <3>1, <3>2, <4>1
    <3>3. CASE i < n
      <4>1. n \in 1..n /\ n \in i..(j - 1)
        BY <1>1, <2>1, <2>3
      <4>2. /\ s[i][1] <= s[n][1]
            /\ Newline(s[i]) => s[i][1] < s[n][1]
            /\ (\A x \in i..(n - 1) : ~Newline(s[x])) => s[i][1] = s[n][1]
        BY <2>1, <3>3, <4>1 DEF Genuine, n
      <4>3. ASSUME \A x \in i..(j - 1) : ~Newline(t[x])
            PROVE  (\A x \in i..(n - 1) : ~Newline(s[x])) /\ ~Newline(s[n])
        <5>1. t[n] = s[n] /\ ~Newline(t[n])
          BY <1>1, <4>1, <4>3
        <5>2. \A x \in i..(n - 1) : x \in 1..n /\ x \in i..(j - 1)
          BY <1>1, <2>1, <2>3
        <5> QED
          BY <1>1, <4>3, <5>1, <5>2
      <4>4. s[i][1] \in Nat /\ s[n][1] \in Nat /\ e[1] \in Nat
        BY <3>1, ByteParts
      <4> QED
        BY <1>5, <2>1, <3>1, <4>2, <4>3, <4>4
    <3> QED
      BY <1>1, <2>1, <3>2, <3>3
  <2> QED
    BY <1>1, <2>2, <2>3
<1> QED
  BY <1>4, <1>6 DEF Genuine, t

(* Where the line that ends at i begins: there is one such place only.        *)
BeginsAt(f, st, i, b) ==
    /\ b = st + 1 \/ Newline(f[b - 1])
    /\ \A j \in b..(i - 1) : ~Newline(f[j])

LEMMA BeginIsThere ==
    ASSUME NEW f, NEW st \in Nat, NEW i \in Nat, i > st
    PROVE  BeginIn(f, st, i) \in (st + 1)..i /\ BeginsAt(f, st, i, BeginIn(f, st, i))
<1> DEFINE S == {b \in (st + 1)..i : \A j \in b..(i - 1) : ~Newline(f[j])}
<1>1. S \subseteq Nat /\ i \in S
  OBVIOUS
<1>2. PICK b \in S : \A y \in S : b <= y
  BY <1>1, LeastExists
<1>3. b = st + 1 \/ Newline(f[b - 1])
  <2> SUFFICES ASSUME b # st + 1, ~Newline(f[b - 1])
               PROVE  FALSE
    OBVIOUS
  <2>1. b - 1 \in (st + 1)..i
    BY <1>2
  <2>2. \A j \in (b - 1)..(i - 1) : j = b - 1 \/ j \in b..(i - 1)
    BY <2>1
  <2>3. b - 1 \in S
    BY <1>2, <2>1, <2>2
  <2> QED
    BY <1>2, <2>1, <2>3
<1>4. \E x \in (st + 1)..i : BeginsAt(f, st, i, x)
  BY <1>2, <1>3 DEF BeginsAt
<1> QED
  BY <1>4, Zenon DEF BeginIn, BeginsAt

LEMMA BeginIsUnique ==
    ASSUME NEW f, NEW st \in Nat, NEW i \in Nat, i > st,
           NEW b \in (st + 1)..i, BeginsAt(f, st, i, b)
    PROVE  BeginIn(f, st, i) = b
<1> DEFINE c == BeginIn(f, st, i)
<1>1. c \in (st + 1)..i /\ BeginsAt(f, st, i, c)
  BY BeginIsThere
<1> HIDE DEF c
<1>2. ~(c < b)
  <2> SUFFICES ASSUME c < b
               PROVE  FALSE
    OBVIOUS
  <2>1. b # st + 1 /\ b - 1 \in c..(i - 1)
    BY <1>1
  <2> QED
    BY <1>1, <2>1 DEF BeginsAt
<1>3. ~(b < c)
  <2> SUFFICES ASSUME b < c
               PROVE  FALSE
    OBVIOUS
  <2>1. c # st + 1 /\ c - 1 \in b..(i - 1)
    BY <1>1
  <2> QED
    BY <1>1, <2>1 DEF BeginsAt
<1> QED
  BY <1>1, <1>2, <1>3 DEF c

(* Appending to a file changes none of the lines it already has.             *)
LEMMA LinesStay ==
    ASSUME NEW f \in Seq(Bytes), NEW g \in Seq(Bytes), NEW st \in Nat, NEW q \in Nat,
           q <= Len(f), q <= Len(g), \A i \in 1..q : g[i] = f[i]
    PROVE  /\ EndsIn(g, st, q) = EndsIn(f, st, q)
           /\ \A i \in (st + 1)..q : LineIn(g, st, i) = LineIn(f, st, i)
<1>1. Len(f) \in Nat /\ Len(g) \in Nat
  BY LenProperties
<1>2. \A i \in (st + 1)..q : i \in 1..q
  OBVIOUS
<1>3. EndsIn(g, st, q) = EndsIn(f, st, q)
  BY <1>2 DEF EndsIn
<1>4. ASSUME NEW i \in (st + 1)..q
      PROVE  LineIn(g, st, i) = LineIn(f, st, i)
  <2> DEFINE b == BeginIn(f, st, i)
  <2>1. b \in (st + 1)..i /\ BeginsAt(f, st, i, b)
    BY BeginIsThere
  <2> HIDE DEF b
  <2>2. /\ \A j \in b..(i - 1) : j \in 1..q
        /\ b # st + 1 => b - 1 \in 1..q
    BY <2>1
  <2>3. BeginsAt(g, st, i, b)
    BY <2>1, <2>2 DEF BeginsAt
  <2>4. BeginIn(g, st, i) = b
    BY <2>1, <2>3, BeginIsUnique
  <2>5. /\ b \in Nat /\ i - 1 \in Nat /\ b >= 1 /\ b <= (i - 1) + 1 /\ i - 1 <= Len(f) /\ i - 1 <= Len(g)
        /\ \A j \in 1..(i - 1) : g[j] = f[j]
    BY <1>1, <2>1
  <2>6. SubSeq(g, b, i - 1) = SubSeq(f, b, i - 1)
    BY <2>2, <2>5, PieceStays
  <2> QED
    BY <2>4, <2>6 DEF LineIn, b
<1> QED
  BY <1>3, <1>4

LEMMA DeliversStays ==
    ASSUME NEW f \in Seq(Bytes), NEW g \in Seq(Bytes), NEW st \in Nat, NEW q \in Nat, NEW kw, NEW d,
           q <= Len(f), q <= Len(g), \A i \in 1..q : g[i] = f[i]
    PROVE  /\ SureIn(g, st, kw, q) => SureIn(f, st, kw, q)
           /\ DeliversIn(f, st, kw, d, q) => DeliversIn(g, st, kw, d, q)
<1>1. /\ EndsIn(g, st, q) = EndsIn(f, st, q)
      /\ \A i \in EndsIn(f, st, q) : LineIn(g, st, i) = LineIn(f, st, i)
  BY LinesStay DEF EndsIn
<1>2. ExpectedIn(g, st, kw, q) = ExpectedIn(f, st, kw, q)
  BY <1>1 DEF ExpectedIn
<1>3. \A i \in ExpectedIn(f, st, kw, q) : LineIn(g, st, i) = LineIn(f, st, i)
  BY <1>1 DEF ExpectedIn
<1> QED
  BY <1>1, <1>2, <1>3 DEF SureIn, DeliversIn

(* A piece of the file without a newline holds the end of no line.           *)
LEMMA NoEndBetween ==
    ASSUME NEW f, NEW st \in Nat, NEW p \in Nat, NEW q \in Nat, NEW kw, NEW d,
           p <= q, \A i \in (p + 1)..q : ~Newline(f[i])
    PROVE  /\ EndsIn(f, st, q) = EndsIn(f, st, p)
           /\ ExpectedIn(f, st, kw, q) = ExpectedIn(f, st, kw, p)
           /\ SureIn(f, st, kw, q) <=> SureIn(f, st, kw, p)
           /\ DeliversIn(f, st, kw, d, q) <=> DeliversIn(f, st, kw, d, p)
<1>1. \A i \in (st + 1)..q : i \in (st + 1)..p \/ i \in (p + 1)..q
  OBVIOUS
<1>2. (st + 1)..p \subseteq (st + 1)..q
  OBVIOUS
<1>3. EndsIn(f, st, q) = EndsIn(f, st, p)
  BY <1>1, <1>2 DEF EndsIn
<1>4. ExpectedIn(f, st, kw, q) = ExpectedIn(f, st, kw, p)
  BY <1>3 DEF ExpectedIn
<1> QED
  BY <1>3, <1>4 DEF SureIn, DeliversIn

LEMMA ClippedIs ==
    ASSUME NEW l \in Seq(Bytes)
    PROVE  \E c \in 0..Len(l) : /\ c <= LineCap /\ Clipped(l) = SubSeq(l, 1, c)
                                /\ c = IF Len(l) > LineCap THEN LineCap ELSE Len(l)
<1>1. Len(l) \in Nat
  BY LenProperties
<1> QED
  BY <1>1, SizesAssumption DEF Clipped

LEMMA ClippedType ==
    ASSUME NEW l \in Seq(Bytes)
    PROVE  /\ Clipped(l) \in Seq(Bytes) /\ Len(Clipped(l)) <= LineCap
           /\ Len(Clipped(l)) <= Len(l)
           /\ Len(Clipped(l)) = IF Len(l) > LineCap THEN LineCap ELSE Len(l)
           /\ \A i \in 1..Len(Clipped(l)) : Clipped(l)[i] = l[i]
<1>1. Len(l) \in Nat
  BY LenProperties
<1>2. PICK c \in 0..Len(l) : /\ c <= LineCap /\ Clipped(l) = SubSeq(l, 1, c)
                             /\ c = IF Len(l) > LineCap THEN LineCap ELSE Len(l)
  BY ClippedIs
<1>3. c \in Nat /\ c <= Len(l) /\ 1 <= c + 1
  BY <1>1
<1> DEFINE t == SubSeq(l, 1, c)
<1>4. t \in Seq(Bytes) /\ Len(t) = c - 1 + 1 /\ \A i \in 1..(c - 1 + 1) : t[i] = l[1 + i - 1]
  BY <1>3, Cutting
<1> HIDE DEF t
<1>5. Len(t) = c /\ \A i \in 1..Len(t) : t[i] = l[i]
  BY <1>3, <1>4
<1>6. Clipped(l) = t
  BY <1>2 DEF t
<1> QED
  BY <1>2, <1>3, <1>4, <1>5, <1>6

-----------------------------------------------------------------------------
(* The pieces of partial_line a step takes from it or leaves in it.           *)
LEMMA Types ==
    ASSUME TypeOK
    PROVE  /\ Len(file) \in Nat /\ Len(partial) \in Nat /\ Len(delivered) \in Nat
           /\ \A i \in 1..Len(file) : file[i] \in Bytes
           /\ \A i \in 1..Len(partial) : partial[i] \in Bytes
           /\ \A i \in 1..Len(delivered) : delivered[i] \in Seq(Bytes)
           /\ LineCap \in Nat /\ LineCap >= 1
  BY LenProperties, ElementOfSeq, SizesAssumption DEF TypeOK

LEMMA CutOff ==
    ASSUME TypeOK, HasLine(partial), NEW end, end = FirstNewline(partial)
    PROVE  LET piece == SubSeq(partial, 1, end - 1)
               rest  == SubSeq(partial, end + 1, Len(partial))
           IN /\ end \in 1..Len(partial) /\ Newline(partial[end])
              /\ \A j \in 1..(end - 1) : ~Newline(partial[j])
              /\ piece \in Seq(Bytes) /\ Len(piece) = end - 1
              /\ \A i \in 1..(end - 1) : piece[i] = partial[i]
              /\ rest \in Seq(Bytes) /\ Len(rest) = Len(partial) - end
              /\ \A i \in 1..(Len(partial) - end) : rest[i] = partial[end + i]
<1> DEFINE piece == SubSeq(partial, 1, end - 1)
           rest  == SubSeq(partial, end + 1, Len(partial))
<1>1. partial \in Seq(Bytes) /\ Len(partial) \in Nat
  BY Types DEF TypeOK
<1>2. /\ end \in 1..Len(partial) /\ Newline(partial[end])
      /\ \A j \in 1..(end - 1) : ~Newline(partial[j])
  BY <1>1, FirstNewlineIs
<1>3. /\ end - 1 \in Nat /\ end + 1 \in Nat /\ 1 <= end - 1 + 1 /\ end - 1 <= Len(partial)
      /\ end + 1 >= 1 /\ end + 1 <= Len(partial) + 1
  BY <1>1, <1>2
<1>4. /\ piece \in Seq(Bytes) /\ Len(piece) = end - 1 - 1 + 1
      /\ \A i \in 1..(end - 1 - 1 + 1) : piece[i] = partial[1 + i - 1]
  BY <1>1, <1>3, Cutting
<1>5. /\ rest \in Seq(Bytes) /\ Len(rest) = Len(partial) - (end + 1) + 1
      /\ \A i \in 1..(Len(partial) - (end + 1) + 1) : rest[i] = partial[(end + 1) + i - 1]
  BY <1>1, <1>3, Cutting
<1> HIDE DEF piece, rest
<1>6. Len(piece) = end - 1 /\ Len(rest) = Len(partial) - end
  BY <1>1, <1>2, <1>4, <1>5
<1>7. ASSUME NEW i \in 1..(end - 1)
      PROVE  piece[i] = partial[i]
  <2>1. i \in 1..(end - 1 - 1 + 1) /\ 1 + i - 1 = i
    BY <1>2
  <2> QED
    BY <1>4, <2>1
<1>8. ASSUME NEW i \in 1..(Len(partial) - end)
      PROVE  rest[i] = partial[end + i]
  <2>1. i \in 1..(Len(partial) - (end + 1) + 1) /\ (end + 1) + i - 1 = end + i
    BY <1>1, <1>2
  <2> QED
    BY <1>5, <2>1
<1> QED
  BY <1>2, <1>4, <1>5, <1>6, <1>7, <1>8 DEF piece, rest

LEMMA ReadBytes ==
    ASSUME TypeOK, offset <= Len(file)
    PROVE  \E m \in offset..Len(file) :
              Appended = SubSeq(file, offset + 1, m) /\ Appended \in Seq(Bytes) /\ Len(Appended) = m - offset
<1>1. /\ file \in Seq(Bytes) /\ Len(file) \in Nat /\ offset \in Nat /\ ReadSize \in Nat
  BY Types, SizesAssumption DEF TypeOK
<1>2. ASSUME NEW m \in offset..Len(file)
      PROVE  /\ SubSeq(file, offset + 1, m) \in Seq(Bytes)
             /\ Len(SubSeq(file, offset + 1, m)) = m - offset
  <2>1. offset + 1 \in Nat /\ m \in Nat /\ offset + 1 >= 1 /\ offset + 1 <= m + 1 /\ m <= Len(file)
    BY <1>1
  <2>2. /\ SubSeq(file, offset + 1, m) \in Seq(Bytes)
        /\ Len(SubSeq(file, offset + 1, m)) = m - (offset + 1) + 1
    BY <1>1, <2>1, Cutting
  <2> QED
    BY <1>1, <2>2
<1>3. CASE exists /\ readable
  <2> DEFINE m == IF Len(file) > offset + ReadSize THEN offset + ReadSize ELSE Len(file)
  <2>1. m \in offset..Len(file)
    BY <1>1
  <2>2. Appended = SubSeq(file, offset + 1, m)
    BY <1>3 DEF Appended
  <2> HIDE DEF m
  <2> QED
    BY <1>2, <2>1, <2>2
<1>4. CASE ~(exists /\ readable)
  <2>1. offset \in offset..Len(file) /\ offset - offset = 0
    BY <1>1
  <2>2. SubSeq(file, offset + 1, offset) = <<>>
    BY <1>2, <2>1, EmptySeq
  <2>3. Appended = <<>>
    BY <1>4 DEF Appended
  <2>4. Len(Appended) = offset - offset
    BY <2>1, <2>3, EmptySeq
  <2> QED
    BY <1>2, <2>1, <2>2, <2>3, <2>4
<1> QED
  BY <1>3, <1>4

(* The same without knowing that there is anything after the offset.          *)
LEMMA ReadType ==
    ASSUME TypeOK
    PROVE  Appended \in Seq(Bytes)
<1>1. /\ file \in Seq(Bytes) /\ Len(file) \in Nat /\ offset \in Nat /\ ReadSize \in Nat
  BY Types, SizesAssumption DEF TypeOK
<1> DEFINE m == IF Len(file) > offset + ReadSize THEN offset + ReadSize ELSE Len(file)
<1>2. CASE exists /\ readable
  <2>1. m \in Nat /\ m <= Len(file) /\ offset + 1 \in Nat
    BY <1>1
  <2>2. \A i \in (offset + 1)..m : i \in 1..Len(file) /\ file[i] \in Bytes
    BY <1>1, <2>1, Types
  <2>3. Appended = SubSeq(file, offset + 1, m)
    BY <1>2 DEF Appended
  <2> HIDE DEF m
  <2>4. m \in Int /\ offset + 1 \in Int
    BY <1>1, <2>1
  <2>5. \A k, l \in Int : (\A i \in k..l : file[i] \in Bytes) => SubSeq(file, k, l) \in Seq(Bytes)
    BY <1>1, SubSeqProperties
  <2> QED
    BY <2>2, <2>3, <2>4, <2>5, Zenon
<1>3. CASE ~(exists /\ readable)
  BY <1>3, EmptySeq DEF Appended
<1> QED
  BY <1>2, <1>3

LEMMA KeptIs ==
    ASSUME TypeOK
    PROVE  \E n \in 0..Len(partial) :
              /\ Kept(partial) = SubSeq(partial, n + 1, Len(partial))
              /\ Kept(partial) \in Seq(Bytes) /\ Len(Kept(partial)) = Len(partial) - n
              /\ \A i \in 1..(Len(partial) - n) : Kept(partial)[i] = partial[n + i]
              /\ n = IF Len(partial) > LineCap THEN Len(partial) - LineCap ELSE 0
<1>1. partial \in Seq(Bytes) /\ Len(partial) \in Nat /\ LineCap \in Nat
  BY Types DEF TypeOK
<1> DEFINE n == IF Len(partial) > LineCap THEN Len(partial) - LineCap ELSE 0
           rest == SubSeq(partial, n + 1, Len(partial))
<1>2. n \in 0..Len(partial) /\ n \in Nat /\ n + 1 \in Nat /\ n + 1 >= 1 /\ n + 1 <= Len(partial) + 1
  BY <1>1
<1>3. n = IF Len(partial) > LineCap THEN Len(partial) - LineCap ELSE 0
  OBVIOUS
<1>4. Len(partial) > LineCap => Len(partial) - LineCap + 1 = n + 1
  BY <1>1
<1> HIDE DEF n
<1>5. /\ rest \in Seq(Bytes) /\ Len(rest) = Len(partial) - (n + 1) + 1
      /\ \A i \in 1..(Len(partial) - (n + 1) + 1) : rest[i] = partial[(n + 1) + i - 1]
  BY <1>1, <1>2, Cutting
<1> HIDE DEF rest
<1>6. Len(rest) = Len(partial) - n
  BY <1>1, <1>2, <1>5
<1>7. ASSUME NEW i \in 1..(Len(partial) - n)
      PROVE  rest[i] = partial[n + i]
  <2>1. i \in 1..(Len(partial) - (n + 1) + 1) /\ (n + 1) + i - 1 = n + i
    BY <1>1, <1>2
  <2> QED
    BY <1>5, <2>1
<1>8. CASE Len(partial) > LineCap
  <2>1. Kept(partial) = rest
    BY <1>4, <1>8 DEF Kept, rest
  <2> QED
    BY <1>2, <1>3, <1>5, <1>6, <1>7, <2>1 DEF rest
<1>9. CASE ~(Len(partial) > LineCap)
  <2>1. Kept(partial) = partial /\ n = 0
    BY <1>3, <1>9 DEF Kept
  <2>2. Len(partial) = Len(rest) /\ \A i \in 1..Len(partial) : i \in 1..(Len(partial) - n) /\ n + i = i
    BY <1>1, <1>6, <2>1
  <2>3. \A i \in 1..Len(partial) : partial[i] = rest[i]
    BY <1>7, <2>2
  <2>4. partial = rest
    BY <1>1, <1>5, <2>2, <2>3, SameElements
  <2> QED
    BY <1>2, <1>3, <1>5, <1>6, <1>7, <2>1, <2>4 DEF rest
<1> QED
  BY <1>8, <1>9

-----------------------------------------------------------------------------
(* Type correctness.                                                        *)
WorldTypes ==
    /\ file \in Seq(Bytes) /\ inode \in Nat /\ exists \in BOOLEAN /\ readable \in BOOLEAN
    /\ line \in 1..(MaxLines + 1) /\ index \in 0..MaxLength
    /\ rotations \in 0..MaxRotations /\ truncations \in 0..MaxTruncations

CallTypes ==
    /\ keyword \in Keywords
    /\ pc \in {"initial", "poll", "read", "lines", "returned"}
    /\ status \in {"none", "OK", "NOT_FOUND", "INVALID_ARGUMENT"}
    /\ (status # "none") <=> (pc = "returned")
    /\ offset \in Nat /\ ino \in Nat /\ start \in Nat
    /\ cancelled \in BOOLEAN

TextTypes ==
    /\ partial \in Seq(Bytes) /\ (pc \in {"initial", "poll", "read"} => Len(partial) <= LineCap)
    /\ delivered \in Seq(Seq(Bytes))
    /\ \A k \in 1..Len(delivered) : Len(delivered[k]) <= LineCap

LEMMA TypeParts ==
    TypeOK <=> WorldTypes /\ CallTypes /\ TextTypes
  BY Zenon DEF TypeOK, WorldTypes, CallTypes, TextTypes

LEMMA InitType ==
    Init => TypeOK
<1> SUFFICES ASSUME Init
             PROVE  TypeOK
  OBVIOUS
<1>1. <<>> \in Seq(Bytes) /\ <<>> \in Seq(Seq(Bytes)) /\ Len(<<>>) = 0
  BY EmptySeq
<1>2. LineCap \in Nat /\ MaxLines \in Nat /\ MaxLength \in Nat /\ MaxRotations \in Nat /\ MaxTruncations \in Nat
  BY SizesAssumption
<1>3. WorldTypes
  BY <1>1, <1>2 DEF Init, WorldTypes
<1>4. CallTypes
  BY DEF Init, CallTypes
<1>5. TextTypes
  BY <1>1, <1>2 DEF Init, TextTypes
<1> QED
  BY <1>3, <1>4, <1>5, TypeParts

LEMMA WriterType ==
    ASSUME TypeOK, WriterInv, Writer
    PROVE  WorldTypes'
<1> USE SizesAssumption
<1>1. WorldTypes
  BY TypeParts
<1>2. CASE Write
  <2>1. CASE index < MaxLength /\ file' = Append(file, <<line, index + 1>>) /\ index' = index + 1 /\ UNCHANGED line
    <3>1. <<line, index + 1>> \in Bytes
      BY <1>1, <2>1, ByteParts DEF WorldTypes
    <3>2. Append(file, <<line, index + 1>>) \in Seq(Bytes)
      BY <1>1, <3>1, Extending DEF WorldTypes
    <3> QED
      BY <1>1, <1>2, <2>1, <3>2 DEF WorldTypes, Write
  <2>2. CASE file' = Append(file, <<line, 0>>) /\ line' = line + 1 /\ index' = 0
    <3>1. <<line, 0>> \in Bytes
      BY <1>1, ByteParts DEF WorldTypes
    <3>2. Append(file, <<line, 0>>) \in Seq(Bytes)
      BY <1>1, <3>1, Extending DEF WorldTypes
    <3> QED
      BY <1>1, <1>2, <2>2, <3>2 DEF WorldTypes, Write
  <2> QED
    BY <1>2, <2>1, <2>2 DEF Write
<1>n. ASSUME NextLine
      PROVE  line' \in 1..(MaxLines + 1) /\ index' \in 0..MaxLength
  BY <1>1, <1>n DEF WorldTypes, NextLine, WriterInv
<1>3. CASE RenameAway
  <2>1. line' \in 1..(MaxLines + 1) /\ index' \in 0..MaxLength /\ rotations' \in 0..MaxRotations
    BY <1>1, <1>3, <1>n DEF WorldTypes, RenameAway
  <2> QED
    BY <1>1, <1>3, <2>1 DEF WorldTypes, RenameAway
<1>4. CASE Create
  BY <1>1, <1>4, EmptySeq DEF WorldTypes, Create
<1>5. CASE Truncate
  <2>1. line' \in 1..(MaxLines + 1) /\ index' \in 0..MaxLength /\ truncations' \in 0..MaxTruncations
    BY <1>1, <1>5, <1>n DEF WorldTypes, Truncate
  <2> QED
    BY <1>1, <1>5, <2>1, EmptySeq DEF WorldTypes, Truncate
<1> QED
  BY <1>2, <1>3, <1>4, <1>5 DEF Writer

LEMMA CallType ==
    ASSUME TypeOK, Call
    PROVE  CallTypes'
<1>1. CallTypes /\ Len(file) \in Nat /\ inode \in Nat /\ ReadSize \in Nat
  BY TypeParts, Types, SizesAssumption DEF WorldTypes
<1>2. CASE Refuse
  BY <1>1, <1>2 DEF CallTypes, Refuse, Return
<1>3. CASE FirstStat
  <2>1. CASE ~exists
    BY <1>1, <1>3, <2>1 DEF CallTypes, FirstStat, Return
  <2>2. CASE exists
    <3>1. offset' \in Nat
      BY <1>1, <1>3, <2>2 DEF FirstStat
    <3> QED
      BY <1>1, <1>3, <2>2, <3>1 DEF CallTypes, FirstStat
  <2> QED
    BY <2>1, <2>2
<1>4. CASE SeesCancel
  BY <1>1, <1>4 DEF CallTypes, SeesCancel, Return
<1>5. CASE Poll
  BY <1>1, <1>5 DEF CallTypes, Poll
<1>6. CASE Read
  <2>1. Len(Appended) \in Nat
    BY ReadType, LenProperties
  <2> QED
    BY <1>1, <1>6, <2>1 DEF CallTypes, Read
<1>7. CASE SendLine
  BY <1>1, <1>7 DEF CallTypes, SendLine, Return
<1>8. CASE EndOfLines
  BY <1>1, <1>8 DEF CallTypes, EndOfLines
<1> QED
  BY <1>2, <1>3, <1>4, <1>5, <1>6, <1>7, <1>8 DEF Call

LEMMA TextType ==
    ASSUME TypeOK, Call
    PROVE  TextTypes'
<1>1. TextTypes /\ LineCap \in Nat /\ Len(partial) \in Nat /\ Len(delivered) \in Nat
  BY TypeParts, Types
<1>2. CASE Refuse
  BY <1>1, <1>2 DEF TextTypes, Refuse, Return
<1>3. CASE FirstStat
  BY <1>1, <1>3 DEF TextTypes, FirstStat, Return
<1>4. CASE SeesCancel
  BY <1>1, <1>4 DEF TextTypes, SeesCancel, Return
<1>5. CASE Poll
  <2>1. partial' = <<>> \/ partial' = partial
    BY <1>5 DEF Poll
  <2>2. partial' \in Seq(Bytes) /\ Len(partial') <= LineCap
    BY <1>1, <1>5, <2>1, EmptySeq DEF TextTypes, Poll
  <2> QED
    BY <1>1, <1>5, <2>2 DEF TextTypes, Poll
<1>6. CASE Read
  <2>1. partial \o Appended \in Seq(Bytes)
    BY <1>1, ReadType, ConcatProperties DEF TextTypes
  <2> QED
    BY <1>1, <1>6, <2>1 DEF TextTypes, Read
<1>7. CASE SendLine
  <2> DEFINE end == FirstNewline(partial)
             piece == SubSeq(partial, 1, end - 1)
             l == Clipped(piece)
  <2>1. piece \in Seq(Bytes) /\ SubSeq(partial, end + 1, Len(partial)) \in Seq(Bytes)
    BY <1>7, CutOff DEF SendLine
  <2>2. partial' = SubSeq(partial, end + 1, Len(partial))
    BY <1>7 DEF SendLine
  <2>3. delivered' = delivered \/ delivered' = Append(delivered, l)
    BY <1>7 DEF SendLine
  <2> HIDE DEF piece
  <2>4. l \in Seq(Bytes) /\ Len(l) <= LineCap
    BY <2>1, ClippedType
  <2> HIDE DEF l
  <2>5. delivered' \in Seq(Seq(Bytes)) /\ \A k \in 1..Len(delivered') : Len(delivered'[k]) <= LineCap
    <3>1. CASE delivered' = delivered
      BY <1>1, <3>1 DEF TextTypes
    <3>2. CASE delivered' = Append(delivered, l)
      <4> DEFINE d == Append(delivered, l)
      <4>1. /\ d \in Seq(Seq(Bytes)) /\ Len(d) = Len(delivered) + 1 /\ d[Len(delivered) + 1] = l
            /\ \A i \in 1..Len(delivered) : d[i] = delivered[i]
        BY <1>1, <2>4, Extending DEF TextTypes
      <4> HIDE DEF d
      <4>2. \A k \in 1..Len(d) : k \in 1..Len(delivered) \/ k = Len(delivered) + 1
        BY <1>1, <4>1
      <4>3. \A k \in 1..Len(d) : Len(d[k]) <= LineCap
        BY <1>1, <2>4, <4>1, <4>2 DEF TextTypes
      <4> QED
        BY <3>2, <4>1, <4>3 DEF d
    <3> QED
      BY <2>3, <3>1, <3>2
  <2>6. pc' \in {"lines", "returned"}
    BY <1>7 DEF SendLine, Return
  <2> QED
    BY <2>1, <2>2, <2>5, <2>6 DEF TextTypes
<1>8. CASE EndOfLines
  <2>1. PICK n \in 0..Len(partial) :
           /\ Kept(partial) \in Seq(Bytes) /\ Len(Kept(partial)) = Len(partial) - n
           /\ n = IF Len(partial) > LineCap THEN Len(partial) - LineCap ELSE 0
    BY KeptIs
  <2>2. Len(Kept(partial)) <= LineCap
    BY <1>1, <2>1
  <2> QED
    BY <1>1, <1>8, <2>1, <2>2 DEF TextTypes, EndOfLines
<1> QED
  BY <1>2, <1>3, <1>4, <1>5, <1>6, <1>7, <1>8 DEF Call

LEMMA TypeKept ==
    ASSUME TypeOK, WriterInv, Next
    PROVE  TypeOK'
<1>1. WorldTypes /\ CallTypes /\ TextTypes
  BY TypeParts
<1>2. CASE Writer
  <2>1. UNCHANGED callVars /\ UNCHANGED cancelled
    BY <1>2 DEF Writer, Write, RenameAway, Create, Truncate
  <2>2. WorldTypes'
    BY <1>2, WriterType
  <2>3. CallTypes' /\ TextTypes'
    BY <1>1, <2>1 DEF CallTypes, TextTypes, callVars
  <2> QED
    BY <2>2, <2>3, TypeParts DEF TypeOK, WorldTypes, CallTypes, TextTypes
<1>3. CASE Call
  <2>1. UNCHANGED writerVars
    BY <1>3 DEF Call, Refuse, FirstStat, SeesCancel, Poll, Read, SendLine, EndOfLines
  <2>2. WorldTypes'
    BY <1>1, <2>1 DEF WorldTypes, writerVars
  <2>3. CallTypes' /\ TextTypes'
    BY <1>3, CallType, TextType
  <2> QED
    BY <2>2, <2>3 DEF TypeOK, WorldTypes, CallTypes, TextTypes
<1>4. CASE Cancel
  <2>1. UNCHANGED writerVars /\ UNCHANGED callVars /\ cancelled' = TRUE
    BY <1>4 DEF Cancel
  <2>2. WorldTypes' /\ CallTypes' /\ TextTypes'
    BY <1>1, <2>1 DEF WorldTypes, CallTypes, TextTypes, writerVars, callVars
  <2> QED
    BY <2>2 DEF TypeOK, WorldTypes, CallTypes, TextTypes
<1> QED
  BY <1>2, <1>3, <1>4 DEF Next

-----------------------------------------------------------------------------
(* The file: what the writer adds follows what is there, and what was written *)
(* stays written.                                                           *)
LEMMA StaysWritten ==
    ASSUME TypeOK, Writer
    PROVE  /\ line' \in Nat /\ line <= line'
           /\ \A b \in Bytes : Written(b) => b[1] <= line' /\ (Newline(b) \/ index' = 0 => b[1] < line')
<1>1. line \in Nat /\ index \in Nat
  BY TypeParts, SizesAssumption DEF WorldTypes
<1>2. \A b \in Bytes : b[1] \in Nat /\ b[2] \in Nat
  BY ByteParts
<1>3. CASE Write
  <2>1. CASE index' = index + 1 /\ UNCHANGED line
    BY <1>1, <1>2, <2>1 DEF Written
  <2>2. CASE line' = line + 1 /\ index' = 0
    BY <1>1, <1>2, <2>2 DEF Written
  <2> QED
    BY <1>3, <2>1, <2>2 DEF Write
<1>4. CASE NextLine
  BY <1>1, <1>2, <1>4 DEF Written, NextLine
<1>5. CASE Create
  BY <1>1, <1>2, <1>5 DEF Written, Create
<1> QED
  BY <1>3, <1>4, <1>5 DEF Writer, RenameAway, Truncate

LEMMA WriteExtends ==
    ASSUME TypeOK, WriterInv, Write
    PROVE  \E e \in Bytes :
              /\ file' = Append(file, e) /\ e[1] = line /\ Genuine(file')
              /\ file' \in Seq(Bytes) /\ Len(file') = Len(file) + 1 /\ file'[Len(file) + 1] = e
              /\ \A i \in 1..Len(file) : file'[i] = file[i]
              /\ \/ e = <<line, index + 1>> /\ index' = index + 1 /\ line' = line
                 \/ e = <<line, 0>> /\ line' = line + 1 /\ index' = 0
<1>1. /\ file \in Seq(Bytes) /\ Len(file) \in Nat /\ line \in 1..(MaxLines + 1) /\ index \in 0..MaxLength
      /\ MaxLength \in Nat /\ MaxLines \in Nat
  BY TypeParts, Types, SizesAssumption DEF WorldTypes
<1>2. PICK e \in Bytes :
         /\ file' = Append(file, e)
         /\ \/ e = <<line, index + 1>> /\ index' = index + 1 /\ line' = line
            \/ e = <<line, 0>> /\ line' = line + 1 /\ index' = 0
  <2>1. CASE index < MaxLength /\ file' = Append(file, <<line, index + 1>>) /\ index' = index + 1 /\ UNCHANGED line
    <3>1. <<line, index + 1>> \in Bytes
      BY <1>1, <2>1, ByteParts
    <3> QED
      BY <2>1, <3>1
  <2>2. CASE file' = Append(file, <<line, 0>>) /\ line' = line + 1 /\ index' = 0
    <3>1. <<line, 0>> \in Bytes
      BY <1>1, ByteParts
    <3> QED
      BY <2>2, <3>1
  <2> QED
    BY <2>1, <2>2 DEF Write
<1>3. e[1] = line /\ e[2] \in {index + 1, 0}
  BY <1>2
<1>4. ASSUME file # <<>>
      PROVE  Follows(file[Len(file)], e)
  <2>1. CASE index > 0
    <3>1. file[Len(file)][1] = line /\ file[Len(file)][2] = index
      BY <1>4, <2>1 DEF Write, WriterInv
    <3> QED
      BY <1>1, <1>3, <2>1, <3>1 DEF Follows, Newline
  <2>2. CASE index = 0
    <3>1. file[Len(file)][1] = line - 1 /\ file[Len(file)][2] = 0
      BY <1>4, <2>2 DEF Write, WriterInv
    <3> QED
      BY <1>1, <1>3, <3>1 DEF Follows, Newline
  <2> QED
    BY <1>1, <2>1, <2>2
<1>5. Genuine(Append(file, e))
  BY <1>1, <1>4, GenuineAppend DEF WriterInv
<1> QED
  BY <1>1, <1>2, <1>3, <1>5, Extending

LEMMA WriterInvKept ==
    ASSUME TypeOK, WriterInv, Next
    PROVE  WriterInv'
<1>1. /\ file \in Seq(Bytes) /\ Len(file) \in Nat /\ line \in 1..(MaxLines + 1) /\ index \in 0..MaxLength
      /\ MaxLength \in Nat /\ MaxLines \in Nat /\ inode \in Nat
      /\ \A i \in 1..Len(file) : file[i] \in Bytes
  BY TypeParts, Types, SizesAssumption DEF WorldTypes
<1>2. Len(<<>>) = 0 /\ Genuine(<<>>)
  <2>1. Len(<<>>) = 0
    BY EmptySeq
  <2> QED
    BY <2>1 DEF Genuine
<1>3. CASE Write
  <2>1. PICK e \in Bytes :
              /\ file' = Append(file, e) /\ e[1] = line /\ Genuine(file')
              /\ file' \in Seq(Bytes) /\ Len(file') = Len(file) + 1 /\ file'[Len(file) + 1] = e
              /\ \A i \in 1..Len(file) : file'[i] = file[i]
              /\ \/ e = <<line, index + 1>> /\ index' = index + 1 /\ line' = line
                 \/ e = <<line, 0>> /\ line' = line + 1 /\ index' = 0
    BY <1>3, WriteExtends
  <2>2. \A i \in 1..Len(file') : i \in 1..Len(file) \/ i = Len(file) + 1
    BY <1>1, <2>1
  <2>3. ASSUME NEW i \in 1..Len(file')
        PROVE  file'[i][1] <= line' /\ (Newline(file'[i]) \/ index' = 0 => file'[i][1] < line')
    <3>1. CASE i \in 1..Len(file)
      BY <1>1, <1>3, <2>1, <3>1, StaysWritten DEF WriterInv, Writer
    <3>2. CASE i = Len(file) + 1
      <4>1. CASE e = <<line, index + 1>> /\ index' = index + 1 /\ line' = line
        <5>1. ~Newline(e)
          BY <1>1, <4>1 DEF Newline
        <5> QED
          BY <1>1, <2>1, <3>2, <4>1, <5>1
      <4>2. CASE line' = line + 1 /\ index' = 0
        BY <1>1, <2>1, <3>2, <4>2
      <4> QED
        BY <2>1, <4>1, <4>2
    <3> QED
      BY <2>2, <3>1, <3>2
  <2>4. file' # <<>> /\ exists' = exists /\ exists = TRUE /\ inode' = inode
    BY <1>1, <1>3, <2>1, Extending DEF Write
  <2>5. CASE e = <<line, index + 1>> /\ index' = index + 1 /\ line' = line
    <3>1. file'[Len(file')] = <<line', index'>>
      BY <2>1, <2>5
    <3>2. index' > 0 /\ line' <= MaxLines /\ inode' >= 1 /\ index' # 0
      BY <1>1, <1>3, <2>4, <2>5 DEF Write, WriterInv
    <3> QED
      BY <2>1, <2>3, <2>4, <3>1, <3>2 DEF WriterInv, Written
  <2>6. CASE e = <<line, 0>> /\ line' = line + 1 /\ index' = 0
    <3>1. line' - 1 = line
      BY <1>1, <2>6
    <3>2. file'[Len(file')] = <<line' - 1, 0>>
      BY <2>1, <2>6, <3>1
    <3>3. inode' >= 1 /\ ~(index' > 0)
      BY <1>1, <2>4, <2>6 DEF WriterInv
    <3> QED
      BY <2>1, <2>3, <2>4, <2>6, <3>2, <3>3 DEF WriterInv, Written
  <2> QED
    BY <2>1, <2>5, <2>6
<1>4. CASE RenameAway
  <2>1. \A i \in 1..Len(file) : file[i][1] <= line' /\ (Newline(file[i]) \/ index' = 0 => file[i][1] < line')
    BY <1>1, <1>4, StaysWritten DEF WriterInv, Writer
  <2> QED
    BY <1>1, <1>4, <2>1 DEF WriterInv, Written, RenameAway, NextLine
<1>5. CASE Create
  BY <1>1, <1>2, <1>5 DEF WriterInv, Create
<1>6. CASE Truncate
  BY <1>1, <1>2, <1>6 DEF WriterInv, Truncate, NextLine
<1>7. CASE UNCHANGED writerVars
  BY <1>7 DEF WriterInv, Written, writerVars
<1>8. Call \/ Cancel => UNCHANGED writerVars
  BY DEF Call, Cancel, Refuse, FirstStat, SeesCancel, Poll, Read, SendLine, EndOfLines
<1> QED
  BY <1>3, <1>4, <1>5, <1>6, <1>7, <1>8 DEF Next, Writer

LEMMA InitWriter ==
    Init => WriterInv
<1> SUFFICES ASSUME Init
             PROVE  WriterInv
  OBVIOUS
<1>1. Len(<<>>) = 0
  BY EmptySeq
<1>2. file = <<>> /\ index = 0 /\ inode = 1
  BY DEF Init
<1>3. Genuine(file)
  BY <1>1, <1>2 DEF Genuine
<1> QED
  BY <1>1, <1>2, <1>3 DEF WriterInv

-----------------------------------------------------------------------------
(* The order of what is delivered, when the file is not replaced unnoticed.   *)
LEMMA FirstBytes ==
    ASSUME TypeOK
    PROVE  \A k \in 1..Len(delivered) : delivered[k] # <<>> => delivered[k][1][1] \in Nat
<1> SUFFICES ASSUME NEW k \in 1..Len(delivered), delivered[k] # <<>>
             PROVE  delivered[k][1][1] \in Nat
  OBVIOUS
<1>1. delivered[k] \in Seq(Bytes)
  BY Types
<1>2. Len(delivered[k]) \in Nat /\ Len(delivered[k]) # 0
  BY <1>1, LenProperties, EmptySeq
<1>3. delivered[k][1] \in Bytes
  BY <1>1, <1>2, ElementOfSeq
<1> QED
  BY <1>3, ByteParts

LEMMA PartialIs ==
    ASSUME TypeOK, Taken >= 0, offset <= Len(file), partial = SubSeq(file, Taken + 1, offset)
    PROVE  /\ Taken \in Nat /\ Len(partial) = offset - Taken
           /\ \A i \in 1..Len(partial) : Taken + i \in 1..offset /\ partial[i] = file[Taken + i]
<1>1. file \in Seq(Bytes) /\ offset \in Nat /\ Len(partial) \in Nat /\ Len(file) \in Nat
  BY Types DEF TypeOK
<1>2. Taken \in Nat /\ Len(partial) = offset - Taken
  BY <1>1 DEF Taken
<1> HIDE DEF Taken
<1>3. Taken + 1 \in Nat /\ Taken + 1 >= 1 /\ Taken + 1 <= offset + 1
  BY <1>1, <1>2
<1>4. \A i \in 1..(offset - (Taken + 1) + 1) : partial[i] = file[(Taken + 1) + i - 1]
  BY <1>1, <1>3, Cutting
<1>5. ASSUME NEW i \in 1..Len(partial)
      PROVE  Taken + i \in 1..offset /\ partial[i] = file[Taken + i]
  <2>1. i \in 1..(offset - (Taken + 1) + 1) /\ (Taken + 1) + i - 1 = Taken + i /\ Taken + i \in 1..offset
    BY <1>1, <1>2
  <2> QED
    BY <1>4, <2>1
<1> QED
  BY <1>2, <1>5

LEMMA OrderKeptByWriter ==
    ASSUME TypeOK, WriterInv, OrderInv, ~UnnoticedSwaps, Writer
    PROVE  OrderInv'
<1>1. /\ file \in Seq(Bytes) /\ Len(file) \in Nat /\ line \in Nat /\ offset \in Nat
      /\ inode \in Nat /\ ino \in Nat /\ Len(partial) \in Nat /\ index \in Nat
      /\ \A i \in 1..Len(file) : file[i] \in Bytes
      /\ \A i \in 1..Len(partial) : partial[i] \in Bytes
  BY Types, SizesAssumption DEF TypeOK
<1>2. UNCHANGED <<keyword, pc, status, offset, ino, partial, start, delivered>>
  BY DEF Writer, Write, RenameAway, Create, Truncate, callVars
<1>3. /\ line' \in Nat /\ line <= line'
      /\ \A b \in Bytes : Written(b) => b[1] <= line' /\ (Newline(b) \/ index' = 0 => b[1] < line')
  BY StaysWritten
<1>4. DeliveredInv'
  BY <1>1, <1>2, <1>3, FirstBytes DEF OrderInv, DeliveredInv, GenuineInOrder, NoSplicedLine
<1>5. ASSUME Live, CallInv
      PROVE  CallInv'
  <2>1. /\ ino <= inode /\ Genuine(partial)
        /\ \A i \in 1..Len(partial) : Written(partial[i]) /\ Before(partial[i])
        /\ pc = "read" => exists /\ Same
    BY <1>5 DEF CallInv
  <2>2. /\ Genuine(partial')
        /\ \A i \in 1..Len(partial') : (Written(partial[i]) /\ Before(partial[i]))'
    BY <1>1, <1>2, <1>3, <2>1 DEF Written, Before
  <2>3. \A i \in 1..Len(partial) : partial[i][1] <= line'
    BY <1>1, <1>3, <2>1
  <2>4. CASE Write
    <3>1. PICK e \in Bytes :
              /\ file' = Append(file, e) /\ e[1] = line
              /\ file' \in Seq(Bytes) /\ Len(file') = Len(file) + 1 /\ file'[Len(file) + 1] = e
              /\ \A i \in 1..Len(file) : file'[i] = file[i]
      BY <2>4, WriteExtends
    <3>2. inode' = inode /\ exists' = exists /\ (inode # ino \/ Len(file) + 1 # offset)
      BY <2>4 DEF Write, GrowthAllowed
    <3>3. \A j \in 1..Len(file') : j \in 1..Len(file) \/ j = Len(file) + 1
      BY <1>1, <3>1
    <3>4. Before(e)
      BY <3>1 DEF OrderInv, DeliveredInv, Before
    <3>5. Same' <=> Same
      BY <1>1, <1>2, <3>1, <3>2 DEF Same
    <3>6. CASE Same
      <4>1. SameInv /\ Len(file) >= offset
        BY <1>5, <3>6 DEF CallInv, Same
      <4>2. /\ Taken \in Nat /\ Len(partial) = offset - Taken
            /\ \A i \in 1..Len(partial) : Taken + i \in 1..offset /\ partial[i] = file[Taken + i]
        BY <1>1, <4>1, PartialIs DEF SameInv
      <4>3. Taken + 1 \in Nat /\ Taken + 1 >= 1 /\ Taken + 1 <= offset + 1 /\ offset <= Len(file')
        BY <1>1, <3>1, <4>1, <4>2
      <4>8. SubSeq(file', Taken + 1, offset) = SubSeq(file, Taken + 1, offset)
        <5>1. \A i \in 1..offset : file'[i] = file[i]
          BY <1>1, <3>1, <4>1
        <5>2. \A k \in Nat : k >= 1 /\ k <= offset + 1 => SubSeq(file', k, offset) = SubSeq(file, k, offset)
          BY <1>1, <3>1, <4>1, <4>3, <5>1, PieceStays
        <5> QED
          BY <4>3, <5>2, Zenon
      <4>9. ASSUME NEW j \in 1..Len(file'), j > Taken
            PROVE  Before(file'[j])
        BY <3>1, <3>3, <3>4, <4>1, <4>9 DEF SameInv
      <4>10. Taken' = Taken
        BY <1>2 DEF Taken
      <4>11. SameInv'
        BY <1>2, <4>1, <4>8, <4>9, <4>10 DEF SameInv, Before
      <4> QED
        BY <1>2, <2>1, <2>2, <3>2, <3>5, <3>6, <4>11 DEF CallInv
    <3>7. CASE ~Same
      <4>1. ReplacedInv
        BY <1>5, <3>7 DEF CallInv
      <4>2. ASSUME NEW j \in 1..Len(file')
            PROVE  Before(file'[j]) /\ \A i \in 1..Len(partial) : partial[i][1] < file'[j][1]
        BY <3>1, <3>3, <3>4, <4>1 DEF ReplacedInv
      <4>3. \A i \in 1..Len(partial) : partial[i][1] < line'
        BY <1>1, <1>3, <4>1, ByteParts DEF ReplacedInv
      <4>4. ReplacedInv'
        BY <1>2, <4>2, <4>3 DEF ReplacedInv, Before
      <4> QED
        BY <1>2, <2>1, <2>2, <3>2, <3>5, <3>7, <4>4 DEF CallInv
    <3> QED
      BY <3>6, <3>7
  <2>5. CASE RenameAway
    <3>1. pc # "read" /\ file' = file /\ inode' = inode
      BY <2>5 DEF RenameAway, SwapAllowed
    <3>2. (Same' <=> Same) /\ Taken' = Taken
      BY <1>2, <3>1 DEF Same, Taken
    <3>3. CASE Same
      <4>1. SameInv
        BY <1>5, <3>3 DEF CallInv
      <4>2. SameInv'
        BY <1>2, <3>1, <3>2, <4>1 DEF SameInv, Before
      <4> QED
        BY <1>2, <2>1, <2>2, <3>1, <3>2, <3>3, <4>2 DEF CallInv
    <3>4. CASE ~Same
      <4>1. ReplacedInv
        BY <1>5, <3>4 DEF CallInv
      <4>2. \A i \in 1..Len(partial) : partial[i][1] < line'
        BY <1>1, <1>3, <4>1, ByteParts DEF ReplacedInv
      <4>3. ReplacedInv'
        BY <1>2, <3>1, <4>1, <4>2 DEF ReplacedInv, Before
      <4> QED
        BY <1>2, <2>1, <2>2, <3>1, <3>2, <3>4, <4>3 DEF CallInv
    <3> QED
      BY <3>3, <3>4
  <2>6. CASE Create
    <3>1. pc # "read" /\ file' = <<>> /\ inode' = inode + 1 /\ index = 0 /\ line' = line
      BY <2>6 DEF Create, SwapAllowed, WriterInv
    <3>2. ~Same' /\ ino' <= inode'
      BY <1>1, <1>2, <2>1, <3>1 DEF Same
    <3>3. \A i \in 1..Len(partial) : partial[i][1] < line'
      BY <2>1, <3>1 DEF Written
    <3>4. ReplacedInv'
      BY <1>2, <3>1, <3>3, EmptySeq DEF ReplacedInv
    <3> QED
      BY <1>2, <2>2, <3>1, <3>2, <3>4 DEF CallInv
  <2>7. CASE Truncate
    <3>1. pc # "read" /\ file' = <<>> /\ Len(file') = 0 /\ inode' = inode /\ index' = 0
      BY <2>7, EmptySeq DEF Truncate, SwapAllowed, NextLine
    <3>2. CASE Same'
      <4>1. Same /\ offset = 0
        BY <1>1, <1>2, <3>1, <3>2 DEF Same
      <4>2. SameInv /\ Len(file) >= offset
        BY <1>5, <4>1 DEF CallInv, Same
      <4>3. Taken \in Nat /\ Taken' = Taken /\ Len(partial) = offset - Taken
        BY <1>1, <1>2, <4>2, PartialIs DEF SameInv, Taken
      <4>4. Taken = 0 /\ Len(partial) = 0
        BY <4>1, <4>3
      <4>5. partial = <<>>
        BY <4>4, EmptySeq DEF TypeOK
      <4>6. SubSeq(file', Taken' + 1, offset') = <<>>
        <5>1. Taken' + 1 = 1 /\ offset' = 0
          BY <1>2, <4>1, <4>3, <4>4
        <5>2. <<>> \in Seq(Bytes) /\ Len(<<>>) = 0
          BY EmptySeq
        <5>3. SubSeq(<<>>, 1, 0) \in Seq(Bytes) /\ Len(SubSeq(<<>>, 1, 0)) = 0 - 1 + 1
          BY <5>2, Cutting
        <5>4. SubSeq(<<>>, 1, 0) = <<>>
          BY <5>3, EmptySeq
        <5> QED
          BY <3>1, <5>1, <5>4
      <4>7. SameInv'
        BY <1>2, <3>1, <4>3, <4>4, <4>5, <4>6 DEF SameInv
      <4> QED
        BY <1>2, <2>1, <2>2, <3>1, <3>2, <4>7 DEF CallInv
    <3>3. CASE ~Same'
      <4>1. \A i \in 1..Len(partial) : partial[i][1] < line'
        BY <1>1, <1>3, <2>1, <3>1
      <4>2. ReplacedInv'
        BY <1>2, <3>1, <4>1 DEF ReplacedInv
      <4> QED
        BY <1>2, <2>1, <2>2, <3>1, <3>3, <4>2 DEF CallInv
    <3> QED
      BY <3>2, <3>3
  <2> QED
    BY <2>4, <2>5, <2>6, <2>7 DEF Writer
<1>6. Live' => Live
  BY <1>2 DEF Live
<1> QED
  BY <1>4, <1>5, <1>6 DEF OrderInv

LEMMA PieceFacts ==
    ASSUME NEW f \in Seq(Bytes), Genuine(f), NEW T \in Nat, NEW o \in Nat, T <= o, o <= Len(f)
    PROVE  LET t == SubSeq(f, T + 1, o)
           IN /\ t \in Seq(Bytes) /\ Genuine(t) /\ Len(t) = o - T
              /\ \A i \in 1..(o - T) : t[i] = f[T + i]
<1> DEFINE t == SubSeq(f, T + 1, o)
<1>1. T + 1 \in Nat /\ T + 1 >= 1 /\ T + 1 <= o + 1
  OBVIOUS
<1>2. t \in Seq(Bytes) /\ Len(t) = o - (T + 1) + 1 /\ \A i \in 1..(o - (T + 1) + 1) : t[i] = f[(T + 1) + i - 1]
  BY <1>1, Cutting
<1>3. Genuine(t)
  BY <1>1, GenuineSub
<1> HIDE DEF t
<1>4. \A i \in 1..(o - T) : i \in 1..(o - (T + 1) + 1) /\ (T + 1) + i - 1 = T + i
  OBVIOUS
<1> QED
  BY <1>2, <1>3, <1>4 DEF t

(* Nothing is delivered, and the file is the one that is read.                *)
LEMMA StillSame ==
    ASSUME TypeOK, WriterInv, NEW T \in Nat, NEW o \in Nat, T <= o, o <= Len(file),
           offset' = o, partial' = SubSeq(file, T + 1, o),
           \A j \in 1..Len(file) : j > T => Before(file[j]),
           UNCHANGED writerVars, delivered' = delivered, ino' = inode, pc' = "read" => exists
    PROVE  CallInv'
<1>1. /\ file \in Seq(Bytes) /\ Len(file) \in Nat /\ inode \in Nat
      /\ \A i \in 1..Len(file) : file[i] \in Bytes /\ Written(file[i])
  BY Types DEF TypeOK, WriterInv
<1>2. /\ Genuine(partial') /\ Len(partial') = o - T
      /\ \A i \in 1..(o - T) : partial'[i] = file[T + i]
  BY <1>1, PieceFacts DEF WriterInv
<1>3. UNCHANGED <<file, inode, exists, line, index>>
  BY DEF writerVars
<1>4. o - (o - T) = T
  OBVIOUS
<1>5. Taken' = T
  BY <1>2, <1>4 DEF Taken
<1>6. Same' /\ SameInv'
  BY <1>1, <1>3, <1>5 DEF Same, SameInv, Before
<1>7. \A i \in 1..(o - T) : T + i \in 1..Len(file) /\ T + i > T
  BY <1>1
<1>8. \A i \in 1..Len(partial') : (Written(partial[i]) /\ Before(partial[i]))'
  BY <1>1, <1>2, <1>3, <1>7 DEF Written, Before
<1>9. ino' <= inode'
  BY <1>1, <1>3
<1>10. pc' = "read" => exists' /\ Same'
  BY <1>3, <1>6
<1> QED
  BY <1>2, <1>6, <1>8, <1>9, <1>10, Zenon DEF CallInv

LEMMA OrderKeptByReading ==
    ASSUME TypeOK, WriterInv, UntouchedInv, OrderInv,
           Refuse \/ FirstStat \/ SeesCancel \/ Poll \/ Read
    PROVE  OrderInv'
<1>1. /\ file \in Seq(Bytes) /\ Len(file) \in Nat /\ line \in Nat /\ offset \in Nat
      /\ inode \in Nat /\ ino \in Nat /\ Len(partial) \in Nat
      /\ partial \in Seq(Bytes)
  BY Types DEF TypeOK
<1>2. UNCHANGED writerVars /\ delivered' = delivered
  BY DEF Refuse, FirstStat, SeesCancel, Poll, Read
<1>3. DeliveredInv'
  BY <1>2 DEF OrderInv, DeliveredInv, GenuineInOrder, NoSplicedLine, writerVars
<1>4. CASE Refuse \/ SeesCancel
  <2>1. ~Live'
    BY <1>4 DEF Refuse, SeesCancel, Return, Live
  <2> QED
    BY <1>3, <2>1 DEF OrderInv
<1>5. CASE FirstStat
  <2>1. CASE ~exists
    <3>1. ~Live'
      BY <1>5, <2>1 DEF FirstStat, Return, Live
    <3> QED
      BY <1>3, <3>1 DEF OrderInv
  <2>2. CASE exists
    <3>1. delivered = <<>> /\ partial' = <<>> /\ ino' = inode
      BY <1>5, <2>2 DEF FirstStat, UntouchedInv
    <3>2. PICK o \in Nat : offset' = o /\ o <= Len(file)
      BY <1>1, <1>5, <2>2, SizesAssumption DEF FirstStat
    <3>3. SubSeq(file, o + 1, o) = <<>>
      <4>1. o + 1 \in Nat /\ o + 1 >= 1 /\ o + 1 <= o + 1 /\ o - (o + 1) + 1 = 0
        OBVIOUS
      <4>2. SubSeq(file, o + 1, o) \in Seq(Bytes) /\ Len(SubSeq(file, o + 1, o)) = o - (o + 1) + 1
        BY <1>1, <3>2, <4>1, Cutting
      <4> QED
        BY <4>1, <4>2, EmptySeq
    <3>4. \A j \in 1..Len(file) : j > o => Before(file[j])
      BY <3>1, EmptySeq DEF Before
    <3>5. o <= o /\ partial' = SubSeq(file, o + 1, o)
      BY <3>1, <3>3
    <3>6. CallInv'
      BY <1>2, <2>2, <3>1, <3>2, <3>4, <3>5, StillSame
    <3> QED
      BY <1>3, <3>6 DEF OrderInv
  <2> QED
    BY <2>1, <2>2
<1>6. CASE Poll
  <2>1. CallInv /\ exists
    BY <1>6 DEF Poll, OrderInv, Live
  <2>2. ino' = inode
    BY <1>6 DEF Poll
  <2>3. CASE Same
    <3>1. ~Replaced /\ SameInv /\ offset <= Len(file)
      BY <1>1, <2>1, <2>3 DEF Replaced, Same, CallInv
    <3>2. offset' = offset /\ partial' = partial
      BY <1>6, <3>1 DEF Poll
    <3>3. Taken \in Nat /\ Taken <= offset
      BY <1>1, <3>1 DEF SameInv, Taken
    <3> QED
      BY <1>1, <1>2, <1>3, <2>1, <2>2, <3>1, <3>2, <3>3, StillSame DEF SameInv, OrderInv
  <2>4. CASE ~Same
    <3>1. Replaced /\ ReplacedInv
      BY <1>1, <2>1, <2>4 DEF Replaced, Same, CallInv
    <3>2. offset' = 0 /\ partial' = <<>>
      BY <1>6, <3>1 DEF Poll
    <3>3. SubSeq(file, 0 + 1, 0) = <<>>
      <4>1. SubSeq(file, 0 + 1, 0) \in Seq(Bytes) /\ Len(SubSeq(file, 0 + 1, 0)) = 0 - (0 + 1) + 1
        BY <1>1, Cutting
      <4> QED
        BY <4>1, EmptySeq
    <3>4. \A j \in 1..Len(file) : Before(file[j])
      BY <3>1 DEF ReplacedInv
    <3>5. 0 \in Nat /\ 0 <= 0 /\ 0 <= Len(file) /\ partial' = SubSeq(file, 0 + 1, 0)
      BY <1>1, <3>2, <3>3
    <3>6. CallInv'
      BY <1>2, <2>1, <2>2, <3>2, <3>4, <3>5, StillSame
    <3> QED
      BY <1>3, <3>6 DEF OrderInv
  <2> QED
    BY <2>3, <2>4
<1>7. CASE Read
  <2>1. CallInv /\ exists /\ Same
    BY <1>7 DEF Read, OrderInv, Live, CallInv
  <2>2. SameInv /\ offset <= Len(file) /\ ino = inode /\ ino' = ino
    BY <1>1, <1>7, <2>1 DEF CallInv, Same, Read
  <2>3. Taken \in Nat /\ Taken <= offset
    BY <1>1, <2>2 DEF SameInv, Taken
  <2>4. PICK m \in offset..Len(file) :
           Appended = SubSeq(file, offset + 1, m) /\ Appended \in Seq(Bytes) /\ Len(Appended) = m - offset
    BY <2>2, ReadBytes
  <2>5. offset' = m /\ m \in Nat /\ m <= Len(file) /\ Taken <= m
    BY <1>1, <1>7, <2>3, <2>4 DEF Read
  <2>6. partial' = SubSeq(file, Taken + 1, m)
    <3>1. partial' = SubSeq(file, Taken + 1, offset) \o SubSeq(file, offset + 1, m)
      BY <1>7, <2>2, <2>4 DEF Read, SameInv
    <3>2. Taken + 1 \in Nat /\ Taken + 1 >= 1 /\ Taken + 1 <= offset + 1 /\ offset <= m
      BY <1>1, <2>3, <2>4
    <3>3. file \in Seq(Bytes) /\ offset \in Nat
      BY <1>1 DEF TypeOK
    <3>4. SubSeq(file, Taken + 1, offset) \o SubSeq(file, offset + 1, m) = SubSeq(file, Taken + 1, m)
      BY <2>5, <3>2, <3>3, Joining
    <3> QED
      BY <3>1, <3>4
  <2> QED
    BY <1>1, <1>2, <1>3, <2>1, <2>2, <2>3, <2>5, <2>6, StillSame DEF SameInv, OrderInv
<1> QED
  BY <1>4, <1>5, <1>6, <1>7

(* What is left of partial_line when its first n bytes are dropped.           *)
LEMMA RestOfPiece ==
    ASSUME TypeOK, NEW T \in Nat, T = Taken, partial = SubSeq(file, T + 1, offset), offset <= Len(file),
           NEW n \in 0..Len(partial)
    PROVE  /\ SubSeq(partial, n + 1, Len(partial)) = SubSeq(file, (T + n) + 1, offset)
           /\ T + n <= offset /\ offset - (Len(partial) - n) = T + n
<1>1. file \in Seq(Bytes) /\ offset \in Nat /\ Len(partial) \in Nat /\ Len(file) \in Nat
  BY Types DEF TypeOK
<1>2. Len(partial) = offset - T
  BY <1>1 DEF Taken
<1>3. /\ T + 1 \in Nat /\ n + 1 \in Nat /\ T + 1 >= 1 /\ T + 1 <= offset + 1 /\ n + 1 >= 1
      /\ n + 1 <= Len(partial) + 1 /\ Len(partial) <= offset - (T + 1) + 1
      /\ (T + 1) + (n + 1) - 1 = (T + n) + 1 /\ (T + 1) + Len(partial) - 1 = offset
  BY <1>1, <1>2
<1>4. SubSeq(SubSeq(file, T + 1, offset), n + 1, Len(partial))
         = SubSeq(file, (T + 1) + (n + 1) - 1, (T + 1) + Len(partial) - 1)
  BY <1>1, <1>3, CuttingAgain
<1>5. T + n <= offset /\ offset - (Len(partial) - n) = T + n
  BY <1>1, <1>2
<1> QED
  BY <1>3, <1>4, <1>5

(* The first n bytes of partial_line are dropped, and what is delivered meanwhile *)
(* belongs to no later line than the L-th.                                   *)
LEMMA OrderKeptByDropping ==
    ASSUME TypeOK, WriterInv, CallInv, NEW n \in 0..Len(partial), NEW L \in Nat,
           partial' = SubSeq(partial, n + 1, Len(partial)),
           Len(partial') = Len(partial) - n, \A i \in 1..(Len(partial) - n) : partial'[i] = partial[n + i],
           UNCHANGED writerVars, ino' = ino, offset' = offset, pc' # "read",
           \A b \in Bytes : Before(b) /\ L < b[1] => Before(b)',
           \A i \in 1..Len(partial) : i > n => L < partial[i][1],
           Same => \A j \in 1..Len(file) : j > Taken + n => L < file[j][1],
           ~Same => \A j \in 1..Len(file) : L < file[j][1]
    PROVE  CallInv'
<1>1. /\ file \in Seq(Bytes) /\ partial \in Seq(Bytes) /\ Len(partial) \in Nat /\ Len(file) \in Nat
      /\ offset \in Nat /\ inode \in Nat /\ ino \in Nat
      /\ \A i \in 1..Len(file) : file[i] \in Bytes
      /\ \A i \in 1..Len(partial) : partial[i] \in Bytes
  BY Types DEF TypeOK
<1>2. UNCHANGED <<file, inode, exists, line, index>>
  BY DEF writerVars
<1>3. Genuine(partial')
  <2>1. n + 1 \in Nat /\ n + 1 >= 1 /\ n + 1 <= Len(partial) + 1
    BY <1>1
  <2> QED
    BY <1>1, <2>1, GenuineSub DEF CallInv
<1>4. \A i \in 1..(Len(partial) - n) : n + i \in 1..Len(partial) /\ n + i > n
  BY <1>1
<1>5. ASSUME NEW b \in Bytes, Before(b), L < b[1]
      PROVE  \A k \in 1..Len(delivered') : delivered'[k] # <<>> => delivered'[k][1][1] < b[1]
  BY <1>5 DEF Before
<1>6. \A i \in 1..Len(partial') : (Written(partial[i]) /\ Before(partial[i]))'
  <2> SUFFICES ASSUME NEW i \in 1..(Len(partial) - n)
               PROVE  (Written(partial[i]) /\ Before(partial[i]))'
    OBVIOUS
  <2>1. n + i \in 1..Len(partial) /\ n + i > n /\ partial'[i] = partial[n + i]
    BY <1>4
  <2>2. /\ partial[n + i] \in Bytes /\ Written(partial[n + i]) /\ Before(partial[n + i])
        /\ L < partial[n + i][1]
    BY <1>1, <2>1 DEF CallInv
  <2>3. Before(partial[i])'
    BY <1>5, <2>1, <2>2 DEF Before
  <2> QED
    BY <1>2, <2>1, <2>2, <2>3 DEF Written
<1>7. Same' <=> Same
  BY <1>2 DEF Same
<1>8. CASE Same
  <2>1. SameInv /\ offset <= Len(file)
    BY <1>1, <1>8 DEF CallInv, Same
  <2>2. PICK T \in Nat : T = Taken
    BY <1>1, <2>1, PartialIs DEF SameInv
  <2>3. /\ partial' = SubSeq(file, (T + n) + 1, offset) /\ offset - (Len(partial) - n) = T + n
    BY <2>1, <2>2, RestOfPiece DEF SameInv
  <2>4. Taken' = T + n
    BY <2>3 DEF Taken
  <2>5. ASSUME NEW j \in 1..Len(file), j > T + n
        PROVE  file[j] \in Bytes /\ Before(file[j]) /\ L < file[j][1]
    <3>1. j > T
      BY <1>1, <2>5
    <3> QED
      BY <1>1, <1>8, <2>1, <2>2, <2>5, <3>1 DEF SameInv
  <2>6. \A j \in 1..Len(file) : j > T + n => Before(file[j])'
    BY <1>2, <1>5, <2>5 DEF Before
  <2>7. T + n >= 0
    OBVIOUS
  <2>8. SameInv'
    BY <1>2, <2>3, <2>4, <2>6, <2>7 DEF SameInv
  <2> QED
    BY <1>2, <1>3, <1>6, <1>7, <1>8, <2>8 DEF CallInv
<1>9. CASE ~Same
  <2>1. ReplacedInv
    BY <1>9 DEF CallInv
  <2>2. \A j \in 1..Len(file) : Before(file[j])'
    BY <1>1, <1>2, <1>5, <1>9, <2>1 DEF ReplacedInv, Before
  <2>3. \A i \in 1..Len(partial') : n + i \in 1..Len(partial) /\ partial'[i] = partial[n + i]
    BY <1>4
  <2>4. ReplacedInv'
    BY <1>2, <2>1, <2>2, <2>3 DEF ReplacedInv
  <2> QED
    BY <1>2, <1>3, <1>6, <1>7, <1>9, <2>4 DEF CallInv
<1> QED
  BY <1>8, <1>9

LEMMA OrderKeptByEndOfLines ==
    ASSUME TypeOK, WriterInv, OrderInv, EndOfLines
    PROVE  OrderInv'
<1>1. /\ UNCHANGED writerVars /\ delivered' = delivered /\ ino' = ino /\ offset' = offset
      /\ pc' = "poll" /\ partial' = Kept(partial)
  BY DEF EndOfLines
<1>2. DeliveredInv'
  BY <1>1 DEF OrderInv, DeliveredInv, GenuineInOrder, NoSplicedLine, writerVars
<1>3. CallInv
  BY DEF OrderInv, EndOfLines, Live
<1>4. PICK n \in 0..Len(partial) :
              /\ Kept(partial) = SubSeq(partial, n + 1, Len(partial))
              /\ Len(Kept(partial)) = Len(partial) - n
              /\ \A i \in 1..(Len(partial) - n) : Kept(partial)[i] = partial[n + i]
  BY KeptIs
<1>5. \A b \in Bytes : 0 < b[1]
  BY SizesAssumption DEF Bytes
<1>6. /\ \A i \in 1..Len(partial) : 0 < partial[i][1]
      /\ \A j \in 1..Len(file) : 0 < file[j][1]
  BY <1>5, Types
<1>7. \A b \in Bytes : Before(b) /\ 0 < b[1] => Before(b)'
  BY <1>1 DEF Before
<1>8. CallInv'
  BY <1>1, <1>3, <1>4, <1>6, <1>7, OrderKeptByDropping
<1> QED
  BY <1>2, <1>8 DEF OrderInv

LEMMA OrderKeptBySendLine ==
    ASSUME TypeOK, WriterInv, OrderInv, SendLine
    PROVE  OrderInv'
<1>1. CallInv /\ DeliveredInv
  BY DEF OrderInv, SendLine, Live
<1>2. PICK end : end = FirstNewline(partial)
  OBVIOUS
<1> DEFINE piece == SubSeq(partial, 1, end - 1)
           rest  == SubSeq(partial, end + 1, Len(partial))
           l     == Clipped(piece)
<1>3. /\ end \in 1..Len(partial) /\ Newline(partial[end])
      /\ \A j \in 1..(end - 1) : ~Newline(partial[j])
      /\ piece \in Seq(Bytes) /\ Len(piece) = end - 1
      /\ \A i \in 1..(end - 1) : piece[i] = partial[i]
      /\ Len(rest) = Len(partial) - end
      /\ \A i \in 1..(Len(partial) - end) : rest[i] = partial[end + i]
  BY <1>2, CutOff DEF SendLine
<1>4. /\ UNCHANGED writerVars /\ ino' = ino /\ offset' = offset
      /\ partial' = rest /\ (delivered' = delivered \/ delivered' = Append(delivered, l))
      /\ pc' \in {"lines", "returned"}
  BY <1>2 DEF SendLine, Return
<1> HIDE DEF piece, rest
<1>5. l \in Seq(Bytes) /\ Len(l) <= Len(piece) /\ \A i \in 1..Len(l) : l[i] = piece[i]
  BY <1>3, ClippedType
<1> HIDE DEF l
<1>6. /\ Len(partial) \in Nat /\ Len(file) \in Nat /\ Len(delivered) \in Nat /\ Len(l) \in Nat
      /\ \A i \in 1..Len(partial) : partial[i] \in Bytes /\ partial[i][1] \in Nat /\ partial[i][2] \in Nat
      /\ \A i \in 1..Len(file) : file[i] \in Bytes /\ file[i][1] \in Nat
      /\ line \in Nat /\ delivered \in Seq(Seq(Bytes))
  BY <1>5, Types, ByteParts, LenProperties, SizesAssumption DEF TypeOK
<1>7. \A i \in 1..Len(l) : i \in 1..(end - 1) /\ i \in 1..Len(partial) /\ l[i] = partial[i]
  BY <1>3, <1>5, <1>6
<1>8. UNCHANGED <<file, line, index>>
  BY <1>4 DEF writerVars
<1>9. partial[end][1] < line /\ partial[end][1] \in Nat
  BY <1>1, <1>3, <1>6 DEF CallInv, Written
<1>10. ASSUME l # <<>>
       PROVE  /\ l[1] = partial[1] /\ l[1][1] \in Nat /\ l[1][1] <= partial[end][1]
              /\ \A k \in 1..Len(delivered) : delivered[k] # <<>> => delivered[k][1][1] < l[1][1]
  <2>1. Len(l) # 0
    BY <1>5, <1>10, EmptySeq
  <2>2. 1 \in 1..Len(l)
    BY <1>6, <2>1
  <2>3. l[1] = partial[1] /\ 1 \in 1..Len(partial) /\ 1 < end
    BY <1>3, <1>6, <1>7, <2>2
  <2>4. partial[1][1] <= partial[end][1]
    BY <1>1, <1>3, <2>3 DEF CallInv, Genuine
  <2>5. Before(partial[1])
    BY <1>1, <2>3 DEF CallInv
  <2> QED
    BY <1>6, <2>3, <2>4, <2>5 DEF Before
<1>11. ASSUME NEW i \in 2..Len(l)
       PROVE  l[i][1] = l[i - 1][1] /\ l[i][2] = l[i - 1][2] + 1
  <2>1. i \in 1..Len(l) /\ i - 1 \in 1..Len(l)
    BY <1>6
  <2>2. l[i] = partial[i] /\ l[i - 1] = partial[i - 1] /\ ~Newline(partial[i]) /\ ~Newline(partial[i - 1])
    BY <1>3, <1>7, <2>1
  <2>3. i - 1 \in 1..(Len(partial) - 1) /\ (i - 1) + 1 = i
    BY <1>6, <1>7, <2>1
  <2>4. Follows(partial[i - 1], partial[i])
    BY <1>1, <2>3 DEF CallInv, Genuine
  <2> QED
    BY <2>2, <2>4 DEF Follows, Newline
<1>12. ASSUME delivered' = delivered
       PROVE  /\ DeliveredInv'
              /\ \A b \in Bytes : Before(b) /\ partial[end][1] < b[1] => Before(b)'
  <2>1. DeliveredInv'
    BY <1>1, <1>8, <1>12 DEF DeliveredInv, GenuineInOrder, NoSplicedLine
  <2>2. \A b \in Bytes : Before(b) => Before(b)'
    BY <1>12 DEF Before
  <2> QED
    BY <2>1, <2>2
<1>13. ASSUME delivered' = Append(delivered, l)
       PROVE  /\ DeliveredInv'
              /\ \A b \in Bytes : Before(b) /\ partial[end][1] < b[1] => Before(b)'
  <2> DEFINE d == Append(delivered, l)
  <2>1. /\ Len(d) = Len(delivered) + 1 /\ d[Len(delivered) + 1] = l
        /\ \A i \in 1..Len(delivered) : d[i] = delivered[i]
    BY <1>5, <1>6, Extending
  <2> HIDE DEF d
  <2>2. \A k \in 1..Len(d) : (k \in 1..Len(delivered) /\ d[k] = delivered[k]) \/ (k = Len(delivered) + 1 /\ d[k] = l)
    BY <1>6, <2>1
  <2>3. \A k \in 1..Len(d) : \A i \in 2..Len(d[k]) :
            d[k][i][1] = d[k][i - 1][1] /\ d[k][i][2] = d[k][i - 1][2] + 1
    BY <1>1, <1>11, <2>2 DEF DeliveredInv, GenuineInOrder, NoSplicedLine
  <2>4. ASSUME NEW j \in 1..Len(d), NEW k \in 1..Len(d), j < k, d[j] # <<>>, d[k] # <<>>
        PROVE  d[j][1][1] < d[k][1][1]
    <3>1. j \in 1..Len(delivered) /\ d[j] = delivered[j]
      BY <1>6, <2>2, <2>4
    <3>2. CASE k \in 1..Len(delivered) /\ d[k] = delivered[k]
      BY <1>1, <2>4, <3>1, <3>2 DEF DeliveredInv, GenuineInOrder
    <3>3. CASE d[k] = l
      BY <1>10, <2>4, <3>1, <3>3
    <3> QED
      BY <2>2, <3>2, <3>3
  <2>5. ASSUME NEW k \in 1..Len(d), d[k] # <<>>
        PROVE  d[k][1][1] < line
    <3>1. CASE k \in 1..Len(delivered) /\ d[k] = delivered[k]
      BY <1>1, <2>5, <3>1 DEF DeliveredInv
    <3>2. CASE d[k] = l
      BY <1>6, <1>9, <1>10, <2>5, <3>2
    <3> QED
      BY <2>2, <3>1, <3>2
  <2>6. delivered' = d
    BY <1>13 DEF d
  <2>7. DeliveredInv'
    BY <1>8, <2>3, <2>4, <2>5, <2>6 DEF DeliveredInv, GenuineInOrder, NoSplicedLine
  <2>8. ASSUME NEW b \in Bytes, Before(b), partial[end][1] < b[1]
        PROVE  Before(b)'
    <3>1. l # <<>> => l[1][1] < b[1]
      BY <1>9, <1>10, <2>8, ByteParts
    <3>2. \A k \in 1..Len(d) : d[k] # <<>> => d[k][1][1] < b[1]
      BY <2>2, <2>8, <3>1 DEF Before
    <3> QED
      BY <2>6, <3>2 DEF Before
  <2> QED
    BY <2>7, <2>8
<1>14. /\ DeliveredInv'
       /\ \A b \in Bytes : Before(b) /\ partial[end][1] < b[1] => Before(b)'
  BY <1>4, <1>12, <1>13
<1>15. CASE Live'
  <2>1. PICK L \in Nat : L = partial[end][1]
    BY <1>9
  <2>2. \A i \in 1..Len(partial) : i > end => L < partial[i][1]
    BY <1>1, <1>3, <1>6, <2>1 DEF CallInv, Genuine
  <2>3. ASSUME Same, NEW j \in 1..Len(file), j > Taken + end
        PROVE  L < file[j][1]
    <3>1. SameInv /\ offset <= Len(file)
      BY <1>1, <1>6, <2>3 DEF CallInv, Same, TypeOK
    <3>2. Taken \in Nat /\ Taken + end \in 1..offset /\ partial[end] = file[Taken + end]
      BY <1>3, <3>1, PartialIs DEF SameInv
    <3>3. Taken + end \in 1..Len(file) /\ Taken + end < j
      <4>1. Len(file) \in Nat /\ offset \in Nat
        BY <1>1 DEF TypeOK
      <4> DEFINE k == Taken + end
      <4>2. k \in 1..offset /\ j > k
        BY <2>3, <3>2
      <4> HIDE DEF k
      <4>3. k \in 1..Len(file) /\ k < j
        BY <2>3, <3>1, <4>1, <4>2
      <4> QED
        BY <4>3 DEF k
    <3>4. Newline(file[Taken + end]) => file[Taken + end][1] < file[j][1]
      BY <3>3 DEF WriterInv, Genuine
    <3> QED
      BY <1>3, <2>1, <3>2, <3>4
  <2>4. ASSUME ~Same, NEW j \in 1..Len(file)
        PROVE  L < file[j][1]
    BY <1>1, <1>3, <2>1, <2>4 DEF CallInv, ReplacedInv
  <2>5. /\ partial' = SubSeq(partial, end + 1, Len(partial)) /\ Len(partial') = Len(partial) - end
        /\ \A i \in 1..(Len(partial) - end) : partial'[i] = partial[end + i]
    BY <1>3, <1>4 DEF rest
  <2>6. end \in 0..Len(partial) /\ pc' # "read"
    BY <1>3, <1>4
  <2>7. \A b \in Bytes : Before(b) /\ L < b[1] => Before(b)'
    BY <1>14, <2>1
  <2>8. CallInv'
    BY <1>1, <1>4, <2>2, <2>3, <2>4, <2>5, <2>6, <2>7, OrderKeptByDropping
  <2> QED
    BY <1>14, <2>8 DEF OrderInv
<1> QED
  BY <1>14, <1>15 DEF OrderInv

-----------------------------------------------------------------------------
(* What is delivered of a file that is only appended to.                     *)
LEMMA AppendFacts ==
    ASSUME TypeOK, AppendInv
    PROVE  /\ Taken \in Nat /\ Len(partial) = offset - Taken /\ offset <= Len(file) /\ start <= Taken
           /\ partial = SubSeq(file, Taken + 1, offset)
           /\ \A i \in 1..Len(partial) : Taken + i \in 1..offset /\ partial[i] = file[Taken + i]
<1>1. start \in Nat /\ offset \in Nat /\ Len(partial) \in Nat
  BY Types DEF TypeOK
<1>2. start <= Taken /\ offset <= Len(file) /\ partial = SubSeq(file, Taken + 1, offset)
  BY DEF AppendInv
<1>3. Taken >= 0
  BY <1>1, <1>2 DEF Taken
<1> QED
  BY <1>2, <1>3, PartialIs

LEMMA UntouchedKeptByWriter ==
    ASSUME TypeOK, WriterInv, UntouchedInv, Writer
    PROVE  UntouchedInv'
<1>1. /\ file \in Seq(Bytes) /\ Len(file) \in Nat /\ offset \in Nat /\ start \in Nat
      /\ inode \in Nat /\ Len(partial) \in Nat /\ rotations \in Nat /\ truncations \in Nat
      /\ LineCap \in Nat
  BY Types, SizesAssumption DEF TypeOK
<1>2. UNCHANGED <<keyword, pc, status, offset, ino, partial, start, delivered>>
  BY DEF Writer, Write, RenameAway, Create, Truncate, callVars
<1>3. ASSUME Untouched', Live'
      PROVE  AppendInv'
  <2>1. Write /\ Untouched /\ Live
    <3>1. ~RenameAway
      <4> SUFFICES ASSUME RenameAway
                   PROVE  FALSE
        OBVIOUS
      <4>1. rotations' = rotations + 1 /\ truncations' = truncations
        BY DEF RenameAway
      <4> QED
        BY <1>1, <1>3, <4>1 DEF Untouched
    <3>2. ~Truncate
      <4> SUFFICES ASSUME Truncate
                   PROVE  FALSE
        OBVIOUS
      <4>1. truncations' = truncations + 1 /\ rotations' = rotations
        BY DEF Truncate
      <4> QED
        BY <1>1, <1>3, <4>1 DEF Untouched
    <3>3. ~Create
      <4> SUFFICES ASSUME Create
                   PROVE  FALSE
        OBVIOUS
      <4>1. inode' = inode + 1 /\ inode >= 1
        BY DEF Create, WriterInv
      <4> QED
        BY <1>1, <1>3, <4>1 DEF Untouched
    <3>4. Write
      BY <3>1, <3>2, <3>3 DEF Writer
    <3> QED
      BY <1>2, <1>3, <3>4 DEF Write, Untouched, Live
  <2>2. AppendInv
    BY <2>1 DEF UntouchedInv
  <2>3. PICK g \in Seq(Bytes) : /\ file' = g /\ Len(g) = Len(file) + 1 /\ \A i \in 1..Len(file) : g[i] = file[i]
    BY <2>1, WriteExtends
  <2>4. exists' /\ ino' = 1
    BY <1>2, <2>1, <2>2 DEF Write, AppendInv
  <2>5. /\ Taken \in Nat /\ Len(partial) = offset - Taken /\ offset <= Len(file) /\ start <= Taken
        /\ partial = SubSeq(file, Taken + 1, offset) /\ Taken' = Taken
    BY <1>2, <2>2, AppendFacts DEF Taken
  <2>6. PICK T \in Nat : T = Taken
    BY <2>5
  <2>7. /\ T <= offset /\ offset <= Len(g) /\ T + 1 \in Nat /\ T + 1 >= 1 /\ T + 1 <= offset + 1
        /\ \A i \in 1..offset : i \in 1..Len(file)
        /\ T <= Len(file) /\ T <= Len(g) /\ \A i \in 1..T : i \in 1..Len(file)
    BY <1>1, <2>3, <2>5, <2>6
  <2>8. SubSeq(g, T + 1, offset) = SubSeq(file, T + 1, offset)
    BY <1>1, <2>3, <2>5, <2>7, PieceStays
  <2>9. \/ T = start \/ Newline(g[T])
        \/ LineCap <= Len(partial) /\ \A j \in (T + 1)..(T + LineCap) : ~Newline(g[j])
    <3>1. T # start => T \in 1..Len(file)
      BY <1>1, <2>5, <2>6, <2>7
    <3>2. LineCap <= Len(partial) => \A j \in (T + 1)..(T + LineCap) : j \in 1..Len(file)
      BY <1>1, <2>5, <2>6
    <3> QED
      BY <2>2, <2>3, <2>6, <3>1, <3>2 DEF AppendInv
  <2>10. SureIn(g, start, keyword, T) => DeliversIn(g, start, keyword, delivered, T)
    <3>1. /\ SureIn(g, start, keyword, T) => SureIn(file, start, keyword, T)
          /\ DeliversIn(file, start, keyword, delivered, T) => DeliversIn(g, start, keyword, delivered, T)
      BY <1>1, <2>3, <2>7, DeliversStays
    <3> QED
      BY <2>2, <2>6, <3>1 DEF AppendInv
  <2>11. offset <= Len(g) /\ start <= T
    BY <2>5, <2>6, <2>7
  <2> QED
    BY <1>2, <2>2, <2>3, <2>4, <2>5, <2>6, <2>8, <2>9, <2>10, <2>11 DEF AppendInv
<1>4. pc' = "initial" => delivered' = <<>> /\ partial' = <<>>
  BY <1>2 DEF UntouchedInv
<1> QED
  BY <1>3, <1>4 DEF UntouchedInv

LEMMA NothingExpectedYet ==
    ASSUME NEW f, NEW st \in Nat, NEW kw
    PROVE  DeliversIn(f, st, kw, <<>>, st)
<1>1. EndsIn(f, st, st) = {}
  <2>1. (st + 1)..st = {}
    OBVIOUS
  <2> QED
    BY <2>1 DEF EndsIn
<1>2. ExpectedIn(f, st, kw, st) = {}
  BY <1>1 DEF ExpectedIn
<1>3. Len(<<>>) = 0 /\ Cardinality({}) = 0
  BY EmptySeq, FS_EmptySet
<1> QED
  BY <1>2, <1>3 DEF DeliversIn

LEMMA UntouchedKeptByReading ==
    ASSUME TypeOK, WriterInv, UntouchedInv,
           Refuse \/ FirstStat \/ SeesCancel \/ Poll \/ Read
    PROVE  UntouchedInv'
<1>1. /\ file \in Seq(Bytes) /\ Len(file) \in Nat /\ offset \in Nat /\ start \in Nat
      /\ inode \in Nat /\ Len(partial) \in Nat /\ partial \in Seq(Bytes)
      /\ LineCap \in Nat /\ Len(<<>>) = 0
  BY Types, EmptySeq DEF TypeOK
<1>2. UNCHANGED writerVars /\ delivered' = delivered /\ keyword' = keyword
  BY DEF Refuse, FirstStat, SeesCancel, Poll, Read
<1>3. UNCHANGED <<file, inode, exists, rotations, truncations>>
  BY <1>2 DEF writerVars
<1>4. pc' # "initial"
  BY DEF Refuse, FirstStat, SeesCancel, Poll, Read, Return
<1>5. ASSUME Untouched', Live'
      PROVE  AppendInv'
  <2>1. Untouched
    BY <1>3, <1>5 DEF Untouched
  <2>2. ~Refuse /\ ~SeesCancel
    BY <1>5 DEF Live, Refuse, SeesCancel, Return
  <2>3. CASE FirstStat
    <3>1. exists
      BY <1>5, <2>3 DEF Live, FirstStat, Return
    <3>2. delivered = <<>> /\ partial = <<>> /\ partial' = <<>> /\ pc' = "poll"
      BY <2>3, <3>1 DEF FirstStat, UntouchedInv
    <3>3. PICK o \in Nat : offset' = o /\ start' = o /\ o <= Len(file)
      BY <1>1, <2>3, <3>1, SizesAssumption DEF FirstStat
    <3>4. ino' = 1
      BY <2>1, <2>3, <3>1 DEF FirstStat, Untouched
    <3>5. SubSeq(file, o + 1, o) = <<>>
      <4>1. o + 1 \in Nat /\ o + 1 >= 1 /\ o + 1 <= o + 1 /\ o - (o + 1) + 1 = 0
        OBVIOUS
      <4>2. SubSeq(file, o + 1, o) \in Seq(Bytes) /\ Len(SubSeq(file, o + 1, o)) = o - (o + 1) + 1
        BY <1>1, <3>3, <4>1, Cutting
      <4> QED
        BY <4>1, <4>2, EmptySeq
    <3>6. o - 0 = o /\ o <= o
      OBVIOUS
    <3>7. Taken' = o
      BY <1>1, <3>2, <3>3, <3>6 DEF Taken
    <3>8. ~HasLine(<<>>)
      BY <1>1 DEF HasLine
    <3>9. DeliversIn(file, o, keyword, <<>>, o)
      BY NothingExpectedYet
    <3> QED
      BY <1>2, <1>3, <3>1, <3>2, <3>3, <3>4, <3>5, <3>6, <3>7, <3>8, <3>9 DEF AppendInv
  <2>4. CASE Poll
    <3>1. AppendInv /\ ~HasLine(partial)
      BY <2>1, <2>4 DEF UntouchedInv, Live, Poll, AppendInv
    <3>2. ~Replaced
      BY <1>1, <2>1, <3>1 DEF AppendInv, Untouched, Replaced
    <3>3. offset' = offset /\ partial' = partial /\ ino' = inode /\ start' = start
      BY <2>4, <3>2 DEF Poll
    <3>4. Taken' = Taken
      BY <3>3 DEF Taken
    <3> QED
      BY <1>2, <1>3, <2>1, <3>1, <3>3, <3>4 DEF AppendInv, Untouched
  <2>5. CASE Read
    <3>1. AppendInv
      BY <2>1, <2>5 DEF UntouchedInv, Live, Read
    <3>2. /\ Taken \in Nat /\ Len(partial) = offset - Taken /\ offset <= Len(file)
          /\ partial = SubSeq(file, Taken + 1, offset)
      BY <3>1, AppendFacts
    <3>3. PICK m \in offset..Len(file) :
             Appended = SubSeq(file, offset + 1, m) /\ Appended \in Seq(Bytes) /\ Len(Appended) = m - offset
      BY <3>2, ReadBytes
    <3>4. /\ offset' = m /\ start' = start /\ ino' = ino /\ pc' = "lines" /\ m \in Nat /\ m <= Len(file)
      BY <1>1, <2>5, <3>3 DEF Read
    <3>5. partial' = SubSeq(file, Taken + 1, m)
      <4>1. partial' = SubSeq(file, Taken + 1, offset) \o SubSeq(file, offset + 1, m)
        BY <2>5, <3>2, <3>3 DEF Read
      <4>2. Taken + 1 \in Nat /\ Taken + 1 >= 1 /\ Taken + 1 <= offset + 1 /\ offset <= m
        BY <1>1, <3>2, <3>3
      <4> QED
        BY <1>1, <3>2, <3>4, <4>1, <4>2, Joining
    <3>6. Len(partial') = m - Taken
      <4>1. Taken <= m
        BY <1>1, <3>2, <3>3
      <4> QED
        BY <1>1, <3>2, <3>4, <3>5, <4>1, PieceFacts DEF WriterInv
    <3>7. m - (m - Taken) = Taken /\ (LineCap <= Len(partial) => LineCap <= m - Taken)
      BY <1>1, <3>2, <3>3
    <3>8. Taken' = Taken
      BY <3>4, <3>6, <3>7 DEF Taken
    <3> QED
      BY <1>2, <1>3, <3>1, <3>4, <3>5, <3>6, <3>7, <3>8 DEF AppendInv
  <2> QED
    BY <2>2, <2>3, <2>4, <2>5
<1> QED
  BY <1>4, <1>5 DEF UntouchedInv

LEMMA UntouchedKeptByEndOfLines ==
    ASSUME TypeOK, WriterInv, UntouchedInv, EndOfLines
    PROVE  UntouchedInv'
<1>1. /\ file \in Seq(Bytes) /\ Len(file) \in Nat /\ offset \in Nat /\ start \in Nat
      /\ inode \in Nat /\ Len(partial) \in Nat /\ partial \in Seq(Bytes)
      /\ LineCap \in Nat
  BY Types DEF TypeOK
<1>2. /\ UNCHANGED writerVars /\ delivered' = delivered /\ keyword' = keyword
      /\ ino' = ino /\ offset' = offset /\ start' = start /\ pc' = "poll" /\ partial' = Kept(partial)
      /\ \A i \in 1..Len(partial) : ~Newline(partial[i])
  BY DEF EndOfLines, HasLine
<1>3. UNCHANGED <<file, inode, exists, rotations, truncations>>
  BY <1>2 DEF writerVars
<1>4. ASSUME Untouched'
      PROVE  AppendInv'
  <2>1. AppendInv
    BY <1>3, <1>4 DEF Untouched, UntouchedInv, Live, EndOfLines
  <2>2. /\ Taken \in Nat /\ Len(partial) = offset - Taken /\ offset <= Len(file) /\ start <= Taken
        /\ partial = SubSeq(file, Taken + 1, offset)
        /\ \A i \in 1..Len(partial) : Taken + i \in 1..offset /\ partial[i] = file[Taken + i]
    BY <2>1, AppendFacts
  <2>3. PICK T \in Nat : T = Taken
    BY <2>2
  <2>4. PICK n \in 0..Len(partial) :
              /\ Kept(partial) = SubSeq(partial, n + 1, Len(partial))
              /\ Len(Kept(partial)) = Len(partial) - n
              /\ \A i \in 1..(Len(partial) - n) : Kept(partial)[i] = partial[n + i]
              /\ n = IF Len(partial) > LineCap THEN Len(partial) - LineCap ELSE 0
    BY KeptIs
  <2>5. partial' = SubSeq(file, (T + n) + 1, offset) /\ T + n <= offset /\ offset - (Len(partial) - n) = T + n
    BY <1>2, <2>2, <2>3, <2>4, RestOfPiece
  <2>6. Taken' = T + n
    BY <1>2, <2>4, <2>5 DEF Taken
  <2>7. \A i \in (T + 1)..offset : ~Newline(file[i])
    <3> SUFFICES ASSUME NEW i \in (T + 1)..offset
                 PROVE  ~Newline(file[i])
      OBVIOUS
    <3>1. i - T \in 1..Len(partial) /\ T + (i - T) = i
      BY <1>1, <2>2, <2>3
    <3> QED
      BY <1>2, <2>2, <2>3, <3>1
  <2>8. ~HasLine(partial')
    <3>1. \A i \in 1..(Len(partial) - n) : n + i \in 1..Len(partial)
      BY <1>1
    <3> QED
      BY <1>2, <2>4, <3>1 DEF HasLine
  <2>9. \A i \in (T + 1)..(T + n) : ~Newline(file[i])
    BY <1>1, <2>5, <2>7
  <2>10. /\ SureIn(file, start, keyword, T + n) <=> SureIn(file, start, keyword, T)
         /\ DeliversIn(file, start, keyword, delivered, T + n) <=> DeliversIn(file, start, keyword, delivered, T)
    <3>1. T + n \in Nat /\ T <= T + n
      OBVIOUS
    <3> QED
      BY <1>1, <2>9, <3>1, NoEndBetween
  <2>11. \/ T + n = start \/ Newline(file[T + n])
         \/ LineCap <= Len(partial') /\ \A j \in ((T + n) + 1)..((T + n) + LineCap) : ~Newline(file[j])
    <3>1. CASE n = 0
      <4>1. Len(partial') = Len(partial) /\ T + n = T
        BY <1>1, <1>2, <2>4, <3>1
      <4> QED
        BY <2>1, <2>3, <4>1 DEF AppendInv
    <3>2. CASE n # 0
      <4>1. Len(partial) - n = LineCap
        <5>1. Len(partial) > LineCap /\ n = Len(partial) - LineCap
          BY <2>4, <3>2
        <5> QED
          BY <1>1, <5>1
      <4>2. LineCap <= Len(partial') /\ (T + n) + LineCap = offset
        BY <1>1, <1>2, <2>2, <2>3, <2>4, <4>1
      <4>3. \A j \in ((T + n) + 1)..((T + n) + LineCap) : j \in (T + 1)..offset
        BY <1>1, <4>2
      <4> QED
        BY <2>7, <4>2, <4>3
    <3> QED
      BY <3>1, <3>2
  <2>12. start <= T + n
    BY <1>1, <2>2, <2>3
  <2>13. SureIn(file, start, keyword, T) => DeliversIn(file, start, keyword, delivered, T)
    BY <2>1, <2>3 DEF AppendInv
  <2> QED
    BY <1>2, <1>3, <2>1, <2>2, <2>5, <2>6, <2>8, <2>10, <2>11, <2>12, <2>13 DEF AppendInv
<1> QED
  BY <1>2, <1>4 DEF UntouchedInv

(* The line that ends at e is read whole from T on, or from T on it is longer *)
(* than what is sent of it: what is sent stands for it either way.            *)
LEMMA NextLineRead ==
    ASSUME NEW f \in Seq(Bytes), Genuine(f), NEW st \in Nat, NEW T \in Nat, NEW e \in Nat, NEW kw,
           st <= T, T < e, e <= Len(f), Newline(f[e]), \A j \in (T + 1)..(e - 1) : ~Newline(f[j]),
           T = st \/ Newline(f[T]) \/ T + LineCap < e,
           SureIn(f, st, kw, e)
    PROVE  /\ EndsIn(f, st, e) = EndsIn(f, st, T) \cup {e}
           /\ SureIn(f, st, kw, T)
           /\ Contains(Clipped(SubSeq(f, T + 1, e - 1)), kw) <=> Contains(Clipped(LineIn(f, st, e)), kw)
           /\ Stands(Clipped(SubSeq(f, T + 1, e - 1)), LineIn(f, st, e))
<1> DEFINE b == BeginIn(f, st, e)
           p == SubSeq(f, T + 1, e - 1)
           t == LineIn(f, st, e)
           l == Clipped(p)
<1>1. LineCap \in Nat /\ LineCap >= 1 /\ Len(f) \in Nat /\ e > st
  BY SizesAssumption, LenProperties
<1>2. b \in (st + 1)..e /\ BeginsAt(f, st, e, b)
  BY <1>1, BeginIsThere
<1>3. T + 1 \in Nat /\ e - 1 \in Nat /\ T + 1 >= 1 /\ T + 1 <= (e - 1) + 1 /\ e - 1 <= Len(f)
  BY <1>1
<1>4. p \in Seq(Bytes) /\ Len(p) = (e - 1) - (T + 1) + 1 /\ \A x \in 1..((e - 1) - (T + 1) + 1) : p[x] = f[(T + 1) + x - 1]
  BY <1>3, Cutting
<1>5. l = Clipped(p)
  BY DEF l
<1>6. t = SubSeq(f, b, e - 1)
  BY DEF LineIn
<1> HIDE DEF b, p, t, l
<1>7. EndsIn(f, st, e) = EndsIn(f, st, T) \cup {e}
  <2>1. ASSUME NEW i \in EndsIn(f, st, e)
        PROVE  i \in EndsIn(f, st, T) \cup {e}
    <3>1. i \in (st + 1)..e /\ Newline(f[i])
      BY <2>1 DEF EndsIn
    <3>2. i \in (st + 1)..T \/ i \in (T + 1)..(e - 1) \/ i = e
      BY <3>1
    <3> QED
      BY <3>1, <3>2 DEF EndsIn
  <2>2. ASSUME NEW i \in EndsIn(f, st, T) \cup {e}
        PROVE  i \in EndsIn(f, st, e)
    <3>1. e \in (st + 1)..e /\ \A x \in (st + 1)..T : x \in (st + 1)..e
      BY <1>1
    <3> QED
      BY <2>2, <3>1 DEF EndsIn
  <2> QED
    BY <2>1, <2>2
<1>8. SureIn(f, st, kw, T)
  BY <1>7 DEF SureIn
<1>9. kw = 0 \/ Len(t) <= LineCap
  BY <1>7 DEF SureIn, t
<1>10. b = T + 1 \/ (b <= T /\ T + LineCap < e)
  <2>1. CASE b <= T
    <3>1. T # st /\ T \in b..(e - 1)
      BY <1>2, <2>1
    <3>2. ~Newline(f[T])
      BY <1>2, <3>1 DEF BeginsAt
    <3> QED
      BY <2>1, <3>1, <3>2
  <2>2. CASE ~(b <= T)
    <3>1. CASE b = st + 1
      BY <1>2, <2>2, <3>1
    <3>2. CASE Newline(f[b - 1])
      <4>1. b - 1 \notin (T + 1)..(e - 1)
        BY <3>2
      <4> QED
        BY <1>2, <2>2, <4>1
    <3> QED
      BY <1>2, <3>1, <3>2 DEF BeginsAt
  <2> QED
    BY <2>1, <2>2
<1>11. /\ l \in Seq(Bytes) /\ Len(l) <= LineCap /\ Len(l) <= Len(p)
       /\ Len(l) = IF Len(p) > LineCap THEN LineCap ELSE Len(p)
       /\ \A i \in 1..Len(l) : l[i] = p[i]
  BY <1>4, <1>5, ClippedType
<1>12. Len(l) \in Nat /\ (l # <<>> => 1 \in 1..Len(l))
  <2>1. Len(l) \in Nat /\ (l # <<>> => Len(l) # 0)
    BY <1>11, LenProperties, EmptySeq
  <2> QED
    BY <2>1
<1>13. CASE b = T + 1
  <2>1. t = p
    BY <1>6, <1>13 DEF p
  <2>2. l # <<>> => l[1] = t[1]
    BY <1>11, <1>12, <2>1
  <2> QED
    BY <1>5, <1>7, <1>8, <2>1, <2>2 DEF Stands, t, p
<1>14. CASE b <= T /\ T + LineCap < e
  <2>1. b \in Nat /\ b >= 1 /\ b <= (e - 1) + 1
    BY <1>2
  <2>2. t \in Seq(Bytes) /\ Len(t) = (e - 1) - b + 1 /\ \A x \in 1..((e - 1) - b + 1) : t[x] = f[b + x - 1]
    BY <1>3, <1>6, <2>1, Cutting
  <2>3. Len(t) > LineCap /\ Len(p) >= LineCap /\ Len(p) \in Nat /\ Len(t) \in Nat
    BY <1>1, <1>2, <1>4, <1>14, <2>2
  <2>4. Len(l) = LineCap
    <3>1. CASE Len(p) > LineCap
      BY <1>11, <3>1
    <3>2. CASE ~(Len(p) > LineCap)
      <4>1. Len(p) = LineCap
        BY <1>1, <2>3, <3>2
      <4> QED
        BY <1>11, <3>2, <4>1
    <3> QED
      BY <3>1, <3>2
  <2>5. Len(Clipped(t)) = LineCap
    <3>1. Len(Clipped(t)) = IF Len(t) > LineCap THEN LineCap ELSE Len(t)
      BY <2>2, ClippedType
    <3> QED
      BY <2>3, <3>1
  <2>6. kw = 0
    BY <1>1, <1>9, <2>3
  <2>7. l[1] = f[T + 1]
    <3>1. 1 \in 1..Len(l) /\ 1 \in 1..((e - 1) - (T + 1) + 1) /\ (T + 1) + 1 - 1 = T + 1
      BY <1>1, <1>4, <2>3, <2>4
    <3> QED
      BY <1>4, <1>11, <3>1
  <2>8. t[1] = f[b]
    <3>1. 1 \in 1..((e - 1) - b + 1) /\ b + 1 - 1 = b
      BY <1>1, <2>1, <2>2, <2>3
    <3> QED
      BY <2>2, <3>1
  <2>9. f[b][1] = f[T + 1][1]
    <3>1. /\ b \in 1..Len(f) /\ T + 1 \in 1..Len(f) /\ b < T + 1
          /\ \A m \in b..((T + 1) - 1) : m \in b..(e - 1)
      BY <1>1, <1>2, <1>14
    <3>2. \A m \in b..((T + 1) - 1) : ~Newline(f[m])
      BY <1>2, <3>1 DEF BeginsAt
    <3> QED
      BY <3>1, <3>2 DEF Genuine
  <2> QED
    BY <1>5, <1>7, <1>8, <2>4, <2>5, <2>6, <2>7, <2>8, <2>9 DEF Stands, Contains, t, p
<1> QED
  BY <1>10, <1>13, <1>14

LEMMA OneMoreLine ==
    ASSUME NEW f, NEW st \in Nat, NEW T \in Nat, NEW e \in Nat, NEW kw, NEW l \in Seq(Bytes),
           NEW d \in Seq(Seq(Bytes)), NEW dd,
           T < e, EndsIn(f, st, e) = EndsIn(f, st, T) \cup {e},
           Contains(l, kw) <=> Contains(Clipped(LineIn(f, st, e)), kw),
           Stands(l, LineIn(f, st, e)),
           DeliversIn(f, st, kw, d, T),
           Contains(l, kw) => dd = Append(d, l), ~Contains(l, kw) => dd = d
    PROVE  DeliversIn(f, st, kw, dd, e)
<1> DEFINE X == ExpectedIn(f, st, kw, T)
           Y == ExpectedIn(f, st, kw, e)
           P(S, i) == Cardinality({j \in S : j <= i})
<1>1. /\ Len(d) = Cardinality(X)
      /\ \A i \in X : Stands(d[P(X, i)], LineIn(f, st, i))
  BY DEF DeliversIn
<1>2. X \subseteq (st + 1)..T /\ IsFiniteSet(X) /\ Cardinality(X) \in Nat
  <2>1. X \subseteq (st + 1)..T
    BY DEF ExpectedIn, EndsIn
  <2>2. IsFiniteSet((st + 1)..T)
    BY FS_Interval
  <2>3. IsFiniteSet(X)
    BY <2>1, <2>2, FS_Subset
  <2> QED
    BY <2>1, <2>3, FS_CardinalityType
<1>3. e \notin X /\ \A i \in X : i \in Nat /\ i < e
  BY <1>2
<1>4. CASE ~Contains(l, kw)
  <2>1. Y = X
    BY <1>4 DEF ExpectedIn
  <2> QED
    BY <1>4, <2>1 DEF DeliversIn
<1>5. CASE Contains(l, kw)
  <2>1. Y = X \cup {e}
    BY <1>5 DEF ExpectedIn
  <2>2. /\ dd \in Seq(Seq(Bytes)) /\ Len(dd) = Len(d) + 1 /\ dd[Len(d) + 1] = l
        /\ \A i \in 1..Len(d) : dd[i] = d[i]
    <3>1. dd = Append(d, l)
      BY <1>5
    <3> HIDE DEF X, Y
    <3>2. /\ Append(d, l) \in Seq(Seq(Bytes)) /\ Len(Append(d, l)) = Len(d) + 1
          /\ Append(d, l)[Len(d) + 1] = l
          /\ \A i \in 1..Len(d) : Append(d, l)[i] = d[i]
      BY Extending
    <3> QED
      BY <3>1, <3>2
  <2> HIDE DEF X, Y
  <2>3. Cardinality(Y) = Cardinality(X) + 1
    BY <1>2, <1>3, <2>1, FS_AddElement
  <2>4. ASSUME NEW i \in Y
        PROVE  Stands(dd[P(Y, i)], LineIn(f, st, i))
    <3>1. CASE i = e
      <4>0. \A j \in Y : j <= i
        BY <1>3, <2>1, <3>1
      <4>1. {j \in Y : j <= i} = Y
        BY <4>0
      <4>2. P(Y, i) = Len(d) + 1
        BY <1>1, <2>3, <4>1
      <4> QED
        BY <2>2, <3>1, <4>2
    <3>2. CASE i \in X
      <4>1. {j \in Y : j <= i} = {j \in X : j <= i}
        BY <1>3, <2>1, <3>2
      <4>2. P(X, i) \in 1..Len(d)
        <5> DEFINE Z == {j \in X : j <= i}
        <5>1. Z \subseteq X /\ i \in Z
          BY <1>3, <3>2
        <5> HIDE DEF Z
        <5>2. IsFiniteSet(Z) /\ Cardinality(Z) <= Cardinality(X)
          BY <1>2, <5>1, FS_Subset
        <5>3. Cardinality(Z) \in Nat /\ Cardinality(Z) # 0
          BY <5>1, <5>2, FS_CardinalityType, FS_EmptySet
        <5>4. Cardinality(Z) \in 1..Len(d)
          BY <1>1, <1>2, <5>2, <5>3
        <5> QED
          BY <5>4 DEF Z
      <4>3. P(Y, i) = P(X, i)
        BY <4>1
      <4> QED
        BY <1>1, <2>2, <3>2, <4>2, <4>3
    <3> QED
      BY <2>1, <3>1, <3>2
  <2> QED
    BY <1>1, <2>2, <2>3, <2>4 DEF DeliversIn, Y
<1> QED
  BY <1>4, <1>5

LEMMA UntouchedKeptBySendLine ==
    ASSUME TypeOK, WriterInv, UntouchedInv, SendLine
    PROVE  UntouchedInv'
<1>1. /\ file \in Seq(Bytes) /\ Len(file) \in Nat /\ offset \in Nat /\ start \in Nat
      /\ inode \in Nat /\ Len(partial) \in Nat /\ partial \in Seq(Bytes)
      /\ LineCap \in Nat /\ delivered \in Seq(Seq(Bytes))
  BY Types DEF TypeOK
<1>2. PICK end : end = FirstNewline(partial)
  OBVIOUS
<1> DEFINE piece == SubSeq(partial, 1, end - 1)
           rest  == SubSeq(partial, end + 1, Len(partial))
           l     == Clipped(piece)
<1>3. /\ end \in 1..Len(partial) /\ Newline(partial[end])
      /\ \A j \in 1..(end - 1) : ~Newline(partial[j])
      /\ piece \in Seq(Bytes) /\ Len(rest) = Len(partial) - end
  BY <1>2, CutOff DEF SendLine
<1>4. /\ UNCHANGED writerVars /\ ino' = ino /\ offset' = offset /\ start' = start /\ keyword' = keyword
      /\ partial' = rest /\ pc' \in {"lines", "returned"}
      /\ pc' = "lines" => delivered' = IF Matches(l) THEN Append(delivered, l) ELSE delivered
  BY <1>2 DEF SendLine, Return
<1>5. UNCHANGED <<file, inode, exists, rotations, truncations>>
  BY <1>4 DEF writerVars
<1> HIDE DEF l
<1>6. l = Clipped(piece) /\ l \in Seq(Bytes)
  BY <1>3, ClippedType DEF l
<1>7. ASSUME Untouched', Live'
      PROVE  AppendInv'
  <2>1. AppendInv
    BY <1>5, <1>7 DEF Untouched, UntouchedInv, Live, SendLine
  <2>2. /\ Taken \in Nat /\ Len(partial) = offset - Taken /\ offset <= Len(file) /\ start <= Taken
        /\ partial = SubSeq(file, Taken + 1, offset)
        /\ \A i \in 1..Len(partial) : Taken + i \in 1..offset /\ partial[i] = file[Taken + i]
    BY <2>1, AppendFacts
  <2>3. PICK T \in Nat : T = Taken
    BY <2>2
  <2>4. PICK e \in Nat : e = T + end
    BY <1>1, <1>3
  <2>5. partial' = SubSeq(file, e + 1, offset) /\ e <= offset /\ offset - (Len(partial) - end) = e
    <3>1. end \in 0..Len(partial)
      BY <1>3
    <3> QED
      BY <1>4, <2>2, <2>3, <2>4, <3>1, RestOfPiece
  <2>6. Taken' = e
    BY <1>3, <1>4, <2>5 DEF Taken
  <2>7. Newline(file[e])
    BY <1>3, <2>2, <2>3, <2>4
  <2>8. \A j \in (T + 1)..(e - 1) : ~Newline(file[j])
    <3> SUFFICES ASSUME NEW j \in (T + 1)..(e - 1)
                 PROVE  ~Newline(file[j])
      OBVIOUS
    <3>1. j - T \in 1..(end - 1) /\ j - T \in 1..Len(partial) /\ T + (j - T) = j
      BY <1>1, <1>3, <2>4
    <3> QED
      BY <1>3, <2>2, <2>3, <3>1
  <2>9. T = start \/ Newline(file[T]) \/ T + LineCap < e
    <3>1. ASSUME \A j \in (T + 1)..(T + LineCap) : ~Newline(file[j])
          PROVE  T + LineCap < e
      <4>1. e \notin (T + 1)..(T + LineCap)
        BY <2>7, <3>1
      <4> QED
        BY <1>1, <1>3, <2>4, <4>1
    <3> QED
      BY <2>1, <2>3, <3>1 DEF AppendInv
  <2>10. piece = SubSeq(file, T + 1, e - 1)
    <3>1. /\ T + 1 \in Nat /\ end - 1 \in Nat /\ T + 1 >= 1 /\ T + 1 <= offset + 1 /\ 1 <= (end - 1) + 1
          /\ end - 1 <= offset - (T + 1) + 1 /\ (T + 1) + 1 - 1 = T + 1 /\ (T + 1) + (end - 1) - 1 = e - 1
      BY <1>1, <1>3, <2>2, <2>3, <2>4
    <3>2. SubSeq(SubSeq(file, T + 1, offset), 1, end - 1) = SubSeq(file, (T + 1) + 1 - 1, (T + 1) + (end - 1) - 1)
      BY <1>1, <2>2, <3>1, CuttingAgain
    <3> QED
      BY <2>2, <2>3, <3>1, <3>2
  <2>11. start <= T /\ T < e /\ e <= Len(file) /\ Genuine(file)
    BY <1>1, <1>3, <2>2, <2>3, <2>4, <2>5 DEF WriterInv
  <2>12. l = Clipped(SubSeq(file, T + 1, e - 1))
    BY <1>6, <2>10
  <2>13. ASSUME SureIn(file, start, keyword, e)
         PROVE  DeliversIn(file, start, keyword, delivered', e)
    <3> HIDE DEF piece, rest
    <3>1. /\ EndsIn(file, start, e) = EndsIn(file, start, T) \cup {e}
          /\ SureIn(file, start, keyword, T)
          /\ Contains(l, keyword) <=> Contains(Clipped(LineIn(file, start, e)), keyword)
          /\ Stands(l, LineIn(file, start, e))
      <4>1. /\ EndsIn(file, start, e) = EndsIn(file, start, T) \cup {e}
            /\ SureIn(file, start, keyword, T)
            /\ Contains(Clipped(SubSeq(file, T + 1, e - 1)), keyword)
                  <=> Contains(Clipped(LineIn(file, start, e)), keyword)
            /\ Stands(Clipped(SubSeq(file, T + 1, e - 1)), LineIn(file, start, e))
        BY <1>1, <2>7, <2>8, <2>9, <2>11, <2>13, NextLineRead
      <4> QED
        BY <2>12, <4>1
    <3>2. DeliversIn(file, start, keyword, delivered, T)
      BY <2>1, <2>3, <3>1 DEF AppendInv
    <3>3. /\ Contains(l, keyword) => delivered' = Append(delivered, l)
          /\ ~Contains(l, keyword) => delivered' = delivered
      BY <1>4, <1>7 DEF Live, Matches, Contains
    <3> QED
      BY <1>1, <1>6, <2>11, <3>1, <3>2, <3>3, OneMoreLine
  <2>14. pc' = "lines" /\ start <= e
    BY <1>1, <1>4, <1>7, <2>11 DEF Live
  <2> QED
    BY <1>4, <1>5, <2>1, <2>2, <2>5, <2>6, <2>7, <2>13, <2>14 DEF AppendInv
<1> QED
  BY <1>4, <1>7 DEF UntouchedInv

-----------------------------------------------------------------------------
LEMMA InitInv ==
    Init => IInv
<1> SUFFICES ASSUME Init
             PROVE  IInv
  OBVIOUS
<1>1. TypeOK /\ WriterInv
  BY InitType, InitWriter
<1>2. pc = "initial" /\ delivered = <<>> /\ partial = <<>> /\ Len(<<>>) = 0
  BY EmptySeq DEF Init
<1>3. UntouchedInv
  BY <1>2 DEF UntouchedInv, Live
<1>4. OrderInv
  BY <1>2 DEF OrderInv, DeliveredInv, GenuineInOrder, NoSplicedLine, Live
<1> QED
  BY <1>1, <1>3, <1>4 DEF IInv

LEMMA StepInv ==
    ASSUME IInv, [Next]_vars
    PROVE  IInv'
<1>1. TypeOK /\ WriterInv /\ UntouchedInv /\ (~UnnoticedSwaps => OrderInv)
  BY DEF IInv
<1>2. CASE Next
  <2>1. TypeOK' /\ WriterInv'
    BY <1>1, <1>2, TypeKept, WriterInvKept
  <2>2. CASE Writer
    BY <1>1, <2>1, <2>2, UntouchedKeptByWriter, OrderKeptByWriter DEF IInv
  <2>3. CASE Refuse \/ FirstStat \/ SeesCancel \/ Poll \/ Read
    BY <1>1, <2>1, <2>3, UntouchedKeptByReading, OrderKeptByReading DEF IInv
  <2>4. CASE SendLine
    BY <1>1, <2>1, <2>4, UntouchedKeptBySendLine, OrderKeptBySendLine DEF IInv
  <2>5. CASE EndOfLines
    BY <1>1, <2>1, <2>5, UntouchedKeptByEndOfLines, OrderKeptByEndOfLines DEF IInv
  <2>6. CASE Cancel
    <3>1. UNCHANGED <<file, inode, exists, readable, line, index, rotations, truncations,
                      keyword, pc, status, offset, ino, partial, start, delivered>>
      BY <2>6 DEF Cancel, writerVars, callVars
    <3>2. UntouchedInv'
      BY <1>1, <3>1 DEF UntouchedInv, Untouched, Live, AppendInv, Taken
    <3>3. OrderInv => OrderInv'
      BY <3>1 DEF OrderInv, DeliveredInv, GenuineInOrder, NoSplicedLine, Live, CallInv, Same, SameInv,
                  ReplacedInv, Taken, Before, Written
    <3> QED
      BY <1>1, <2>1, <3>2, <3>3 DEF IInv
  <2> QED
    BY <1>2, <2>2, <2>3, <2>4, <2>5, <2>6 DEF Next, Call
<1>3. CASE UNCHANGED vars
  <2>1. TypeOK'
    BY <1>1, <1>3 DEF TypeOK, vars
  <2>2. WriterInv'
    BY <1>1, <1>3 DEF WriterInv, Written, vars
  <2>3. UntouchedInv'
    BY <1>1, <1>3 DEF UntouchedInv, Untouched, Live, AppendInv, Taken, vars
  <2>4. OrderInv => OrderInv'
    BY <1>3 DEF OrderInv, DeliveredInv, GenuineInOrder, NoSplicedLine, Live, CallInv, Same, SameInv,
                ReplacedInv, Taken, Before, Written, vars
  <2> QED
    BY <1>1, <2>1, <2>2, <2>3, <2>4 DEF IInv
<1> QED
  BY <1>2, <1>3

(* The inductive invariant of the call and the file it follows.              *)
THEOREM Invariance ==
    Spec => []IInv
  BY InitInv, StepInv, PTL DEF Spec

(* Every variable of StreamLog has its type; between two rounds partial_line  *)
(* holds at most LineCap bytes (the erase of line 405).                     *)
THEOREM TypeCorrectness ==
    Spec => []TypeOK
<1>1. IInv => TypeOK
  BY DEF IInv
<1> QED
  BY <1>1, Invariance, PTL

(* Unless the file is replaced between stat and open, or a truncated file has *)
(* outgrown the offset by the next stat, every line StreamLog writes is one   *)
(* piece of one line of the log, and they come in the order they were written *)
(* and none twice, across chunks, over-long lines, rotations and truncations. *)
THEOREM LinesAreGenuine ==
    ASSUME ~UnnoticedSwaps
    PROVE  Spec => []GenuineInOrder
<1>1. IInv => GenuineInOrder
  BY DEF IInv, OrderInv, DeliveredInv
<1> QED
  BY <1>1, Invariance, PTL

(* As long as the file is only appended to, StreamLog has delivered exactly    *)
(* the lines of what it has read, whatever pieces the reads cut it into and   *)
(* however long the lines are, and the n-th it delivered stands for the n-th. *)
THEOREM NoLineIsMissed ==
    Spec => []NothingMissed
<1>1. IInv => NothingMissed
  <2> SUFFICES ASSUME IInv, AppendedOnly, FilterIsSure
               PROVE  /\ Len(delivered) = Cardinality(Expected)
                      /\ \A i \in Expected :
                            LET l == delivered[Cardinality({j \in Expected : j <= i})]
                            IN /\ Len(l) = Len(Clipped(LineTo(i)))
                               /\ l # <<>> => l[1][1] = LineTo(i)[1][1]
    BY DEF NothingMissed
  <2>1. TypeOK /\ AppendInv /\ ~HasLine(partial)
    BY DEF IInv, UntouchedInv, AppendedOnly, Untouched, Live, AppendInv
  <2>2. /\ Taken \in Nat /\ Len(partial) = offset - Taken
        /\ \A i \in 1..Len(partial) : partial[i] = file[Taken + i]
    BY <2>1, AppendFacts
  <2>3. PICK T \in Nat : T = Taken
    BY <2>2
  <2>4. offset \in Nat /\ start \in Nat /\ Len(partial) \in Nat
    BY <2>1, Types DEF TypeOK
  <2>5. T <= offset
    BY <2>2, <2>3, <2>4
  <2>6. \A j \in (T + 1)..offset : ~Newline(file[j])
    <3> SUFFICES ASSUME NEW j \in (T + 1)..offset
                 PROVE  ~Newline(file[j])
      OBVIOUS
    <3>1. j - T \in 1..Len(partial) /\ T + (j - T) = j
      BY <2>2, <2>3, <2>4
    <3> QED
      BY <2>1, <2>2, <2>3, <3>1 DEF HasLine
  <2>7. Ends = EndsIn(file, start, offset)
    BY DEF Ends, EndsIn
  <2>8. \A i : LineTo(i) = LineIn(file, start, i)
    BY DEF LineTo, LineIn, Begin, BeginIn
  <2>9. SureIn(file, start, keyword, offset)
    BY <2>7, <2>8 DEF FilterIsSure, SureIn
  <2>10. DeliversIn(file, start, keyword, delivered, offset)
    <3>1. /\ SureIn(file, start, keyword, offset) <=> SureIn(file, start, keyword, T)
          /\ DeliversIn(file, start, keyword, delivered, offset) <=> DeliversIn(file, start, keyword, delivered, T)
      BY <2>4, <2>5, <2>6, NoEndBetween
    <3> QED
      BY <2>1, <2>3, <2>9, <3>1 DEF AppendInv
  <2>11. Expected = ExpectedIn(file, start, keyword, offset)
    BY <2>7, <2>8 DEF Expected, ExpectedIn, Matches, Contains
  <2> QED
    BY <2>8, <2>10, <2>11 DEF DeliversIn, Stands
<1> QED
  BY <1>1, Invariance, PTL

=============================================================================
