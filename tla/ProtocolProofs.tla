--------------------------- MODULE ProtocolProofs ---------------------------
(***************************************************************************)
(* What protocol.c writes stays in the buffer and is read back as it was   *)
(* written: messages with up to two data, and the list of any length that  *)
(* FormatDataN packs and ParseDataN unpacks.                               *)
(***************************************************************************)
EXTENDS Protocol, SequenceTheorems, WellFoundedInduction, TLAPS

(* An integer that both sides take for network order is read as written.   *)
LEMMA ReadNet == \A i : Read(Net(i), "net") = i
  BY DEF Read, Net

LEMMA ReadHost == \A i : Read(Host(i), "host") = i
  BY DEF Read, Host

(* Where the parts of a concatenation lie. *)
Joined(m, s, t) ==
  /\ Len(s) \in Nat /\ Len(t) \in Nat /\ Len(m) = Len(s) + Len(t)
  /\ \A i \in 1 .. Len(s) : m[i] = s[i]
  /\ \A i \in 1 .. Len(t) : m[Len(s) + i] = t[i]

LEMMA Concat ==
  ASSUME NEW C, NEW s \in Seq(C), NEW t \in Seq(C)
  PROVE  s \o t \in Seq(C) /\ Joined(s \o t, s, t)
  BY ConcatProperties, LenProperties DEF Joined

(* A part of a sequence that begins after its first k elements. *)
PartOf(m, k, n) == SubSeq(m, k + 1, k + n)

LEMMA Part ==
  ASSUME NEW C, NEW m \in Seq(C), NEW t \in Seq(C), NEW k \in Nat,
         k + Len(t) <= Len(m), \A i \in 1 .. Len(t) : m[k + i] = t[i]
  PROVE  PartOf(m, k, Len(t)) = t
<1> DEFINE mid == SubSeq(m, k + 1, k + Len(t))
<1>1. Len(t) \in Nat /\ Len(m) \in Nat
  BY LenProperties
<1>2. \A i \in k + 1 .. k + Len(t) : m[i] \in C
  BY <1>1, ElementOfSeq
<1>3. /\ mid \in Seq(C)
      /\ Len(mid) = IF k + 1 <= k + Len(t) THEN k + Len(t) - (k + 1) + 1 ELSE 0
      /\ \A i \in 1 .. k + Len(t) - (k + 1) + 1 : mid[i] = m[k + 1 + i - 1]
  BY <1>1, <1>2, SubSeqProperties
<1> HIDE DEF mid
<1>4. Len(mid) = Len(t)
  BY <1>1, <1>3
<1>5. \A i \in 1 .. Len(t) : mid[i] = t[i]
  <2> SUFFICES ASSUME NEW i \in 1 .. Len(t) PROVE mid[i] = t[i]
    OBVIOUS
  <2>1. i \in 1 .. k + Len(t) - (k + 1) + 1 /\ k + 1 + i - 1 = k + i
    BY <1>1
  <2> QED
    BY <1>3, <2>1
<1>6. mid = t
  BY <1>3, <1>4, <1>5, SeqEqual
<1> QED
  BY <1>6 DEF mid, PartOf

(* Two data in a row behind a header: where they lie, and what stands      *)
(* between.                                                                *)
Row(s, t, e, u) == s \o t \o <<e>> \o u

LaidOut(m, s, t, e, u) ==
  /\ Len(m) = Len(s) + Len(t) + 1 + Len(u)
  /\ \A i \in 1 .. Len(s) : m[i] = s[i]
  /\ PartOf(m, Len(s), Len(t)) = t
  /\ m[Len(s) + Len(t) + 1] = e
  /\ PartOf(m, Len(s) + Len(t) + 1, Len(u)) = u

LEMMA RowLayout ==
  ASSUME NEW C, NEW s \in Seq(C), NEW t \in Seq(C), NEW e \in C, NEW u \in Seq(C)
  PROVE  LaidOut(Row(s, t, e, u), s, t, e, u)
<1> DEFINE n   == <<e>>
           st  == s \o t
           ste == st \o n
           m   == Row(s, t, e, u)
<1>1. n \in Seq(C) /\ Len(n) = 1 /\ n[1] = e
  OBVIOUS
<1>2. m = ste \o u
  BY DEF Row
<1> HIDE DEF n, m
<1>3. st \in Seq(C) /\ Joined(st, s, t)
  BY Concat, Zenon
<1> HIDE DEF st
<1>4. ste \in Seq(C) /\ Joined(ste, st, n)
  BY <1>1, <1>3, Concat, Zenon
<1> HIDE DEF ste
<1>5. m \in Seq(C) /\ Joined(m, ste, u)
  BY <1>2, <1>4, Concat, Zenon
<1>6. /\ Len(s) \in Nat /\ Len(t) \in Nat /\ Len(u) \in Nat
      /\ Len(st) = Len(s) + Len(t) /\ Len(ste) = Len(st) + 1
      /\ Len(m) = Len(ste) + Len(u)
  BY <1>1, <1>3, <1>4, <1>5 DEF Joined
<1>7. \A i \in 1 .. Len(st) : m[i] = st[i]
  BY <1>4, <1>5, <1>6 DEF Joined
<1>8. \A i \in 1 .. Len(s) : m[i] = s[i]
  BY <1>3, <1>6, <1>7 DEF Joined
<1>9. PartOf(m, Len(s), Len(t)) = t
  <2>1. ASSUME NEW i \in 1 .. Len(t) PROVE m[Len(s) + i] = t[i]
    BY <1>3, <1>6, <1>7 DEF Joined
  <2>2. Len(s) + Len(t) <= Len(m)
    BY <1>6
  <2> QED
    BY <1>5, <1>6, <2>1, <2>2, Part, Zenon
<1>10. m[Len(st) + 1] = e
  BY <1>1, <1>4, <1>5, <1>6 DEF Joined
<1>11. PartOf(m, Len(ste), Len(u)) = u
  <2>1. \A i \in 1 .. Len(u) : m[Len(ste) + i] = u[i]
    BY <1>5 DEF Joined
  <2>2. Len(ste) \in Nat /\ Len(ste) + Len(u) <= Len(m)
    BY <1>6
  <2> QED
    BY <1>5, <2>1, <2>2, Part, Zenon
<1>12. LaidOut(m, s, t, e, u)
  BY <1>6, <1>8, <1>9, <1>10, <1>11 DEF LaidOut
<1> QED
  BY <1>12 DEF m

(* The header is a sequence of three integers. *)
LEMMA HeaderFacts ==
  ASSUME NEW C, NEW cmd, NEW num, NEW len, {Net(cmd), Net(num), Net(len)} \subseteq C
  PROVE  /\ Header(cmd, num, len) \in Seq(C)
         /\ Len(Header(cmd, num, len)) = HeaderSize
         /\ Header(cmd, num, len)[1] = Net(cmd)
         /\ Header(cmd, num, len)[2] = Net(num)
         /\ Header(cmd, num, len)[3] = Net(len)
  BY DEF Header, HeaderSize

(* No Format function writes behind the end of the caller's buffer, and    *)
(* FormatData2 refuses a message exactly if it does not fit.               *)
THEOREM FormatsInBounds ==
  ASSUME NEW size \in Nat, NEW cmd, NEW Cell,
         NEW data1 \in Seq(Cell), NEW data2 \in Seq(Cell)
  PROVE  /\ Len(FormatData(size, cmd)) <= size
         /\ Len(FormatData1(size, cmd, data1)) <= size
         /\ Len(FormatData2(size, cmd, data1, data2)) <= size
         /\ FormatData2(size, cmd, data1, data2) = Refused
              <=> size < HeaderSize + Len(data1) + 1 + Len(data2)
<1> DEFINE C  == Cell \cup {Net(i) : i \in Nat \cup {cmd}}
           h0 == Header(cmd, 0, 0)
           h1 == Header(cmd, 1, Len(data1))
           h2 == Header(cmd, 2, Len(data1))
           e  == Net(Len(data2))
           m  == Row(h2, data1, e, data2)
<1>1. /\ data1 \in Seq(C) /\ data2 \in Seq(C) /\ e \in C
      /\ Len(data1) \in Nat /\ Len(data2) \in Nat
  BY SeqMonotonic, LenProperties
<1>2. /\ h0 \in Seq(C) /\ Len(h0) = 3
      /\ h1 \in Seq(C) /\ Len(h1) = 3
      /\ h2 \in Seq(C) /\ Len(h2) = 3
  BY <1>1, HeaderFacts DEF HeaderSize
<1>3. Len(Refused) = 0
  BY DEF Refused
<1>4. /\ FormatData(size, cmd) = IF size < 3 THEN Refused ELSE h0
      /\ FormatData1(size, cmd, data1) =
           IF size < 3 + Len(data1) THEN Refused ELSE h1 \o data1
      /\ FormatData2(size, cmd, data1, data2) =
           IF size < 3 + Len(data1) + 1 + Len(data2) THEN Refused ELSE m
  BY DEF FormatData, FormatData1, FormatData2, HeaderSize, Row
<1> HIDE DEF C, h0, h1, h2, e, m
<1>5. Len(h1 \o data1) = 3 + Len(data1)
  <2>1. h1 \in Seq(C) /\ data1 \in Seq(C)
    BY <1>1, <1>2
  <2>2. Joined(h1 \o data1, h1, data1)
    BY <2>1, Concat, Zenon
  <2> QED
    BY <1>2, <2>2, Zenon DEF Joined
<1>6. Len(m) = 3 + Len(data1) + 1 + Len(data2)
  <2>1. h2 \in Seq(C) /\ data1 \in Seq(C) /\ e \in C /\ data2 \in Seq(C)
    BY <1>1, <1>2
  <2>2. LaidOut(m, h2, data1, e, data2)
    BY <2>1, RowLayout, Zenon DEF m
  <2> QED
    BY <1>2, <2>2, Zenon DEF LaidOut
<1>7. ASSUME NEW f, NEW k \in Nat, NEW g, Len(g) = k,
             f = IF size < k THEN Refused ELSE g
      PROVE  Len(f) <= size /\ (k > 0 => (f = Refused <=> size < k))
  <2>1. CASE size < k
    BY <1>3, <1>7, <2>1
  <2>2. CASE ~(size < k)
    BY <1>3, <1>7, <2>2
  <2> QED
    BY <2>1, <2>2
<1>8. /\ 3 \in Nat /\ 3 + Len(data1) \in Nat /\ 3 + Len(data1) + 1 + Len(data2) \in Nat
      /\ 3 + Len(data1) + 1 + Len(data2) > 0
  BY <1>1
<1> QED
  BY <1>2, <1>4, <1>5, <1>6, <1>7, <1>8, Zenon DEF HeaderSize

(* ParseData delivers both data to a caller whose buffers are large enough. *)
ReadBack2(buf, cmd, data1, data2) ==
  \A max1, max2 \in Nat :
    Len(data1) <= max1 /\ Len(data2) <= max2 =>
      ParseData(buf, max1, max2) = Parsed(0, cmd, 2, <<data1, data2>>)

(* What FormatData2 writes and does not refuse, ParseData reads back: the  *)
(* same command and the same two data.                                     *)
THEOREM RoundTrip2 ==
  ASSUME NEW size \in Nat, NEW cmd, NEW Cell,
         NEW data1 \in Seq(Cell), NEW data2 \in Seq(Cell),
         FormatData2(size, cmd, data1, data2) # Refused
  PROVE  ReadBack2(FormatData2(size, cmd, data1, data2), cmd, data1, data2)
<1> SUFFICES ASSUME NEW max1 \in Nat, NEW max2 \in Nat,
                    Len(data1) <= max1, Len(data2) <= max2
             PROVE  ParseData(FormatData2(size, cmd, data1, data2), max1, max2)
                      = Parsed(0, cmd, 2, <<data1, data2>>)
  BY Zenon DEF ReadBack2
<1> DEFINE C   == Cell \cup {Net(i) : i \in Nat \cup {cmd}}
           h   == Header(cmd, 2, Len(data1))
           e   == Net(Len(data2))
           buf == Row(h, data1, e, data2)
<1>1. /\ data1 \in Seq(C) /\ data2 \in Seq(C) /\ e \in C
      /\ Len(data1) \in Nat /\ Len(data2) \in Nat
  BY SeqMonotonic, LenProperties
<1>2. /\ h \in Seq(C) /\ Len(h) = 3
      /\ h[1] = Net(cmd) /\ h[2] = Net(2) /\ h[3] = Net(Len(data1))
  BY <1>1, HeaderFacts DEF HeaderSize
<1>3. FormatData2(size, cmd, data1, data2) = buf
  BY <1>1 DEF FormatData2, Row, HeaderSize
<1>4. e = Net(Len(data2)) /\ buf = Row(h, data1, e, data2)
  OBVIOUS
<1> HIDE DEF C, h, e, buf
<1>5. /\ Len(buf) = Len(h) + Len(data1) + 1 + Len(data2)
      /\ \A i \in 1 .. Len(h) : buf[i] = h[i]
      /\ PartOf(buf, Len(h), Len(data1)) = data1
      /\ buf[Len(h) + Len(data1) + 1] = e
      /\ PartOf(buf, Len(h) + Len(data1) + 1, Len(data2)) = data2
  <2>1. h \in Seq(C) /\ data1 \in Seq(C) /\ e \in C /\ data2 \in Seq(C)
    BY <1>1, <1>2
  <2>2. LaidOut(buf, h, data1, e, data2)
    BY <1>4, <2>1, RowLayout, Zenon
  <2> QED
    BY <2>2, Zenon DEF LaidOut
<1>6. /\ Read(buf[1], "net") = cmd /\ Read(buf[2], "net") = 2
      /\ Read(buf[3], "net") = Len(data1)
      /\ Read(buf[3 + Len(data1) + 1], "net") = Len(data2)
  BY <1>2, <1>4, <1>5, ReadNet
<1>7. ParseData(buf, max1, max2) = Parsed(0, cmd, 2, SubSeq(<<data1, data2>>, 1, 2))
  <2>1. /\ SubSeq(buf, 3 + 1, 3 + Len(data1)) = data1
        /\ SubSeq(buf, 3 + Len(data1) + 1 + 1, 3 + Len(data1) + 1 + Len(data2)) = data2
    BY <1>2, <1>5, Zenon DEF PartOf
  <2>2. /\ ~(Len(buf) < 3)
        /\ 3 + Len(data1) <= Len(buf)
        /\ 3 + Len(data1) + 1 + Len(data2) <= Len(buf)
    BY <1>1, <1>2, <1>5
  <2>3. (2 > 0) /\ (2 > 1) /\ ~(2 > 2)
    OBVIOUS
  <2> QED
    BY <1>6, <2>1, <2>2, <2>3, Zenon DEF ParseData, HeaderSize
<1>8. SubSeq(<<data1, data2>>, 1, 2) = <<data1, data2>>
  <2> DEFINE D == {data1, data2}
             s == <<data1, data2>>
  <2>1. s \in Seq(D) /\ Len(s) = 2
    OBVIOUS
  <2>2. /\ SubSeq(s, 1, 2) \in Seq(D) /\ Len(SubSeq(s, 1, 2)) = 2
        /\ \A i \in 1 .. 2 : SubSeq(s, 1, 2)[i] = s[1 + i - 1]
    BY <2>1, SubSeqProperties, ElementOfSeq
  <2>3. \A i \in 1 .. 2 : SubSeq(s, 1, 2)[i] = s[i]
    BY <2>2
  <2> HIDE DEF s, D
  <2>4. SubSeq(s, 1, 2) = s
    BY <2>1, <2>2, <2>3, SeqEqual
  <2> QED
    BY <2>4 DEF s
<1> QED
  BY <1>3, <1>7, <1>8

(***************************************************************************)
(* FormatDataN and ParseDataN.  Both recur over the data, so what they     *)
(* compute is shown with least counterexamples.                            *)
(***************************************************************************)

LEMMA LeastNumber ==
  ASSUME NEW S \in SUBSET Nat, S # {}
  PROVE  \E m \in S : \A k \in S : m <= k
<1> DEFINE R == OpToRel(<, Nat)
<1>1. IsWellFoundedOn(R, Nat)
  BY NatLessThanWellFounded, Zenon
<1>2. \A a, b \in Nat : a < b => <<a, b>> \in R
  BY DEF OpToRel
<1> HIDE DEF R
<1>3. PICK x \in S : \A y \in S : ~(<<y, x>> \in R)
  BY <1>1, WFMin
<1>4. ASSUME NEW y \in S PROVE x <= y
  <2>1. x \in Nat /\ y \in Nat /\ ~(y < x)
    BY <1>2, <1>3
  <2> QED
    BY <2>1
<1> QED
  BY <1>4

(* What a first number that lacks a property is like: not 0 if 0 has it,   *)
(* and its predecessor has it.                                             *)
LEMMA FirstWithout ==
  ASSUME NEW n \in Nat, NEW B \in SUBSET (0 .. n), 0 \notin B, B # {}
  PROVE  \E m \in B : m \in 1 .. n /\ m - 1 \in 0 .. n /\ m - 1 \notin B
<1>1. PICK m \in B : \A k \in B : m <= k
  BY LeastNumber
<1>2. m \in 1 .. n /\ m - 1 \in 0 .. n /\ ~(m <= m - 1)
  OBVIOUS
<1> QED
  BY <1>1, <1>2

(* One more data behind its length. *)
Appended(s, d) == s \o <<Host(Len(d))>> \o d

LEMMA AppendedFacts ==
  ASSUME NEW C, \A i \in Nat : Host(i) \in C, NEW s \in Seq(C), NEW d \in Seq(C)
  PROVE  /\ Appended(s, d) \in Seq(C)
         /\ Len(s) \in Nat /\ Len(d) \in Nat
         /\ Len(Appended(s, d)) = Len(s) + 1 + Len(d)
         /\ \A k \in 1 .. Len(s) : Appended(s, d)[k] = s[k]
         /\ Appended(s, d)[Len(s) + 1] = Host(Len(d))
         /\ \A k \in 1 .. Len(d) : Appended(s, d)[Len(s) + 1 + k] = d[k]
<1> DEFINE e  == <<Host(Len(d))>>
           se == s \o e
           m  == se \o d
<1>1. Len(d) \in Nat /\ Host(Len(d)) \in C
  BY LenProperties
<1>2. e \in Seq(C) /\ Len(e) = 1 /\ e[1] = Host(Len(d))
  BY <1>1
<1>3. Appended(s, d) = m
  BY DEF Appended
<1> HIDE DEF e
<1>4. se \in Seq(C) /\ Joined(se, s, e)
  BY <1>2, Concat, Zenon
<1> HIDE DEF se
<1>5. m \in Seq(C) /\ Joined(m, se, d)
  BY <1>4, Concat, Zenon
<1> HIDE DEF m
<1>6. Len(s) \in Nat /\ Len(se) = Len(s) + 1 /\ Len(m) = Len(s) + 1 + Len(d)
  BY <1>1, <1>2, <1>4, <1>5 DEF Joined
<1>7. \A k \in 1 .. Len(s) : m[k] = s[k]
  BY <1>4, <1>5, <1>6 DEF Joined
<1>8. m[Len(s) + 1] = Host(Len(d))
  BY <1>2, <1>4, <1>5, <1>6 DEF Joined
<1>9. \A k \in 1 .. Len(d) : m[Len(s) + 1 + k] = d[k]
  BY <1>5, <1>6 DEF Joined
<1> QED
  BY <1>1, <1>3, <1>5, <1>6, <1>7, <1>8, <1>9, Zenon

(* f[i] is what Packed has written after the first i data. *)
Filled(f, data, n, C) ==
  /\ f \in [0 .. n -> Seq(C)]
  /\ f[0] = <<>>
  /\ \A i \in 1 .. n : f[i] = Appended(f[i - 1], data[i])

LEMMA FilledExists ==
  ASSUME NEW C, \A i \in Nat : Host(i) \in C, NEW data \in Seq(Seq(C)), NEW n \in 0 .. Len(data)
  PROVE  \E f : Filled(f, data, n, C)
<1> DEFINE N == Len(data)
           B == {k \in 0 .. N : ~ \E f : Filled(f, data, k, C)}
<1>1. N \in Nat /\ \A i \in 1 .. N : data[i] \in Seq(C)
  BY LenProperties, ElementOfSeq
<1>2. 0 \notin B
  <2> DEFINE f == [i \in 0 .. 0 |-> <<>>]
  <2>1. <<>> \in Seq(C)
    BY EmptySeq
  <2>2. Filled(f, data, 0, C)
    BY <2>1 DEF Filled
  <2> QED
    BY <2>2
<1>3. B = {}
  <2> SUFFICES ASSUME B # {} PROVE FALSE
    OBVIOUS
  <2> HIDE DEF N
  <2>1. PICK m \in B : m \in 1 .. N /\ m - 1 \in 0 .. N /\ m - 1 \notin B
    BY <1>1, <1>2, FirstWithout
  <2>2. PICK f : Filled(f, data, m - 1, C)
    BY <2>1
  <2> DEFINE g == [i \in 0 .. m |-> IF i = m THEN Appended(f[m - 1], data[m]) ELSE f[i]]
  <2>3. f \in [0 .. m - 1 -> Seq(C)] /\ m - 1 \in 0 .. m - 1 /\ m \in Nat /\ m # 0 /\ m - 1 # m
    BY <1>1, <2>1, <2>2 DEF Filled
  <2>4. Appended(f[m - 1], data[m]) \in Seq(C)
    BY <1>1, <2>1, <2>3, AppendedFacts
  <2>5. \A i \in 0 .. m : i # m => i \in 0 .. m - 1
    BY <2>3
  <2>6. g \in [0 .. m -> Seq(C)]
    BY <2>3, <2>4, <2>5
  <2>7. g[0] = <<>>
    BY <2>2, <2>3 DEF Filled
  <2>8. ASSUME NEW i \in 1 .. m PROVE g[i] = Appended(g[i - 1], data[i])
    <3>1. i \in 0 .. m /\ i - 1 \in 0 .. m /\ i - 1 # m
      BY <2>3
    <3>2. g[i - 1] = f[i - 1]
      BY <3>1
    <3>3. CASE i = m
      BY <3>1, <3>2, <3>3
    <3>4. CASE i # m
      <4>1. i \in 1 .. m - 1
        BY <2>3, <3>4
      <4>2. f[i] = Appended(f[i - 1], data[i])
        BY <2>2, <4>1 DEF Filled
      <4> QED
        BY <3>1, <3>2, <3>4, <4>2
    <3> QED
      BY <3>3, <3>4
  <2> HIDE DEF g
  <2>9. Filled(g, data, m, C)
    BY <2>6, <2>7, <2>8 DEF Filled
  <2> QED
    BY <2>9
<1> QED
  BY <1>3

LEMMA PackedIsFilled ==
  ASSUME NEW C, \A i \in Nat : Host(i) \in C, NEW data \in Seq(Seq(C))
  PROVE  \E f : Filled(f, data, Len(data), C) /\ Packed(data) = f[Len(data)]
<1> DEFINE N       == Len(data)
           next(f, i) == IF i = 0 THEN <<>>
                         ELSE f[i - 1] \o <<Host(Len(data[i]))>> \o data[i]
           step(f) == [i \in 0 .. N |-> next(f, i)]
           filled  == CHOOSE f : f = step(f)
<1>1. N \in Nat
  BY LenProperties
<1>2. PICK f : Filled(f, data, N, C)
  BY <1>1, FilledExists
<1>3. Packed(data) = filled[N]
  BY DEF Packed
<1>4. /\ 0 \in 0 .. N /\ N \in 0 .. N
      /\ \A i \in 1 .. N : i \in 0 .. N /\ i # 0 /\ i - 1 \in 0 .. N
      /\ \A i \in 0 .. N : i # 0 => i \in 1 .. N
  BY <1>1
<1>5. \A g : next(g, 0) = <<>>
  OBVIOUS
<1>6. \A g : \A i \in 1 .. N : next(g, i) = Appended(g[i - 1], data[i])
  BY <1>4, Zenon DEF Appended
<1> HIDE DEF N, next
<1>7. f = step(f)
  <2>1. \A i \in 0 .. N : f[i] = next(f, i)
    BY <1>2, <1>4, <1>5, <1>6, Zenon DEF Filled
  <2>2. f = [i \in 0 .. N |-> f[i]]
    BY <1>2 DEF Filled
  <2> QED
    BY <2>1, <2>2
<1>8. filled = step(filled)
  BY <1>7
<1> HIDE DEF filled
<1>9. \A i \in 0 .. N : filled[i] = next(filled, i)
  BY <1>8
<1>10. /\ filled[0] = <<>>
      /\ \A i \in 1 .. N : filled[i] = Appended(filled[i - 1], data[i])
  BY <1>4, <1>5, <1>6, <1>9, Zenon
<1> DEFINE B == {i \in 0 .. N : filled[i] # f[i]}
<1>11. B = {}
  <2> SUFFICES ASSUME B # {} PROVE FALSE
    OBVIOUS
  <2>1. 0 \notin B
    BY <1>2, <1>10 DEF Filled
  <2>2. PICK m \in B : m \in 1 .. N /\ m - 1 \in 0 .. N /\ m - 1 \notin B
    BY <1>1, <2>1, FirstWithout
  <2>3. filled[m - 1] = f[m - 1]
    BY <2>2
  <2> QED
    BY <1>2, <1>10, <2>2, <2>3 DEF Filled
<1>12. Packed(data) = f[N]
  BY <1>3, <1>4, <1>11
<1> QED
  BY <1>2, <1>12 DEF N

(* What has been written stays, and the i-th data lies behind its length   *)
(* after the data before it.                                               *)
Lies(f, data, i) ==
  LET p == f[Len(data)]
      k == Len(f[i - 1])
  IN  /\ k \in Nat /\ Len(p) \in Nat /\ Len(data[i]) \in Nat
      /\ Len(f[i]) = k + 1 + Len(data[i])
      /\ k + 1 + Len(data[i]) <= Len(p)
      /\ p[k + 1] = Host(Len(data[i]))
      /\ \A j \in 1 .. Len(data[i]) : p[k + 1 + j] = data[i][j]

LEMMA FilledParts ==
  ASSUME NEW C, \A i \in Nat : Host(i) \in C, NEW data \in Seq(Seq(C)), NEW f,
         Filled(f, data, Len(data), C), NEW i \in 1 .. Len(data)
  PROVE  Lies(f, data, i)
<1> DEFINE n == Len(data)
           kept(m) == /\ Len(f[i]) <= Len(f[m])
                      /\ \A j \in 1 .. Len(f[i]) : f[m][j] = f[i][j]
           B == {m \in 0 .. n : i <= m /\ ~kept(m)}
<1>1. n \in Nat /\ \A m \in 1 .. n : data[m] \in Seq(C)
  BY LenProperties, ElementOfSeq
<1>2. \A m \in 0 .. n : f[m] \in Seq(C) /\ Len(f[m]) \in Nat
  BY LenProperties DEF Filled
<1>3. i \in 1 .. n /\ i \in Nat /\ 0 \in 0 .. n /\ n \in 0 .. n /\ i <= n /\ ~(i <= 0)
      /\ \A m \in 1 .. n : m \in 0 .. n /\ m - 1 \in 0 .. n /\ f[m] = Appended(f[m - 1], data[m])
  BY <1>1 DEF Filled
<1> HIDE DEF n
<1>4. \A m \in 1 .. n :
        /\ Len(data[m]) \in Nat
        /\ Len(f[m]) = Len(f[m - 1]) + 1 + Len(data[m])
        /\ \A j \in 1 .. Len(f[m - 1]) : f[m][j] = f[m - 1][j]
        /\ f[m][Len(f[m - 1]) + 1] = Host(Len(data[m]))
        /\ \A j \in 1 .. Len(data[m]) : f[m][Len(f[m - 1]) + 1 + j] = data[m][j]
  <2> SUFFICES ASSUME NEW m \in 1 .. n
               PROVE  /\ Len(data[m]) \in Nat
                      /\ Len(f[m]) = Len(f[m - 1]) + 1 + Len(data[m])
                      /\ \A j \in 1 .. Len(f[m - 1]) : f[m][j] = f[m - 1][j]
                      /\ f[m][Len(f[m - 1]) + 1] = Host(Len(data[m]))
                      /\ \A j \in 1 .. Len(data[m]) :
                           f[m][Len(f[m - 1]) + 1 + j] = data[m][j]
    OBVIOUS
  <2> DEFINE s == f[m - 1]
             d == data[m]
  <2>1. f[m] = Appended(s, d) /\ s \in Seq(C) /\ d \in Seq(C)
    BY <1>1, <1>2, <1>3
  <2> HIDE DEF s, d
  <2>2. /\ Len(d) \in Nat
        /\ Len(Appended(s, d)) = Len(s) + 1 + Len(d)
        /\ \A j \in 1 .. Len(s) : Appended(s, d)[j] = s[j]
        /\ Appended(s, d)[Len(s) + 1] = Host(Len(d))
        /\ \A j \in 1 .. Len(d) : Appended(s, d)[Len(s) + 1 + j] = d[j]
    BY <2>1, AppendedFacts, Zenon
  <2> QED
    BY <2>1, <2>2, Zenon DEF s, d
<1>5. B = {}
  <2> SUFFICES ASSUME B # {} PROVE FALSE
    OBVIOUS
  <2>1. B \in SUBSET (0 .. n) /\ 0 \notin B
    BY <1>3
  <2>2. PICK m \in B : m \in 1 .. n /\ m - 1 \in 0 .. n /\ m - 1 \notin B
    BY <1>1, <2>1, FirstWithout
  <2>3. m # i
    BY <1>2, <1>3, <2>2
  <2>4. i <= m - 1 /\ kept(m - 1)
    BY <1>3, <2>2, <2>3
  <2> HIDE DEF B
  <2>5. Len(f[i]) \in Nat /\ Len(f[m - 1]) \in Nat /\ Len(f[m]) \in Nat /\ Len(data[m]) \in Nat
    BY <1>2, <1>3, <1>4, <2>2
  <2>6. /\ \A b, c, d \in Nat : c = b + 1 + d => b <= c
        /\ \A a, b, c \in Nat : a <= b /\ b <= c => a <= c
        /\ \A a, b \in Nat : a <= b => \A j \in 1 .. a : j \in 1 .. b
    OBVIOUS
  <2>7. /\ Len(f[m - 1]) <= Len(f[m])
        /\ \A j \in 1 .. Len(f[m - 1]) : f[m][j] = f[m - 1][j]
    <3>1. Len(f[m]) = Len(f[m - 1]) + 1 + Len(data[m])
      BY <1>4, <2>2
    <3>2. Len(f[m - 1]) <= Len(f[m])
      BY <2>5, <2>6, <3>1, Zenon
    <3> QED
      BY <1>4, <2>2, <3>2, Zenon
  <2>8. \A j \in 1 .. Len(f[i]) : j \in 1 .. Len(f[m - 1])
    BY <2>4, <2>5, <2>6, Zenon
  <2>9. Len(f[i]) <= Len(f[m])
    BY <2>4, <2>5, <2>7, <2>6, Zenon
  <2>10. kept(m)
    BY <2>4, <2>7, <2>8, <2>9, Zenon
  <2> QED
    BY <2>2, <2>4, <2>10 DEF B
<1>6. Len(f[i]) <= Len(f[n]) /\ \A j \in 1 .. Len(f[i]) : f[n][j] = f[i][j]
  BY <1>3, <1>5
<1> DEFINE k == Len(f[i - 1])
           d == Len(data[i])
<1>7. k \in Nat /\ Len(f[n]) \in Nat /\ d \in Nat /\ Len(f[i]) = k + 1 + d
      /\ f[i][k + 1] = Host(d) /\ \A j \in 1 .. d : f[i][k + 1 + j] = data[i][j]
  BY <1>2, <1>3, <1>4
<1> HIDE DEF k, d
<1>8. k + 1 + d <= Len(f[n]) /\ f[n][k + 1] = Host(d)
      /\ \A j \in 1 .. d : f[n][k + 1 + j] = data[i][j]
  BY <1>6, <1>7
<1> QED
  BY <1>7, <1>8, Zenon DEF Lies, n, k, d

(* Where the message of FormatDataN has the length of the i-th data. *)
Place(f, i) == HeaderSize + Len(f[i - 1])

LiesInMessage(buf, h, f, data, i) ==
  /\ Len(buf) \in Nat /\ Len(buf) >= HeaderSize /\ buf[1] = h[1] /\ buf[2] = h[2]
  /\ Place(f, i) \in Nat /\ Len(data[i]) \in Nat
  /\ HeaderSize + Len(f[i]) = Place(f, i) + 1 + Len(data[i])
  /\ buf[Place(f, i)] = Host(Len(data[i]))
  /\ PartOf(buf, Place(f, i), Len(data[i])) = data[i]

LEMMA ManyLaidOut ==
  ASSUME NEW C, \A i \in Nat : Host(i) \in C, NEW data \in Seq(Seq(C)), NEW f,
         Filled(f, data, Len(data), C), NEW h \in Seq(C), Len(h) = 2,
         NEW rest \in Seq(C), NEW i \in 1 .. Len(data)
  PROVE  LiesInMessage((h \o f[Len(data)]) \o rest, h, f, data, i)
<1> DEFINE p   == f[Len(data)]
           msg == h \o p
           buf == msg \o rest
           k   == Len(f[i - 1])
           d   == data[i]
<1>1. Len(data) \in Nat /\ d \in Seq(C)
  BY LenProperties, ElementOfSeq
<1>2. p \in Seq(C)
  <2>1. Len(data) \in 0 .. Len(data)
    BY <1>1
  <2> QED
    BY <2>1 DEF Filled
<1>3. /\ k \in Nat /\ Len(p) \in Nat /\ Len(d) \in Nat
      /\ Len(f[i]) = k + 1 + Len(d) /\ k + 1 + Len(d) <= Len(p)
      /\ p[k + 1] = Host(Len(d)) /\ \A j \in 1 .. Len(d) : p[k + 1 + j] = d[j]
  <2>1. Lies(f, data, i)
    BY FilledParts, Zenon
  <2> QED
    BY <2>1, Zenon DEF Lies
<1>4. Place(f, i) = 3 + k
  BY DEF Place, HeaderSize
<1> HIDE DEF p, k, d
<1>5. msg \in Seq(C) /\ Joined(msg, h, p)
  BY <1>2, Concat, Zenon
<1> HIDE DEF msg
<1>10. buf \in Seq(C) /\ Joined(buf, msg, rest)
  BY <1>5, Concat, Zenon
<1> HIDE DEF buf
<1>6. /\ Len(buf) \in Nat /\ Len(buf) >= 2 + Len(p) /\ buf[1] = h[1] /\ buf[2] = h[2]
      /\ \A j \in 1 .. Len(p) : buf[2 + j] = p[j]
  <2>1. Len(msg) = 2 + Len(p) /\ msg[1] = h[1] /\ msg[2] = h[2]
    BY <1>5 DEF Joined
  <2>2. \A j \in 1 .. Len(p) : 2 + j \in 1 .. Len(msg) /\ msg[2 + j] = p[j]
    BY <1>3, <1>5, <2>1 DEF Joined
  <2>3. /\ Len(rest) \in Nat /\ Len(buf) = Len(msg) + Len(rest)
        /\ \A j \in 1 .. Len(msg) : buf[j] = msg[j]
    BY <1>10 DEF Joined
  <2>4. 1 \in 1 .. Len(msg) /\ 2 \in 1 .. Len(msg)
    BY <1>3, <2>1
  <2>5. buf[1] = h[1] /\ buf[2] = h[2] /\ \A j \in 1 .. Len(p) : buf[2 + j] = p[j]
    BY <2>1, <2>2, <2>3, <2>4, Zenon
  <2>6. Len(buf) \in Nat /\ Len(buf) >= 2 + Len(p)
    BY <1>3, <2>1, <2>3
  <2> QED
    BY <2>5, <2>6
<1>7. buf[3 + k] = Host(Len(d))
  <2>1. k + 1 \in 1 .. Len(p) /\ 2 + (k + 1) = 3 + k
    BY <1>3
  <2> QED
    BY <1>3, <1>6, <2>1
<1>8. PartOf(buf, 3 + k, Len(d)) = d
  <2>1. ASSUME NEW j \in 1 .. Len(d) PROVE buf[3 + k + j] = d[j]
    <3>1. k + 1 + j \in 1 .. Len(p) /\ 2 + (k + 1 + j) = 3 + k + j
      BY <1>3
    <3> QED
      BY <1>3, <1>6, <3>1
  <2>2. 3 + k \in Nat /\ 3 + k + Len(d) <= Len(buf)
    BY <1>3, <1>6
  <2>3. d \in Seq(C)
    BY <1>1 DEF d
  <2> QED
    BY <1>10, <2>1, <2>2, <2>3, Part, Zenon
<1>9. Len(buf) >= 3 /\ 3 + k \in Nat /\ 3 + Len(f[i]) = 3 + k + 1 + Len(d)
  BY <1>3, <1>6
<1> QED
  BY <1>3, <1>4, <1>6, <1>7, <1>8, <1>9, Zenon DEF LiesInMessage, HeaderSize, buf, msg, p, d

(* What FormatDataN leaves in the buffer for one or more data. *)
Message(cmd, num, p, rest) == (<<Net(cmd), Net(num)>> \o p) \o rest

IsMessage(C, cmd, data, f, rest) ==
  /\ \A i \in Nat : Host(i) \in C
  /\ data \in Seq(Seq(C)) /\ data # <<>> /\ Filled(f, data, Len(data), C)
  /\ Net(cmd) \in C /\ Net(Len(data)) \in C /\ rest \in Seq(C)
  /\ Len(data) <= MaxDataNum /\ \A i \in 1 .. Len(data) : Len(data[i]) < MaxDataLen

(* ParseDataN finds every data where its length says. *)
LEMMA ManyReadBack ==
  ASSUME NEW C, NEW cmd, NEW data, NEW f, NEW rest, IsMessage(C, cmd, data, f, rest)
  PROVE  ParseDataN(Message(cmd, Len(data), f[Len(data)], rest))
           = Parsed(0, cmd, Len(data), data)
<1>0. /\ \A i \in Nat : Host(i) \in C
      /\ data \in Seq(Seq(C)) /\ data # <<>> /\ Filled(f, data, Len(data), C)
      /\ Net(cmd) \in C /\ Net(Len(data)) \in C /\ rest \in Seq(C)
      /\ Len(data) <= MaxDataNum /\ \A i \in 1 .. Len(data) : Len(data[i]) < MaxDataLen
  BY DEF IsMessage
<1> USE <1>0
<1> DEFINE n   == Len(data)
           h   == <<Net(cmd), Net(n)>>
           buf == (h \o f[n]) \o rest
<1>1. n \in Nat /\ n >= 1 /\ n <= MaxDataNum /\ MaxDataNum \in Nat /\ MaxDataLen \in Nat
  BY LenProperties, EmptySeq, LimitsAssumption
<1>2. h \in Seq(C) /\ Len(h) = 2 /\ h[1] = Net(cmd) /\ h[2] = Net(n)
  OBVIOUS
<1> HIDE DEF h
<1>3. \A i \in 1 .. n : LiesInMessage(buf, h, f, data, i)
  BY <1>2, ManyLaidOut, Zenon
<1> DEFINE num        == Read(buf[2], "net")
           size(p)    == Read(buf[p], "host")
           next(g, i) == IF i = 1 THEN HeaderSize ELSE g[i - 1] + 1 + size(g[i - 1])
           step(g)    == [i \in 1 .. num |-> next(g, i)]
           at         == CHOOSE g : g = step(g)
           place      == [i \in 1 .. n |-> Place(f, i)]
           item(i)    == SubSeq(buf, at[i] + 1, at[i] + size(at[i]))
           ext(g, i)  == IF i < num /\ size(at[i]) = MaxDataLen
                         THEN item(i) \o g[i + 1] ELSE item(i)
           rows(g)    == [i \in 1 .. num |-> ext(g, i)]
           row        == CHOOSE g : g = rows(g)
<1>4. ParseDataN(buf) =
        IF Len(buf) < HeaderSize THEN NotParsed
        ELSE IF num > MaxDataNum \/ \E i \in 1 .. num : size(at[i]) > MaxDataLen
        THEN Parsed(-1, Read(buf[1], "net"), num, <<>>)
        ELSE Parsed(0, Read(buf[1], "net"), num, row)
  BY DEF ParseDataN
<1> HIDE DEF n, buf, row, ext, item
<1>5. num = n /\ Read(buf[1], "net") = cmd /\ ~(Len(buf) < HeaderSize)
  <2>1. 1 \in 1 .. n
    BY <1>1
  <2>2. Len(buf) \in Nat /\ Len(buf) >= 3 /\ buf[1] = Net(cmd) /\ buf[2] = Net(n)
    BY <1>2, <1>3, <2>1 DEF HeaderSize, LiesInMessage
  <2> QED
    BY <2>2, ReadNet DEF HeaderSize
<1>6. \A i \in 1 .. n : size(Place(f, i)) = Len(data[i])
  BY <1>3, ReadHost, Zenon DEF LiesInMessage
<1>7. \A g : next(g, 1) = HeaderSize
  OBVIOUS
<1>8. \A g : \A i \in 1 .. n : i # 1 => next(g, i) = g[i - 1] + 1 + size(g[i - 1])
  OBVIOUS
<1> HIDE DEF num, size, next

<1>9. \A i \in 1 .. n : place[i] = next(place, i)
  <2> SUFFICES ASSUME NEW i \in 1 .. n PROVE Place(f, i) = next(place, i)
    OBVIOUS
  <2>1. CASE i = 1
    <3>1. f[1 - 1] = <<>>
      BY DEF Filled
    <3> QED
      BY <1>7, <2>1, <3>1 DEF Place, HeaderSize
  <2>2. CASE i # 1
    <3>1. i - 1 \in 1 .. n
      BY <1>1, <2>2
    <3>2. /\ place[i - 1] = Place(f, i - 1) /\ size(place[i - 1]) = Len(data[i - 1])
          /\ HeaderSize + Len(f[i - 1]) = Place(f, i - 1) + 1 + Len(data[i - 1])
      BY <1>3, <1>6, <3>1 DEF LiesInMessage
    <3>3. next(place, i) = place[i - 1] + 1 + size(place[i - 1])
      BY <1>8, <2>2
    <3> QED
      BY <3>2, <3>3, Zenon DEF Place
  <2> QED
    BY <2>1, <2>2
<1> HIDE DEF place
<1>10. place = step(place)
  <2>1. place = [i \in 1 .. n |-> place[i]]
    BY DEF place
  <2> QED
    BY <1>5, <1>9, <2>1
<1>11. at = step(at)
  BY <1>10
<1> HIDE DEF at
<1>12. \A i \in 1 .. n : at[i] = next(at, i)
  BY <1>5, <1>11
<1> DEFINE B == {i \in 0 .. n : i # 0 /\ at[i] # place[i]}
<1>13. B = {}
  <2> SUFFICES ASSUME B # {} PROVE FALSE
    OBVIOUS
  <2>1. B \in SUBSET (0 .. n) /\ 0 \notin B
    OBVIOUS
  <2>2. PICK m \in B : m \in 1 .. n /\ m - 1 \in 0 .. n /\ m - 1 \notin B
    BY <1>1, <2>1, FirstWithout
  <2>3. CASE m = 1
    BY <1>7, <1>9, <1>12, <2>2, <2>3
  <2>4. CASE m # 1
    <3>1. m - 1 # 0 /\ at[m - 1] = place[m - 1]
      BY <1>1, <2>2, <2>4
    <3>2. at[m] = place[m]
      BY <1>8, <1>9, <1>12, <2>2, <2>4, <3>1, Zenon
    <3> QED
      BY <2>2, <3>2
  <2> QED
    BY <2>3, <2>4
<1>14. \A i \in 1 .. n : at[i] = Place(f, i)
  <2>1. \A i \in 1 .. n : i \in 0 .. n /\ i # 0
    BY <1>1
  <2>2. \A i \in 1 .. n : place[i] = Place(f, i)
    BY DEF place
  <2> QED
    BY <1>13, <2>1, <2>2
<1>15. \A i \in 1 .. n : /\ size(at[i]) = Len(data[i])
                         /\ SubSeq(buf, at[i] + 1, at[i] + size(at[i])) = data[i]
  BY <1>3, <1>6, <1>14 DEF PartOf, LiesInMessage
<1>16. ~(num > MaxDataNum) /\ ~ \E i \in 1 .. num : size(at[i]) > MaxDataLen
  <2>1. ~(num > MaxDataNum)
    BY <1>1, <1>5
  <2>2. \A i \in 1 .. n : Len(data[i]) < MaxDataLen /\ Len(data[i]) \in Nat
    BY <1>3 DEF n, LiesInMessage
  <2>3. \A i \in 1 .. n : ~(size(at[i]) > MaxDataLen)
    BY <1>1, <1>15, <2>2
  <2> QED
    BY <1>5, <2>1, <2>3
<1>17. row = data
  <2>1. data = [i \in 1 .. n |-> data[i]]
    BY DEF n
  <2>2. \A i \in 1 .. n : ~(size(at[i]) = MaxDataLen)
    <3>1. \A i \in 1 .. n : Len(data[i]) < MaxDataLen /\ Len(data[i]) \in Nat
      BY <1>3 DEF n, LiesInMessage
    <3> QED
      BY <1>1, <1>15, <3>1
  <2>3. \A g : \A i \in 1 .. n : ext(g, i) = data[i]
    BY <1>15, <2>2, Zenon DEF ext, item
  <2>4. \A g : rows(g) = data
    BY <1>5, <2>1, <2>3
  <2> QED
    BY <2>4, Zenon DEF row
<1>18. ParseDataN(buf) = Parsed(0, cmd, n, data)
  BY <1>4, <1>5, <1>16, <1>17, Zenon
<1> QED
  BY <1>18 DEF Message, buf, h, n

(* What FormatDataN writes and does not refuse, ParseDataN reads back: the *)
(* same command and the same data in their order, for any number of data   *)
(* up to MAX_DATA_NUM, each shorter than MAX_DATA_LEN, whatever the buffer *)
(* held before; and the message does not leave the buffer.                 *)
THEOREM RoundTripN ==
  ASSUME NEW Cell, NEW pBuf \in Seq(Cell), NEW cmd, NEW data \in Seq(Seq(Cell)),
         FormatDataN(pBuf, cmd, data) # Refused,
         Len(data) <= MaxDataNum, \A i \in 1 .. Len(data) : Len(data[i]) < MaxDataLen
  PROVE  /\ Len(FormatDataN(pBuf, cmd, data)) = Len(pBuf)
         /\ ParseDataN(FormatDataN(pBuf, cmd, data)) = Parsed(0, cmd, Len(data), data)
<1> DEFINE C   == Cell \cup {Net(i) : i \in Nat \cup {cmd}} \cup {Host(i) : i \in Nat}
           h   == <<Net(cmd), Net(Len(data))>>
           p   == Packed(data)
           msg == IF data = <<>> THEN Header(cmd, 0, 0) ELSE h \o p
           rest == SubSeq(pBuf, Len(msg) + 1, Len(pBuf))
           buf == FormatDataN(pBuf, cmd, data)
<1>1. /\ \A i \in Nat : Host(i) \in C
      /\ Len(data) \in Nat /\ Net(cmd) \in C /\ Net(0) \in C /\ Net(Len(data)) \in C
  BY LenProperties
<1>2. data \in Seq(Seq(C)) /\ pBuf \in Seq(C) /\ Len(pBuf) \in Nat
  <2>1. Seq(Cell) \subseteq Seq(C)
    BY SeqMonotonic
  <2> QED
    BY <2>1, SeqMonotonic, LenProperties
<1>3. h \in Seq(C) /\ Len(h) = 2
  BY <1>1
<1>4. ~(Len(pBuf) < HeaderSize + Len(p)) /\ buf = msg \o rest
  BY DEF FormatDataN
<1> HIDE DEF C
<1>5. PICK f : Filled(f, data, Len(data), C) /\ p = f[Len(data)]
  BY <1>1, <1>2, PackedIsFilled
<1>6. p \in Seq(C) /\ Len(p) \in Nat
  <2>1. Len(data) \in 0 .. Len(data)
    BY <1>1
  <2>2. p \in Seq(C)
    BY <1>5, <2>1 DEF Filled
  <2> QED
    BY <2>2, LenProperties
<1> HIDE DEF p, buf
<1>7. msg \in Seq(C) /\ Len(msg) \in Nat /\ Len(msg) <= Len(pBuf)
  <2>1. CASE data = <<>>
    <3>1. msg = <<Net(cmd), Net(0), Net(0)>>
      BY <2>1 DEF Header
    <3> DEFINE t == <<Net(cmd), Net(0), Net(0)>>
    <3>2. msg \in Seq(C) /\ Len(msg) = 3
      <4>1. t \in Seq(C) /\ Len(t) = 3
        BY <1>1
      <4> HIDE DEF t, msg
      <4>2. msg = t
        BY <3>1 DEF t
      <4> QED
        BY <4>1, <4>2
    <3> QED
      BY <1>2, <1>4, <1>6, <3>2 DEF HeaderSize
  <2>2. CASE data # <<>>
    <3>1. h \o p \in Seq(C) /\ Joined(h \o p, h, p)
      BY <1>3, <1>6, Concat, Zenon
    <3>2. msg = h \o p
      BY <2>2
    <3>3. Len(msg) = 2 + Len(p)
      BY <1>3, <3>1, <3>2 DEF Joined
    <3> HIDE DEF msg, h
    <3>4. 3 + Len(p) <= Len(pBuf)
      BY <1>2, <1>4, <1>6 DEF HeaderSize
    <3>5. Len(msg) <= Len(pBuf) /\ Len(msg) \in Nat
      BY <1>2, <1>6, <3>3, <3>4
    <3> QED
      BY <3>1, <3>2, <3>5
  <2> QED
    BY <2>1, <2>2
<1> HIDE DEF msg
<1>8. rest \in Seq(C) /\ Len(rest) = Len(pBuf) - Len(msg)
  <2>1. \A i \in Len(msg) + 1 .. Len(pBuf) : pBuf[i] \in C
    BY <1>2, <1>7, ElementOfSeq
  <2> QED
    BY <1>2, <1>7, <2>1, SubSeqProperties
<1> HIDE DEF rest
<1>9. /\ buf \in Seq(C) /\ Joined(buf, msg, rest)
      /\ Len(buf) = Len(pBuf)
  <2>1. buf \in Seq(C) /\ Joined(buf, msg, rest)
    BY <1>4, <1>7, <1>8, Concat, Zenon
  <2> QED
    BY <1>2, <1>7, <1>8, <2>1 DEF Joined
<1>10. CASE data = <<>>
  <2>1. Len(data) = 0 /\ 0 <= MaxDataNum
    BY <1>10, LimitsAssumption
  <2>2. msg = <<Net(cmd), Net(0), Net(0)>>
    BY <1>10 DEF msg, Header
  <2>3. /\ Len(buf) \in Nat /\ Len(buf) >= 3
        /\ Read(buf[1], "net") = cmd /\ Read(buf[2], "net") = 0
    BY <1>2, <1>7, <1>9, <2>2, ReadNet DEF Joined
  <2>4. ParseDataN(buf) = Parsed(0, cmd, 0, data)
    <3> DEFINE num     == Read(buf[2], "net")
               size(q) == Read(buf[q], "host")
               at      == CHOOSE g : g = [i \in 1 .. num |->
                            IF i = 1 THEN HeaderSize ELSE g[i - 1] + 1 + size(g[i - 1])]
               item(i) == SubSeq(buf, at[i] + 1, at[i] + size(at[i]))
               rows(g) == [i \in 1 .. num |->
                            IF i < num /\ size(at[i]) = MaxDataLen
                            THEN item(i) \o g[i + 1] ELSE item(i)]
               row     == CHOOSE g : g = rows(g)
    <3>1. ParseDataN(buf) =
            IF Len(buf) < HeaderSize THEN NotParsed
            ELSE IF num > MaxDataNum \/ \E i \in 1 .. num : size(at[i]) > MaxDataLen
            THEN Parsed(-1, Read(buf[1], "net"), num, <<>>)
            ELSE Parsed(0, Read(buf[1], "net"), num, row)
      BY DEF ParseDataN
    <3>2. num = 0 /\ 1 .. num = {}
      BY <2>3
    <3> HIDE DEF size, at, item
    <3>3. \A g : rows(g) = data
      BY <1>10, <3>2
    <3>4. row = data
      BY <3>3, Zenon
    <3>5. ~(0 > MaxDataNum) /\ ~(Len(buf) < HeaderSize)
      BY <2>3, LimitsAssumption DEF HeaderSize
    <3> HIDE DEF num, row
    <3> QED
      BY <2>3, <3>1, <3>2, <3>4, <3>5
  <2> QED
    BY <1>9, <2>1, <2>4 DEF buf
<1>11. CASE data # <<>>
  <2>1. buf = Message(cmd, Len(data), f[Len(data)], rest)
    BY <1>4, <1>5, <1>11 DEF msg, Message
  <2>2. IsMessage(C, cmd, data, f, rest)
    BY <1>1, <1>2, <1>5, <1>8, <1>11 DEF IsMessage
  <2>3. ParseDataN(Message(cmd, Len(data), f[Len(data)], rest)) = Parsed(0, cmd, Len(data), data)
    BY <2>2, ManyReadBack
  <2> QED
    BY <1>9, <2>1, <2>3 DEF buf
<1> QED
  BY <1>10, <1>11
==============================================================================
