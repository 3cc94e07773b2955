---------------------------- MODULE FramingProofs ----------------------------
(***************************************************************************)
(* Theorems about Framing for any number of messages, payload sizes, size  *)
(* of the reader's buffer, segmentation, time-outs and cut writes: what is *)
(* returned is genuine and in order, and what is lost is not lost silently.*)
(***************************************************************************)
EXTENDS Framing, SequenceTheorems, TLAPS

AnyCell == [msg : Nat, field : {"pre", "typ", "mac", "siz", "pay"}, part : Nat]

\* What has been written and not been read yet.
Stream == buf \o net

\* t is what s leaves when its first k members are taken.
Leaves(s, k, t) == /\ t \in Seq(AnyCell) /\ Len(s) = k + Len(t)
                   /\ \A j \in 1..Len(t) : t[j] = s[k + j]

\* t is s with f behind it.
Extended(s, f, t) == /\ t \in Seq(AnyCell) /\ Len(t) = Len(s) + Len(f)
                     /\ \A j \in 1..Len(s) : t[j] = s[j]
                     /\ \A j \in 1..Len(f) : t[Len(s) + j] = f[j]

\* A part of a list, member by member.
LEMMA PartIs ==
  ASSUME NEW S, NEW s \in Seq(S), NEW a \in Nat \ {0}, NEW b \in Nat, b <= Len(s), a <= b + 1
  PROVE  /\ SubSeq(s, a, b) \in Seq(S) /\ Len(SubSeq(s, a, b)) = b + 1 - a
         /\ \A j \in 1..(b + 1 - a) : SubSeq(s, a, b)[j] = s[a + j - 1]
OBVIOUS

\* Two lists in a row, member by member.
LEMMA RowIs ==
  ASSUME NEW s \in Seq(AnyCell), NEW t \in Seq(AnyCell)
  PROVE  Extended(s, t, s \o t)
BY DEF Extended

\* How many cells a header has.
HeaderLen == IF encrypted THEN 8 ELSE 6

\* The fields of a header in their order.
HeaderPlaces(m) ==
  /\ Header(m)[1] = Cell(m, "pre", 1) /\ Header(m)[2] = Cell(m, "pre", 2)
  /\ Header(m)[3] = Cell(m, "typ", 1) /\ Header(m)[4] = Cell(m, "typ", 2)
  /\ encrypted => Header(m)[5] = Cell(m, "mac", 1) /\ Header(m)[6] = Cell(m, "mac", 2)
  /\ Header(m)[HeaderLen - 1] = Cell(m, "siz", 1) /\ Header(m)[HeaderLen] = Cell(m, "siz", 2)

\* A frame, cell by cell.
LEMMA FrameIs ==
  ASSUME NEW m \in Nat, NEW n \in Nat
  PROVE  /\ Frame(m, n) \in Seq(AnyCell) /\ Len(Frame(m, n)) = HeaderLen + n
         /\ Len(Header(m)) = HeaderLen /\ HeaderPlaces(m)
         /\ \A i \in 1..HeaderLen : Frame(m, n)[i] = Header(m)[i]
         /\ \A i \in 1..n : Frame(m, n)[HeaderLen + i] = Cell(m, "pay", i)
<1>1. \A f \in {"pre", "typ", "mac", "siz", "pay"}, i \in Nat : Cell(m, f, i) \in AnyCell
  BY DEF Cell, AnyCell
<1> DEFINE F(f) == Field(m, f)
           a == F("pre") \o F("typ")
           k == IF encrypted THEN F("mac") ELSE <<>>
           c == a \o k
<1>2. \A f \in {"pre", "typ", "mac", "siz", "pay"} :
        F(f) \in Seq(AnyCell) /\ Len(F(f)) = 2 /\ F(f)[1] = Cell(m, f, 1) /\ F(f)[2] = Cell(m, f, 2)
  BY <1>1 DEF Field
<1>3. Header(m) = c \o F("siz")
  BY DEF Header
<1> HIDE DEF F
<1>4. a \in Seq(AnyCell) /\ Len(a) = 4 /\ a[1] = Cell(m, "pre", 1) /\ a[2] = Cell(m, "pre", 2)
      /\ a[3] = Cell(m, "typ", 1) /\ a[4] = Cell(m, "typ", 2)
  BY <1>2
<1> HIDE DEF a
<1>5. k \in Seq(AnyCell) /\ Len(k) = HeaderLen - 6 /\ \A i \in 1..Len(k) : k[i] = Cell(m, "mac", i)
  <2>1. CASE encrypted
    <3>1. k = F("mac") /\ HeaderLen - 6 = 2
      BY <2>1 DEF HeaderLen
    <3> HIDE DEF k
    <3>2. \A i \in 1..2 : i = 1 \/ i = 2
      OBVIOUS
    <3> QED BY <1>2, <3>1, <3>2
  <2>2. CASE ~encrypted
    BY <2>2 DEF HeaderLen
  <2> QED BY <2>1, <2>2
<1> HIDE DEF k
<1>6. c \in Seq(AnyCell) /\ Len(c) = HeaderLen - 2 /\ (\A i \in 1..4 : c[i] = a[i])
      /\ \A i \in 1..(HeaderLen - 6) : c[4 + i] = Cell(m, "mac", i)
  <2>1. Extended(a, k, c)
    BY <1>4, <1>5, RowIs
  <2>2. HeaderLen \in {6, 8}
    BY DEF HeaderLen
  <2> HIDE DEF c
  <2> QED BY <1>4, <1>5, <2>1, <2>2, SMTT(30) DEF Extended
<1> HIDE DEF c
<1>7. /\ Header(m) \in Seq(AnyCell) /\ Len(Header(m)) = HeaderLen
      /\ \A i \in 1..(HeaderLen - 2) : Header(m)[i] = c[i]
      /\ Header(m)[HeaderLen - 1] = Cell(m, "siz", 1) /\ Header(m)[HeaderLen] = Cell(m, "siz", 2)
  <2> DEFINE z == F("siz")
  <2>1. z \in Seq(AnyCell) /\ Len(z) = 2 /\ z[1] = Cell(m, "siz", 1) /\ z[2] = Cell(m, "siz", 2)
    BY <1>2
  <2> HIDE DEF z
  <2>2. Extended(c, z, c \o z)
    BY <1>6, <2>1, RowIs
  <2>3. HeaderLen \in {6, 8}
    BY DEF HeaderLen
  <2>4. Header(m) = c \o z
    BY <1>3 DEF z
  <2>5. Extended(c, z, Header(m))
    BY <2>2, <2>4
  <2> QED BY <1>6, <2>1, <2>3, <2>5 DEF Extended
<1>8. HeaderPlaces(m)
  <2>1. HeaderLen \in {6, 8}
    BY DEF HeaderLen
  <2>2. /\ Header(m)[1] = Cell(m, "pre", 1) /\ Header(m)[2] = Cell(m, "pre", 2)
        /\ Header(m)[3] = Cell(m, "typ", 1) /\ Header(m)[4] = Cell(m, "typ", 2)
    BY <1>4, <1>6, <1>7, <2>1
  <2>3. HeaderLen = 8 => Header(m)[5] = Cell(m, "mac", 1) /\ Header(m)[6] = Cell(m, "mac", 2)
    BY <1>6, <1>7
  <2> QED BY <1>7, <2>1, <2>2, <2>3 DEF HeaderPlaces, HeaderLen
<1>9. /\ Payload(m, n) \in Seq(AnyCell) /\ Len(Payload(m, n)) = n
      /\ \A i \in 1..n : Payload(m, n)[i] = Cell(m, "pay", i)
  BY <1>1 DEF Payload
<1>10. Frame(m, n) = Header(m) \o Payload(m, n)
  BY DEF Frame
<1>11. HeaderLen \in Nat
  BY DEF HeaderLen
<1> DEFINE h == Header(m)
           p == Payload(m, n)
<1> HIDE DEF h, p
<1>12. Extended(h, p, h \o p)
  BY <1>7, <1>9, RowIs DEF h, p
<1>13. Extended(Header(m), Payload(m, n), Frame(m, n))
  BY <1>10, <1>12 DEF h, p
<1> QED BY <1>7, <1>8, <1>9, <1>11, <1>13 DEF Extended

\* A write that is cut has written less than a frame.
LEMMA SomeCut == ASSUME NEW n \in PayloadSizes PROVE 0 \in 0..Len(Frame(1, n)) - 1
<1>1. n \in Nat
  BY FramingAssumption DEF PayloadSizes
<1>2. Len(Frame(1, n)) = HeaderLen + n
  BY <1>1, FrameIs
<1> QED BY <1>1, <1>2 DEF HeaderLen

\* A list cut in two.
LEMMA CutIs ==
  ASSUME NEW s \in Seq(AnyCell), NEW k \in Nat, k <= Len(s)
  PROVE  /\ Split(s, k)[1] \in Seq(AnyCell) /\ Len(Split(s, k)[1]) = k
         /\ \A j \in 1..k : Split(s, k)[1][j] = s[j]
         /\ Leaves(s, k, Split(s, k)[2])
<1>1. /\ SubSeq(s, 1, k) \in Seq(AnyCell) /\ Len(SubSeq(s, 1, k)) = k
      /\ \A j \in 1..k : SubSeq(s, 1, k)[j] = s[j]
  BY PartIs
<1>2. Len(s) \in Nat
  OBVIOUS
<1>3. /\ SubSeq(s, k + 1, Len(s)) \in Seq(AnyCell) /\ Len(SubSeq(s, k + 1, Len(s))) = Len(s) - k
      /\ \A j \in 1..(Len(s) - k) : SubSeq(s, k + 1, Len(s))[j] = s[k + j]
  BY <1>2
<1> QED BY <1>1, <1>2, <1>3 DEF Split, Leaves

\* Taking from the front of a list takes from the front of what it begins.
LEMMA LeavesRow ==
  ASSUME NEW s \in Seq(AnyCell), NEW u \in Seq(AnyCell), NEW k \in Nat, NEW t, Leaves(s, k, t)
  PROVE  Leaves(s \o u, k, t \o u)
<1>1. t \in Seq(AnyCell) /\ Len(s) \in Nat /\ Len(t) \in Nat /\ Len(u) \in Nat /\ Len(s) = k + Len(t)
  BY DEF Leaves
<1> DEFINE x == s \o u
           y == t \o u
<1>2. Extended(s, u, x) /\ Extended(t, u, y)
  BY <1>1, RowIs
<1> HIDE DEF x, y
<1>3. ASSUME NEW j \in 1..Len(y) PROVE y[j] = x[k + j]
  <2>1. CASE j <= Len(t)
    BY <1>1, <1>2, <2>1 DEF Leaves, Extended
  <2>2. CASE j > Len(t)
    <3>1. j - Len(t) \in 1..Len(u) /\ j = Len(t) + (j - Len(t)) /\ k + j = Len(s) + (j - Len(t))
      BY <1>1, <1>2, <2>2 DEF Extended
    <3> QED BY <1>2, <3>1 DEF Extended
  <2> QED BY <1>1, <1>2, <2>1, <2>2 DEF Extended
<1>4. Leaves(x, k, y)
  <2>1. Len(x) = Len(s) + Len(u) /\ Len(y) = Len(t) + Len(u) /\ y \in Seq(AnyCell)
    BY <1>2 DEF Extended
  <2> QED BY <1>1, <1>3, <2>1 DEF Leaves
<1> QED BY <1>4 DEF x, y

\* Taking from the front of a list twice.
LEMMA LeavesTwice ==
  ASSUME NEW s \in Seq(AnyCell), NEW k \in Nat, NEW t, NEW l \in Nat, NEW u,
         Leaves(s, k, t), Leaves(t, l, u)
  PROVE  Leaves(s, k + l, u)
BY DEF Leaves

\* A Read returns at least one cell, from the front of what was written and not read, keeps no
\* more than the buffer holds, and leaves the rest where it was.
LEMMA ReadIs ==
  ASSUME buf \in Seq(AnyCell), net \in Seq(AnyCell), Len(buf) <= BufSize, smooth \in BOOLEAN,
         NEW want \in Nat \ {0}, NEW r \in Reads(want)
  PROVE  /\ r.data \in Seq(AnyCell) /\ Len(r.data) \in 1..want
         /\ r.buf \in Seq(AnyCell) /\ Len(r.buf) <= BufSize /\ r.net \in Seq(AnyCell)
         /\ Leaves(Stream, Len(r.data), r.buf \o r.net)
         /\ \A j \in 1..Len(r.data) : r.data[j] = Stream[j]
<1>1. Extended(buf, net, Stream) /\ Len(buf) \in Nat /\ Len(net) \in Nat /\ BufSize \in Nat \ {0}
  BY RowIs, FramingAssumption DEF Stream
<1>2. CASE buf # <<>>
  <2> DEFINE k == Least(want, Len(buf))
  <2>1. k \in 1..want /\ k <= Len(buf)
    BY <1>1, <1>2 DEF Least
  <2>2. r.data = Split(buf, k)[1] /\ r.buf = Split(buf, k)[2] /\ r.net = net
    BY <1>2 DEF Reads
  <2> HIDE DEF k
  <2>3. /\ r.data \in Seq(AnyCell) /\ Len(r.data) = k /\ \A j \in 1..k : r.data[j] = buf[j]
        /\ Leaves(buf, k, r.buf)
    BY <2>1, <2>2, CutIs, SMTT(30)
  <2>4. Leaves(Stream, k, r.buf \o r.net)
    BY <2>1, <2>2, <2>3, LeavesRow DEF Stream
  <2>5. Len(r.buf) <= BufSize
    BY <1>1, <2>1, <2>3 DEF Leaves
  <2>6. \A j \in 1..k : Stream[j] = buf[j]
    BY <1>1, <2>1 DEF Extended
  <2> QED BY <2>1, <2>2, <2>3, <2>4, <2>5, <2>6 DEF Leaves
<1>3. CASE buf = <<>>
  <2> DEFINE most == Least(IF want >= BufSize THEN want ELSE BufSize, Len(net))
             B(n) == SubSeq(net, 1, n)
             k(n) == Least(want, Len(B(n)))
  <2>1. net # <<>>
    BY <1>3 DEF Reads
  <2>2. most \in 1..Len(net) /\ most <= (IF want >= BufSize THEN want ELSE BufSize)
    BY <1>1, <2>1 DEF Least
  <2>3. PICK n \in 1..most : /\ r.data = Split(B(n), k(n))[1] /\ r.buf = Split(B(n), k(n))[2]
                             /\ r.net = Split(net, n)[2]
    BY <1>3, <2>1, <2>2 DEF Reads
  <2>4. B(n) \in Seq(AnyCell) /\ Len(B(n)) = n /\ \A j \in 1..n : B(n)[j] = net[j]
    BY <2>2
  <2>5. k(n) \in 1..n /\ k(n) <= want /\ (want >= BufSize => k(n) = n) /\ (want < BufSize => n <= BufSize)
    BY <1>1, <2>2, <2>4 DEF Least
  <2>6. Leaves(net, n, r.net)
    BY <2>2, <2>3, CutIs
  <2> DEFINE b == B(n)
             q == k(n)
  <2>7. /\ r.data = Split(b, q)[1] /\ r.buf = Split(b, q)[2] /\ b \in Seq(AnyCell) /\ Len(b) = n
        /\ q \in 1..n /\ q <= want /\ (want >= BufSize => q = n) /\ (want < BufSize => n <= BufSize)
        /\ \A j \in 1..n : b[j] = net[j]
    BY <2>3, <2>4, <2>5
  <2> HIDE DEF most, B, k, b, q
  <2>8. q \in Nat /\ q <= Len(b) /\ n \in Nat /\ n <= Len(net)
    BY <1>1, <2>2, <2>7
  <2>9. /\ r.data \in Seq(AnyCell) /\ Len(r.data) = q /\ \A j \in 1..q : r.data[j] = b[j]
        /\ Leaves(b, q, r.buf)
    BY <2>7, <2>8, CutIs
  <2>10. Stream = net
    BY <1>3, ConcatEmptySeq DEF Stream
  <2>11. Leaves(Stream, q, r.buf \o r.net)
    <3>0. r.net \in Seq(AnyCell) /\ Len(net) = n + Len(r.net) /\ Len(r.net) \in Nat
      BY <2>6 DEF Leaves
    <3> DEFINE x == b \o r.net
    <3>1. Leaves(x, q, r.buf \o r.net)
      BY <2>7, <2>8, <2>9, <3>0, LeavesRow
    <3>2. Extended(b, r.net, x)
      BY <2>7, <3>0, RowIs
    <3> HIDE DEF x
    <3>3. x = net
      <4>1. /\ x \in Seq(AnyCell) /\ Len(x) = Len(net) /\ (\A i \in 1..n : x[i] = b[i])
            /\ \A j \in 1..Len(r.net) : x[n + j] = r.net[j]
        BY <2>7, <3>0, <3>2 DEF Extended
      <4>2. \A j \in 1..Len(r.net) : r.net[j] = net[n + j]
        BY <2>6 DEF Leaves
      <4>3. ASSUME NEW i \in 1..Len(net) PROVE x[i] = net[i]
        <5>1. CASE i <= n
          BY <2>7, <2>8, <4>1, <5>1
        <5>2. CASE i > n
          <6>1. i - n \in 1..Len(r.net) /\ i = n + (i - n)
            BY <2>8, <3>0, <5>2
          <6> QED BY <4>1, <4>2, <6>1
        <5> QED BY <2>8, <5>1, <5>2
      <4> QED BY <4>1, <4>3, SeqEqual
    <3> QED BY <2>10, <3>1, <3>3
  <2>12. Len(r.buf) <= BufSize
    BY <1>1, <2>7, <2>9 DEF Leaves
  <2>13. r.buf \in Seq(AnyCell) /\ r.net \in Seq(AnyCell)
    BY <2>6, <2>9 DEF Leaves
  <2>14. Len(r.data) \in 1..want /\ \A j \in 1..Len(r.data) : r.data[j] = Stream[j]
    BY <2>7, <2>8, <2>9, <2>10
  <2> QED BY <2>9, <2>11, <2>12, <2>13, <2>14
<1> QED BY <1>2, <1>3
-----------------------------------------------------------------------------
(* Types, and what the cells on their way say of the messages written.     *)

\* Cells belong to messages that were written, and so do the messages read and returned.
ShapeOK == /\ TypeOK
           /\ encrypted \in BOOLEAN /\ smooth \in BOOLEAN /\ window \in 1..MaxWindow
           /\ buf \in Seq(AnyCell) /\ net \in Seq(AnyCell)
           /\ delivered \in Seq([msg : Nat, data : Seq(AnyCell)])
           /\ \A j \in 1..Len(Stream) : Stream[j].msg \in 1..Len(sizes)
           /\ \A i \in 1..Len(delivered) : delivered[i].msg \in 1..Len(sizes)
           /\ pc \in {"mac", "siz", "pay"} => cur \in 1..Len(sizes)

\* A Read takes from the front of the stream.
LEMMA TakeIs ==
  ASSUME ShapeOK, NEW want \in Nat \ {0}, NEW r \in Reads(want), buf' = r.buf, net' = r.net
  PROVE  /\ buf' \in Seq(AnyCell) /\ net' \in Seq(AnyCell) /\ Len(buf') <= BufSize
         /\ Leaves(Stream, Len(r.data), Stream')
         /\ r.data \in Seq(AnyCell) /\ Len(r.data) \in 1..want /\ Len(r.data) <= Len(Stream)
         /\ \A j \in 1..Len(r.data) : r.data[j] = Stream[j]
         /\ \A j \in 1..Len(Stream') : Stream'[j].msg \in 1..Len(sizes)
<1>1. /\ r.data \in Seq(AnyCell) /\ Len(r.data) \in 1..want
      /\ r.buf \in Seq(AnyCell) /\ Len(r.buf) <= BufSize /\ r.net \in Seq(AnyCell)
      /\ Leaves(Stream, Len(r.data), r.buf \o r.net)
      /\ \A j \in 1..Len(r.data) : r.data[j] = Stream[j]
  BY ReadIs DEF ShapeOK, TypeOK
<1>2. Stream' = r.buf \o r.net
  BY DEF Stream
<1>3. \A j \in 1..Len(Stream) : Stream[j].msg \in 1..Len(sizes)
  BY DEF ShapeOK
<1>4. Leaves(Stream, Len(r.data), Stream')
  BY <1>1, <1>2
<1> DEFINE t == Stream'
           k == Len(r.data)
<1> HIDE DEF t, k
<1>5. k \in Nat /\ Len(t) \in Nat /\ Len(Stream) = k + Len(t) /\ \A j \in 1..Len(t) : t[j] = Stream[k + j]
  <2>1. Leaves(Stream, k, t)
    BY <1>4 DEF t, k
  <2>2. k \in Nat
    BY <1>1 DEF k
  <2> QED BY <2>1, <2>2 DEF Leaves
<1>6. k <= Len(Stream) /\ \A j \in 1..Len(t) : t[j].msg \in 1..Len(sizes)
  BY <1>3, <1>5
<1> QED BY <1>1, <1>4, <1>6 DEF t, k

\* The iteration of the receiver forgets what was buffered.
LEMMA BeginIs ==
  ASSUME ShapeOK, Begin
  PROVE  Leaves(Stream, Len(buf), Stream') /\ Stream' = net
<1>1. Stream' = net /\ net \in Seq(AnyCell) /\ buf \in Seq(AnyCell)
  BY ConcatEmptySeq DEF Begin, Stream, ShapeOK
<1>2. Extended(buf, net, Stream)
  BY <1>1, RowIs DEF Stream
<1> QED BY <1>1, <1>2 DEF Leaves, Extended

\* A write adds the first cells of a frame, or all of them.
LEMMA PutIs ==
  ASSUME ShapeOK, NEW n \in PayloadSizes, NEW k \in 0..Len(Frame(1, n)) - 1, Put(n) \/ PutCut(n, k)
  PROVE  /\ n \in Nat /\ writer = "open" /\ writer' \in {"open", "failed"} /\ sizes' = Append(sizes, n)
         /\ \E f \in Seq(AnyCell) :
              /\ net' = net \o f /\ net' \in Seq(AnyCell) /\ Extended(Stream, f, Stream')
              /\ Len(f) <= Len(Frame(Len(sizes) + 1, n))
              /\ writer' = "open" => f = Frame(Len(sizes) + 1, n)
              /\ \A j \in 1..Len(f) : f[j] = Frame(Len(sizes) + 1, n)[j]
<1> DEFINE m == Len(sizes) + 1
           F == Frame(m, n)
<1>1. n \in Nat /\ m \in Nat
  BY FramingAssumption DEF PayloadSizes, ShapeOK, TypeOK
<1>2. F \in Seq(AnyCell) /\ Len(F) = Len(Frame(1, n)) /\ Len(F) \in Nat
  <2>1. F \in Seq(AnyCell) /\ Len(F) = HeaderLen + n
    BY <1>1, FrameIs
  <2>2. Len(Frame(1, n)) = HeaderLen + n
    BY <1>1, FrameIs
  <2> QED BY <1>1, <2>1, <2>2 DEF HeaderLen
<1> HIDE DEF F
<1>3. writer = "open" /\ writer' \in {"open", "failed"} /\ sizes' = Append(sizes, n) /\ buf' = buf
  BY DEF Put, PutCut, MayPut
<1>4. ASSUME NEW f \in Seq(AnyCell), net' = net \o f
      PROVE  net' \in Seq(AnyCell) /\ Extended(Stream, f, Stream')
  <2>1. net \in Seq(AnyCell) /\ buf \in Seq(AnyCell)
    BY DEF ShapeOK
  <2>2. buf \o (net \o f) = (buf \o net) \o f
    <3>1. \A x, y, z \in Seq(AnyCell) : (x \o y) \o z = x \o (y \o z)
      BY ConcatAssociative, SMTT(30)
    <3> QED BY <2>1, <3>1, ZenonT(20)
  <2>3. Stream' = Stream \o f
    BY <1>3, <1>4, <2>2 DEF Stream
  <2>4. Stream \in Seq(AnyCell) /\ net \o f \in Seq(AnyCell)
    BY <2>1, ConcatProperties DEF Stream
  <2> QED BY <1>4, <2>3, <2>4, RowIs
<1>5. CASE Put(n)
  <2>1. net' = net \o F
    BY <1>5 DEF Put, F
  <2>2. net' \in Seq(AnyCell) /\ Extended(Stream, F, Stream') /\ Len(F) <= Len(F)
    BY <1>2, <1>4, <2>1
  <2>3. /\ F \in Seq(AnyCell) /\ net' = net \o F /\ net' \in Seq(AnyCell) /\ Extended(Stream, F, Stream')
        /\ Len(F) <= Len(F) /\ (writer' = "open" => F = F) /\ \A j \in 1..Len(F) : F[j] = F[j]
    BY <1>2, <2>1, <2>2
  <2>4. \E f \in Seq(AnyCell) :
          /\ net' = net \o f /\ net' \in Seq(AnyCell) /\ Extended(Stream, f, Stream')
          /\ Len(f) <= Len(F) /\ (writer' = "open" => f = F) /\ \A j \in 1..Len(f) : f[j] = F[j]
    BY <2>3, Zenon
  <2> QED BY <1>1, <1>3, <2>4 DEF F
<1>6. CASE PutCut(n, k)
  <2> DEFINE f == SubSeq(F, 1, k)
  <2>1. net' = net \o f /\ writer' = "failed"
    BY <1>6 DEF PutCut, F
  <2>2. f \in Seq(AnyCell) /\ Len(f) = k /\ \A j \in 1..k : f[j] = F[j]
    BY <1>2, PartIs
  <2> HIDE DEF f
  <2>3. Len(f) <= Len(F)
    BY <1>2, <2>2
  <2> QED BY <1>1, <1>3, <1>4, <2>1, <2>2, <2>3 DEF F
<1> QED BY <1>5, <1>6

\* The fields of a frame by their places.
LEMMA FramePlaces ==
  ASSUME NEW m \in Nat, NEW n \in Nat, NEW j \in 1..Len(Frame(m, n))
  PROVE  /\ Frame(m, n)[j].msg = m
         /\ (Frame(m, n)[j].field = "pre" <=> j <= 2)
         /\ (Frame(m, n)[j].field = "siz" /\ Frame(m, n)[j].part = 2 <=> j = HeaderLen)
<1>1. /\ Len(Frame(m, n)) = HeaderLen + n /\ HeaderPlaces(m)
      /\ \A i \in 1..HeaderLen : Frame(m, n)[i] = Header(m)[i]
      /\ \A i \in 1..n : Frame(m, n)[HeaderLen + i] = Cell(m, "pay", i)
  BY FrameIs
<1>2. CASE j <= HeaderLen
  <2>1. Frame(m, n)[j] = Header(m)[j]
    BY <1>1, <1>2
  <2>2. CASE encrypted
    <3>1. j \in 1..8 /\ HeaderLen = 8
      BY <1>2, <2>2 DEF HeaderLen
    <3> QED BY <1>1, <2>1, <2>2, <3>1 DEF HeaderPlaces, Cell
  <2>3. CASE ~encrypted
    <3>1. j \in 1..6 /\ HeaderLen = 6
      BY <1>2, <2>3 DEF HeaderLen
    <3> QED BY <1>1, <2>1, <2>3, <3>1 DEF HeaderPlaces, Cell
  <2> QED BY <2>2, <2>3
<1>3. CASE j > HeaderLen
  <2>1. HeaderLen \in {6, 8}
    BY DEF HeaderLen
  <2>2. j - HeaderLen \in 1..n /\ j = HeaderLen + (j - HeaderLen)
    BY <1>1, <1>3, <2>1
  <2>3. Frame(m, n)[j] = Cell(m, "pay", j - HeaderLen)
    BY <1>1, <2>2
  <2> QED BY <1>3, <2>1, <2>3 DEF Cell
<1>4. HeaderLen \in Nat
  BY DEF HeaderLen
<1> QED BY <1>2, <1>3, <1>4

\* Every cell of a frame is its message's.
LEMMA FrameMsg ==
  ASSUME NEW m \in Nat, NEW n \in Nat, NEW j \in 1..Len(Frame(m, n))
  PROVE  Frame(m, n)[j].msg = m
<1>1. /\ Frame(m, n)[j].msg = m
      /\ (Frame(m, n)[j].field = "pre" <=> j <= 2)
      /\ (Frame(m, n)[j].field = "siz" /\ Frame(m, n)[j].part = 2 <=> j = HeaderLen)
  BY FramePlaces, ZenonT(30)
<1> QED BY <1>1

\* A write adds cells of a new message only.
LEMMA PutShape ==
  ASSUME ShapeOK, NEW n \in PayloadSizes, NEW k \in 0..Len(Frame(1, n)) - 1, Put(n) \/ PutCut(n, k)
  PROVE  ShapeOK'
<1>1. /\ n \in Nat /\ sizes' = Append(sizes, n) /\ writer' \in {"open", "failed"}
  BY PutIs
<1>2. PICK f \in Seq(AnyCell) :
        /\ net' \in Seq(AnyCell) /\ Extended(Stream, f, Stream')
        /\ Len(f) <= Len(Frame(Len(sizes) + 1, n)) /\ \A j \in 1..Len(f) : f[j] = Frame(Len(sizes) + 1, n)[j]
  BY PutIs
<1>3. /\ Len(sizes) < MaxMsgs /\ UNCHANGED <<encrypted, smooth, window, buf, pc, due, cur, macOK, size, delivered>>
  BY DEF Put, PutCut, MayPut, fixed
<1>4. /\ sizes \in Seq(PayloadSizes) /\ sizes' \in Seq(PayloadSizes) /\ Len(sizes) \in Nat
      /\ Len(sizes') = Len(sizes) + 1 /\ Len(sizes) + 1 \in Nat
  <2>1. sizes \in Seq(PayloadSizes)
    BY DEF ShapeOK, TypeOK
  <2> QED BY <1>1, <2>1
<1>5. PayloadSizes' = PayloadSizes
  BY <1>3 DEF PayloadSizes
<1>6. \A j \in 1..Len(Stream') : Stream'[j].msg \in 1..Len(sizes')
  <2> DEFINE t == Stream'
             L == Len(sizes)
  <2>0. \A j \in 1..Len(Stream) : Stream[j].msg \in 1..Len(sizes)
    BY DEF ShapeOK
  <2>1. /\ Len(t) = Len(Stream) + Len(f) /\ Len(Stream) \in Nat /\ Len(f) \in Nat
        /\ (\A j \in 1..Len(Stream) : t[j] = Stream[j]) /\ \A j \in 1..Len(f) : t[Len(Stream) + j] = f[j]
    <3>1. Stream \in Seq(AnyCell)
      <4>1. Extended(buf, net, Stream)
        BY RowIs DEF ShapeOK, Stream
      <4> QED BY <4>1 DEF Extended
    <3>2. Len(Stream) \in Nat /\ Len(f) \in Nat
      BY <3>1
    <3> QED BY <1>2, <3>2 DEF Extended
  <2>2. \A j \in 1..Len(f) : f[j].msg = L + 1
    <3>1. ASSUME NEW j \in 1..Len(f) PROVE f[j].msg = L + 1
      <4>1. j \in 1..Len(Frame(L + 1, n)) /\ f[j] = Frame(L + 1, n)[j]
        <5>1. Len(Frame(L + 1, n)) \in Nat
          BY <1>1, <1>4, FrameIs
        <5> QED BY <1>2, <5>1
      <4>2. Frame(L + 1, n)[j].msg = L + 1
        BY <1>1, <1>4, <4>1, FrameMsg
      <4> QED BY <4>1, <4>2
    <3> QED BY <3>1
  <2> HIDE DEF t
  <2>3. ASSUME NEW j \in 1..Len(t) PROVE t[j].msg \in 1..(L + 1)
    <3>1. CASE j <= Len(Stream)
      BY <1>4, <2>0, <2>1, <3>1
    <3>2. CASE j > Len(Stream)
      <4>1. j - Len(Stream) \in 1..Len(f) /\ j = Len(Stream) + (j - Len(Stream))
        BY <2>1, <3>2
      <4>2. t[j].msg = L + 1
        BY <2>1, <2>2, <4>1
      <4> QED BY <1>4, <4>2
    <3> QED BY <2>1, <3>1, <3>2
  <2> QED BY <1>4, <2>3 DEF t
<1>7. TypeOK'
  <2>1. /\ pc \in {"loop", "pre", "typ", "mac", "siz", "pay", "dead"} /\ due \in BOOLEAN /\ macOK \in BOOLEAN
        /\ cur \in 0..Len(sizes) /\ size \in 0..MaxPayload /\ Len(buf) <= BufSize
    BY DEF ShapeOK, TypeOK
  <2>2. cur' \in 0..Len(sizes') /\ Len(sizes') <= MaxMsgs
    BY <1>3, <1>4, <2>1, FramingAssumption
  <2> QED BY <1>1, <1>3, <1>4, <1>5, <2>1, <2>2 DEF TypeOK
<1>8. /\ \A i \in 1..Len(delivered') : delivered'[i].msg \in 1..Len(sizes')
      /\ pc' \in {"mac", "siz", "pay"} => cur' \in 1..Len(sizes')
  <2>1. /\ \A i \in 1..Len(delivered) : delivered[i].msg \in 1..Len(sizes)
        /\ pc \in {"mac", "siz", "pay"} => cur \in 1..Len(sizes)
    BY DEF ShapeOK
  <2>2. 1..Len(sizes) \subseteq 1..Len(sizes')
    BY <1>4
  <2>3. delivered' = delivered /\ pc' = pc /\ cur' = cur
    BY <1>3
  <2> QED BY <2>1, <2>2, <2>3
<1>9. /\ encrypted' \in BOOLEAN /\ smooth' \in BOOLEAN /\ window' \in 1..MaxWindow
      /\ buf' \in Seq(AnyCell) /\ delivered' \in Seq([msg : Nat, data : Seq(AnyCell)])
  BY <1>3 DEF ShapeOK
<1> QED BY <1>2, <1>6, <1>7, <1>8, <1>9 DEF ShapeOK

\* What a step of the reader has to keep.
LEMMA ReaderShape ==
  ASSUME ShapeOK, UNCHANGED <<fixed, sizes, writer>>,
         buf' \in Seq(AnyCell), net' \in Seq(AnyCell), Len(buf') <= BufSize,
         \A j \in 1..Len(Stream') : Stream'[j].msg \in 1..Len(sizes),
         pc' \in {"loop", "pre", "typ", "mac", "siz", "pay", "dead"}, due' \in BOOLEAN, macOK' \in BOOLEAN,
         cur' \in 0..Len(sizes), pc' \in {"mac", "siz", "pay"} => cur' \in 1..Len(sizes),
         size' \in 0..MaxPayload, delivered' \in Seq([msg : Nat, data : Seq(AnyCell)]),
         \A i \in 1..Len(delivered') : delivered'[i].msg \in 1..Len(sizes)
  PROVE  ShapeOK'
<1>1. /\ sizes' = sizes /\ writer' = writer /\ encrypted' = encrypted /\ smooth' = smooth /\ window' = window
      /\ PayloadSizes' = PayloadSizes
  BY DEF fixed, PayloadSizes
<1>2. /\ sizes \in Seq(PayloadSizes) /\ Len(sizes) <= MaxMsgs /\ writer \in {"open", "failed"}
      /\ encrypted \in BOOLEAN /\ smooth \in BOOLEAN /\ window \in 1..MaxWindow
  BY DEF ShapeOK, TypeOK
<1>3. TypeOK'
  BY <1>1, <1>2 DEF TypeOK
<1> DEFINE t == Stream'
<1>4. \A j \in 1..Len(t) : t[j].msg \in 1..Len(sizes')
  BY <1>1
<1> QED BY <1>1, <1>2, <1>3, <1>4 DEF ShapeOK

\* A message is returned with the cells that were read as its payload.
LEMMA FinishIs ==
  ASSUME ShapeOK, pc = "pay", NEW data \in Seq(AnyCell), Finish(data)
  PROVE  /\ pc' \in {"loop", "dead"}
         /\ delivered' \in Seq([msg : Nat, data : Seq(AnyCell)])
         /\ \/ UNCHANGED delivered /\ pc' = "dead"
            \/ /\ pc' = "loop" /\ Len(delivered') = Len(delivered) + 1
               /\ \A i \in 1..Len(delivered) : delivered'[i] = delivered[i]
               /\ delivered'[Len(delivered')] = [msg |-> cur, data |-> data]
               /\ encrypted => macOK /\ data = Payload(cur, sizes[cur])
<1>1. delivered \in Seq([msg : Nat, data : Seq(AnyCell)]) /\ cur \in Nat
  BY DEF ShapeOK, TypeOK
<1>2. [msg |-> cur, data |-> data] \in [msg : Nat, data : Seq(AnyCell)]
  BY <1>1
<1>3. CASE UNCHANGED delivered /\ pc' = "dead"
  BY <1>1, <1>3
<1>4. CASE /\ pc' = "loop" /\ delivered' = Append(delivered, [msg |-> cur, data |-> data])
           /\ encrypted => macOK /\ data = Payload(cur, sizes[cur])
  BY <1>1, <1>2, <1>4
<1> QED BY <1>3, <1>4 DEF Finish

\* Every step keeps the types and the messages of the cells.
LEMMA ShapeStep == ShapeOK /\ Next => ShapeOK'
<1> SUFFICES ASSUME ShapeOK, Next PROVE ShapeOK'
  OBVIOUS
<1> DEFINE CellsOK == \A j \in 1..Len(Stream) : Stream[j].msg \in 1..Len(sizes)
           ReadOK == \A i \in 1..Len(delivered) : delivered[i].msg \in 1..Len(sizes)
<1>1. ASSUME NEW n \in PayloadSizes,
             Put(n) \/ \E k \in 0..Len(Frame(1, n)) - 1 : PutCut(n, k)
      PROVE  ShapeOK'
  <2>1. 0 \in 0..Len(Frame(1, n)) - 1
    BY SomeCut
  <2> QED BY <1>1, <2>1, PutShape
<1>0. /\ buf \in Seq(AnyCell) /\ net \in Seq(AnyCell) /\ Len(buf) <= BufSize /\ CellsOK /\ ReadOK
      /\ pc \in {"loop", "pre", "typ", "mac", "siz", "pay", "dead"} /\ due \in BOOLEAN /\ macOK \in BOOLEAN
      /\ cur \in 0..Len(sizes) /\ (pc \in {"mac", "siz", "pay"} => cur \in 1..Len(sizes))
      /\ size \in 0..MaxPayload /\ delivered \in Seq([msg : Nat, data : Seq(AnyCell)])
      /\ sizes \in Seq(PayloadSizes)
  BY DEF ShapeOK, TypeOK
<1>2. CASE Begin
  <2>1. Stream' = net
    BY <1>2, BeginIs
  <2>2. \A j \in 1..Len(net) : net[j].msg \in 1..Len(sizes)
    <3>1. Extended(buf, net, Stream) /\ Len(buf) \in Nat /\ Len(net) \in Nat
      BY <1>0, RowIs DEF Stream
    <3>2. \A j \in 1..Len(net) : net[j] = Stream[Len(buf) + j] /\ Len(buf) + j \in 1..Len(Stream)
      BY <3>1 DEF Extended
    <3> QED BY <1>0, <3>2
  <2>3. /\ UNCHANGED <<fixed, sizes, writer, net, cur, macOK, size, delivered>>
        /\ buf' = <<>> /\ due' = FALSE /\ pc' = "pre"
    BY <1>2 DEF Begin
  <2>4. buf' \in Seq(AnyCell) /\ Len(buf') <= BufSize
    BY <2>3, FramingAssumption
  <2>5. \A j \in 1..Len(Stream') : Stream'[j].msg \in 1..Len(sizes)
    BY <2>1, <2>2
  <2> QED BY <1>0, <2>3, <2>4, <2>5, ReaderShape
<1>3. CASE ReadPreamble
  <2>1. PICK r \in Reads(2) : buf' = r.buf /\ net' = r.net
    BY <1>3 DEF ReadPreamble
  <2>2. buf' \in Seq(AnyCell) /\ net' \in Seq(AnyCell) /\ Len(buf') <= BufSize
        /\ \A j \in 1..Len(Stream') : Stream'[j].msg \in 1..Len(sizes)
    BY <2>1, TakeIs
  <2>3. UNCHANGED <<fixed, sizes, writer, due, cur, macOK, size, delivered>> /\ pc' \in {"typ", "dead"}
    BY <1>3 DEF ReadPreamble
  <2> QED BY <1>0, <2>2, <2>3, ReaderShape
<1>4. CASE ReadType
  <2>1. PICK r \in Reads(2) : buf' = r.buf /\ net' = r.net /\ cur' = r.data[1].msg
    BY <1>4 DEF ReadType
  <2>2. UNCHANGED <<fixed, sizes, writer, due, macOK, size, delivered>> /\ pc' \in {"mac", "siz", "dead"}
    BY <1>4 DEF ReadType
  <2>3. buf' \in Seq(AnyCell) /\ net' \in Seq(AnyCell) /\ Len(buf') <= BufSize
        /\ \A j \in 1..Len(Stream') : Stream'[j].msg \in 1..Len(sizes)
    BY <2>1, TakeIs
  <2>6. Len(r.data) \in 1..2 /\ Len(r.data) <= Len(Stream) /\ \A j \in 1..Len(r.data) : r.data[j] = Stream[j]
    <3>1. 2 \in Nat \ {0} /\ buf' = r.buf /\ net' = r.net
      BY <2>1
    <3> QED BY <3>1, TakeIs
  <2>4. cur' \in 1..Len(sizes)
    <3>1. Len(Stream) \in Nat
      <4>1. Extended(buf, net, Stream)
        BY <1>0, RowIs DEF Stream
      <4> QED BY <4>1 DEF Extended
    <3>2. r.data[1] = Stream[1] /\ 1 \in 1..Len(Stream)
      BY <2>6, <3>1
    <3> QED BY <1>0, <2>1, <3>2
  <2>5. cur' \in 0..Len(sizes)
    BY <1>0, <2>4
  <2> QED BY <1>0, <2>2, <2>3, <2>4, <2>5, ReaderShape
<1>5. CASE ReadHmacSize
  <2>1. PICK r \in Reads(2) : buf' = r.buf /\ net' = r.net /\ macOK' = (r.data = Field(cur, "mac"))
    BY <1>5 DEF ReadHmacSize
  <2>2. UNCHANGED <<fixed, sizes, writer, due, cur, size, delivered>> /\ pc = "mac" /\ pc' = "siz"
    BY <1>5 DEF ReadHmacSize
  <2>3. buf' \in Seq(AnyCell) /\ net' \in Seq(AnyCell) /\ Len(buf') <= BufSize
        /\ \A j \in 1..Len(Stream') : Stream'[j].msg \in 1..Len(sizes)
    BY <2>1, TakeIs
  <2>4. macOK' \in BOOLEAN
    BY <2>1
  <2> QED BY <1>0, <2>2, <2>3, <2>4, ReaderShape
<1>6. CASE ReadSize
  <2>1. PICK r \in Reads(2) : buf' = r.buf /\ net' = r.net /\ size' \in {0, sizes[cur]}
    BY <1>6 DEF ReadSize
  <2>2. UNCHANGED <<fixed, sizes, writer, due, cur, macOK, delivered>> /\ pc = "siz" /\ pc' \in {"pay", "dead"}
    BY <1>6 DEF ReadSize
  <2>3. buf' \in Seq(AnyCell) /\ net' \in Seq(AnyCell) /\ Len(buf') <= BufSize
        /\ \A j \in 1..Len(Stream') : Stream'[j].msg \in 1..Len(sizes)
    BY <2>1, TakeIs
  <2>4. size' \in 0..MaxPayload
    <3>1. sizes[cur] \in PayloadSizes
      BY <1>0, <2>2
    <3> QED BY <2>1, <3>1, FramingAssumption DEF PayloadSizes
  <2> QED BY <1>0, <2>2, <2>3, <2>4, ReaderShape
<1>7. ASSUME NEW data \in Seq(AnyCell), pc = "pay", Finish(data) \/ (pc' = "dead" /\ UNCHANGED delivered)
      PROVE  /\ pc' \in {"loop", "dead"} /\ delivered' \in Seq([msg : Nat, data : Seq(AnyCell)])
             /\ \A i \in 1..Len(delivered') : delivered'[i].msg \in 1..Len(sizes)
  <2>1. CASE Finish(data)
    <3>1. /\ pc' \in {"loop", "dead"} /\ delivered' \in Seq([msg : Nat, data : Seq(AnyCell)])
          /\ \/ UNCHANGED delivered
             \/ /\ Len(delivered') = Len(delivered) + 1
                /\ \A i \in 1..Len(delivered) : delivered'[i] = delivered[i]
                /\ delivered'[Len(delivered')].msg = cur
      <4>1. /\ pc' \in {"loop", "dead"} /\ delivered' \in Seq([msg : Nat, data : Seq(AnyCell)])
            /\ \/ UNCHANGED delivered /\ pc' = "dead"
               \/ /\ pc' = "loop" /\ Len(delivered') = Len(delivered) + 1
                  /\ \A i \in 1..Len(delivered) : delivered'[i] = delivered[i]
                  /\ delivered'[Len(delivered')] = [msg |-> cur, data |-> data]
                  /\ encrypted => macOK /\ data = Payload(cur, sizes[cur])
        BY <1>7, <2>1, FinishIs, Zenon
      <4> QED BY <4>1
    <3>2. Len(delivered) \in Nat
      BY <1>0
    <3>3. CASE UNCHANGED delivered
      BY <1>0, <3>1, <3>3
    <3>4. CASE /\ Len(delivered') = Len(delivered) + 1
               /\ \A i \in 1..Len(delivered) : delivered'[i] = delivered[i]
               /\ delivered'[Len(delivered')].msg = cur
      <4>1. ASSUME NEW i \in 1..Len(delivered') PROVE delivered'[i].msg \in 1..Len(sizes)
        <5>1. CASE i = Len(delivered')
          BY <1>0, <1>7, <3>4, <5>1
        <5>2. CASE i # Len(delivered')
          <6>1. i \in 1..Len(delivered)
            BY <3>2, <3>4, <5>2
          <6> QED BY <1>0, <3>4, <6>1
        <5> QED BY <5>1, <5>2
      <4> QED BY <3>1, <4>1
    <3> QED BY <3>1, <3>3, <3>4
  <2>2. CASE pc' = "dead" /\ UNCHANGED delivered
    BY <1>0, <2>2
  <2> QED BY <1>7, <2>1, <2>2
<1>8. CASE ReadPayload
  <2>1. PICK r \in Reads(size) : /\ buf' = r.buf /\ net' = r.net
                                 /\ Finish(r.data) \/ (pc' = "dead" /\ UNCHANGED delivered)
    <3>1. PICK r \in Reads(size) :
            /\ buf' = r.buf /\ net' = r.net
            /\ IF Len(r.data) = size THEN Finish(r.data) ELSE pc' = "dead" /\ UNCHANGED delivered
      BY <1>8, Zenon DEF ReadPayload
    <3>2. Finish(r.data) \/ (pc' = "dead" /\ UNCHANGED delivered)
      <4>1. CASE Len(r.data) = size
        BY <3>1, <4>1, Zenon
      <4>2. CASE Len(r.data) # size
        BY <3>1, <4>2, Zenon
      <4> QED BY <4>1, <4>2, Zenon
    <3> QED BY <3>1, <3>2, Zenon
  <2>2. /\ UNCHANGED <<fixed, sizes, writer, due, cur, macOK, size>> /\ pc = "pay" /\ size > 0
    BY <1>8 DEF ReadPayload
  <2>3. size \in Nat \ {0}
    BY <1>0, <2>2
  <2>4. /\ buf' \in Seq(AnyCell) /\ net' \in Seq(AnyCell) /\ Len(buf') <= BufSize
        /\ (\A j \in 1..Len(Stream') : Stream'[j].msg \in 1..Len(sizes))
        /\ r.data \in Seq(AnyCell)
    BY <2>1, <2>2, <2>3, TakeIs
  <2>5. /\ pc' \in {"loop", "dead"} /\ delivered' \in Seq([msg : Nat, data : Seq(AnyCell)])
        /\ \A i \in 1..Len(delivered') : delivered'[i].msg \in 1..Len(sizes)
    BY <1>7, <2>1, <2>2, <2>4
  <2> QED BY <1>0, <2>2, <2>4, <2>5, ReaderShape
<1>11. ASSUME UNCHANGED <<net, buf>> PROVE \A j \in 1..Len(Stream') : Stream'[j].msg \in 1..Len(sizes)
  <2>1. Stream' = Stream
    BY <1>11 DEF Stream
  <2> QED BY <1>0, <2>1
<1>9. CASE ReadNoPayload
  <2>1. /\ UNCHANGED <<fixed, sizes, writer, net, buf, due, cur, macOK, size>> /\ pc = "pay" /\ Finish(<<>>)
    BY <1>9 DEF ReadNoPayload
  <2>2. <<>> \in Seq(AnyCell)
    OBVIOUS
  <2>3. /\ pc' \in {"loop", "dead"} /\ delivered' \in Seq([msg : Nat, data : Seq(AnyCell)])
        /\ \A i \in 1..Len(delivered') : delivered'[i].msg \in 1..Len(sizes)
    BY <1>7, <2>1, <2>2, Zenon
  <2>4. \A j \in 1..Len(Stream') : Stream'[j].msg \in 1..Len(sizes)
    BY <1>11, <2>1
  <2> QED BY <1>0, <2>1, <2>3, <2>4, ReaderShape
<1>10. CASE ReadPreambleFails \/ ReadTypeFails \/ ReadHmacSizeFails \/ ReadSizeFails \/ ReadPayloadFails \/ DeadlinePasses
  <2>1. UNCHANGED <<fixed, sizes, writer, net, buf, cur, delivered>>
    BY <1>10 DEF ReadPreambleFails, ReadTypeFails, ReadHmacSizeFails, ReadSizeFails, ReadPayloadFails, DeadlinePasses
  <2>2. due' \in BOOLEAN /\ macOK' \in BOOLEAN
    BY <1>0, <1>10 DEF ReadPreambleFails, ReadTypeFails, ReadHmacSizeFails, ReadSizeFails, ReadPayloadFails, DeadlinePasses
  <2>3. size' \in 0..MaxPayload
    BY <1>0, <1>10, FramingAssumption DEF ReadPreambleFails, ReadTypeFails, ReadHmacSizeFails, ReadSizeFails,
       ReadPayloadFails, DeadlinePasses
  <2>4. \/ pc' = pc \/ pc' \in {"loop", "dead"} \/ (pc \in {"mac", "siz"} /\ pc' \in {"siz", "pay"})
    BY <1>10 DEF ReadPreambleFails, ReadTypeFails, ReadHmacSizeFails, ReadSizeFails, ReadPayloadFails, DeadlinePasses
  <2>5. \A j \in 1..Len(Stream') : Stream'[j].msg \in 1..Len(sizes)
    BY <1>11, <2>1
  <2>6. /\ pc' \in {"loop", "pre", "typ", "mac", "siz", "pay", "dead"}
        /\ pc' \in {"mac", "siz", "pay"} => cur' \in 1..Len(sizes)
    BY <1>0, <2>1, <2>4
  <2> QED BY <1>0, <2>1, <2>2, <2>3, <2>5, <2>6, ReaderShape
<1> QED BY <1>1, <1>2, <1>3, <1>4, <1>5, <1>6, <1>8, <1>9, <1>10 DEF Next

\* In every reachable state the types and the messages of the cells are right.
LEMMA ShapeInvariant == Spec => []ShapeOK
<1>1. Init => ShapeOK
  <2> SUFFICES ASSUME Init PROVE ShapeOK
    OBVIOUS
  <2>1. /\ encrypted \in BOOLEAN /\ smooth \in BOOLEAN /\ window \in 1..MaxWindow
    BY FramingAssumption DEF Init
  <2>2. TypeOK
    <3>1. /\ sizes = <<>> /\ writer = "open" /\ buf = <<>> /\ pc = "loop" /\ due = FALSE /\ cur = 0
          /\ macOK = FALSE /\ size = 0
      BY DEF Init
    <3>2. sizes \in Seq(PayloadSizes) /\ Len(sizes) = 0 /\ Len(buf) = 0
      BY <3>1
    <3>3. MaxMsgs \in Nat /\ MaxPayload \in Nat /\ BufSize \in Nat
      BY FramingAssumption
    <3>4. cur \in 0..Len(sizes) /\ size \in 0..MaxPayload /\ Len(buf) <= BufSize /\ Len(sizes) <= MaxMsgs
      BY <3>1, <3>2, <3>3
    <3>5. due \in BOOLEAN /\ macOK \in BOOLEAN
      BY <3>1
    <3> QED BY <3>1, <3>2, <3>4, <3>5 DEF TypeOK
  <2>3. Stream = <<>>
    BY DEF Init, Stream
  <2>4. Len(Stream) = 0 /\ Len(delivered) = 0 /\ pc = "loop"
    BY <2>3 DEF Init
  <2>5. buf \in Seq(AnyCell) /\ net \in Seq(AnyCell) /\ delivered \in Seq([msg : Nat, data : Seq(AnyCell)])
    BY DEF Init
  <2> QED BY <2>1, <2>2, <2>4, <2>5 DEF ShapeOK
<1>2. ShapeOK /\ [Next]_vars => ShapeOK'
  <2> SUFFICES ASSUME ShapeOK, [Next]_vars PROVE ShapeOK'
    OBVIOUS
  <2>1. CASE Next
    BY <2>1, ShapeStep
  <2>2. CASE UNCHANGED vars
    <3>1. /\ UNCHANGED <<fixed, sizes, writer>> /\ UNCHANGED <<net, buf, pc, due, cur, macOK, size, delivered>>
      BY <2>2 DEF vars, fixed
    <3>2. Stream' = Stream
      BY <3>1 DEF Stream
    <3>3. /\ buf \in Seq(AnyCell) /\ net \in Seq(AnyCell) /\ Len(buf) <= BufSize
          /\ (\A j \in 1..Len(Stream) : Stream[j].msg \in 1..Len(sizes))
          /\ pc \in {"loop", "pre", "typ", "mac", "siz", "pay", "dead"} /\ due \in BOOLEAN /\ macOK \in BOOLEAN
          /\ cur \in 0..Len(sizes) /\ (pc \in {"mac", "siz", "pay"} => cur \in 1..Len(sizes))
          /\ size \in 0..MaxPayload /\ delivered \in Seq([msg : Nat, data : Seq(AnyCell)])
          /\ \A i \in 1..Len(delivered) : delivered[i].msg \in 1..Len(sizes)
      BY DEF ShapeOK, TypeOK
    <3> QED BY <3>1, <3>2, <3>3, ReaderShape
  <2> QED BY <2>1, <2>2
<1> QED BY <1>1, <1>2, PTL DEF Spec

\* The values stay in their types: the reader reads a message that was written, and the buffer
\* holds no more than its size.
THEOREM TypeCorrect == Spec => []TypeOK
<1>1. ShapeOK => TypeOK
  BY DEF ShapeOK
<1> QED BY <1>1, ShapeInvariant, PTL

-----------------------------------------------------------------------------
(* Order. *)

\* The stream goes through the messages in the order they were written, and the preamble of a
\* message comes before the rest of it.
Precedes(c, d) == c.msg <= d.msg /\ (d.field = "pre" => c.field = "pre" \/ c.msg < d.msg)
Orderly(s)     == \A i, j \in 1..Len(s) : i < j => Precedes(s[i], s[j])

\* What is left of s is behind the preamble of m; it is behind m altogether.
Passed(m, s) == \A j \in 1..Len(s) : m <= s[j].msg /\ (s[j].field = "pre" => m < s[j].msg)
Past(m, s)   == \A j \in 1..Len(s) : m < s[j].msg

\* The stream, and how many cells it has.
LEMMA StreamIs == ASSUME ShapeOK PROVE Stream \in Seq(AnyCell) /\ Len(Stream) \in Nat
<1>1. Extended(buf, net, Stream)
  BY RowIs DEF ShapeOK, Stream
<1> QED BY <1>1 DEF Extended

\* The message of a cell.
LEMMA CellMsg == ASSUME NEW s \in Seq(AnyCell), NEW j \in 1..Len(s) PROVE s[j].msg \in Nat
<1>1. s[j] \in AnyCell
  OBVIOUS
<1> QED BY <1>1 DEF AnyCell

\* Nothing is taken.
LEMMA LeavesNone == ASSUME NEW s \in Seq(AnyCell) PROVE Leaves(s, 0, s)
BY DEF Leaves

\* Taking from the front keeps the order.
LEMMA OrderLeaves ==
  ASSUME NEW s \in Seq(AnyCell), NEW k \in Nat, NEW t, Leaves(s, k, t)
  PROVE  /\ Orderly(s) => Orderly(t)
         /\ \A m \in Nat : (Passed(m, s) => Passed(m, t)) /\ (Past(m, s) => Past(m, t))
<1>1. Len(t) \in Nat /\ Len(s) = k + Len(t) /\ \A j \in 1..Len(t) : t[j] = s[k + j] /\ k + j \in 1..Len(s)
  BY DEF Leaves
<1>2. ASSUME Orderly(s), NEW i \in 1..Len(t), NEW j \in 1..Len(t), i < j PROVE Precedes(t[i], t[j])
  <2>1. k + i \in 1..Len(s) /\ k + j \in 1..Len(s) /\ k + i < k + j
    BY <1>1, <1>2
  <2>2. Precedes(s[k + i], s[k + j])
    BY <1>2, <2>1 DEF Orderly
  <2> QED BY <1>1, <2>2
<1>3. Orderly(s) => Orderly(t)
  BY <1>2 DEF Orderly
<1>4. ASSUME NEW m \in Nat PROVE (Passed(m, s) => Passed(m, t)) /\ (Past(m, s) => Past(m, t))
  BY <1>1 DEF Passed, Past
<1> QED BY <1>3, <1>4

\* A new message behind the others keeps the order.
LEMMA OrderExtended ==
  ASSUME NEW s \in Seq(AnyCell), NEW f \in Seq(AnyCell), NEW t, Extended(s, f, t), NEW l \in Nat,
         \A j \in 1..Len(s) : s[j].msg \in 1..l,
         \A j \in 1..Len(f) : f[j].msg = l + 1 /\ (f[j].field = "pre" <=> j <= 2)
  PROVE  /\ Orderly(s) => Orderly(t)
         /\ \A m \in 0..l : (Passed(m, s) => Passed(m, t)) /\ (Past(m, s) => Past(m, t))
<1>1. /\ Len(s) \in Nat /\ Len(f) \in Nat /\ Len(t) = Len(s) + Len(f)
      /\ \A j \in 1..Len(s) : t[j] = s[j]
      /\ \A j \in 1..Len(f) : t[Len(s) + j] = f[j]
  BY DEF Extended
<1>2. ASSUME NEW j \in 1..Len(t)
      PROVE  \/ j \in 1..Len(s) /\ t[j] = s[j] /\ t[j].msg \in 1..l
             \/ j - Len(s) \in 1..Len(f) /\ t[j] = f[j - Len(s)] /\ t[j].msg = l + 1
                /\ (t[j].field = "pre" <=> j - Len(s) <= 2)
  <2>1. CASE j <= Len(s)
    BY <1>1, <2>1
  <2>2. CASE j > Len(s)
    <3>1. j - Len(s) \in 1..Len(f) /\ j = Len(s) + (j - Len(s))
      BY <1>1, <2>2
    <3>2. t[j] = f[j - Len(s)]
      BY <1>1, <3>1
    <3> QED BY <3>1, <3>2
  <2> QED BY <1>1, <2>1, <2>2
<1>3. ASSUME Orderly(s), NEW i \in 1..Len(t), NEW j \in 1..Len(t), i < j PROVE Precedes(t[i], t[j])
  <2>1. CASE j \in 1..Len(s)
    <3>1. i \in 1..Len(s) /\ t[i] = s[i] /\ t[j] = s[j]
      BY <1>1, <1>3, <2>1
    <3> QED BY <1>3, <2>1, <3>1 DEF Orderly
  <2>2. CASE j \notin 1..Len(s)
    <3>1. t[j].msg = l + 1 /\ (t[j].field = "pre" <=> j - Len(s) <= 2)
      BY <1>2, <2>2
    <3>2. CASE i \in 1..Len(s)
      <4>1. t[i].msg \in 1..l
        BY <1>1, <3>2
      <4> QED BY <3>1, <4>1 DEF Precedes
    <3>3. CASE i \notin 1..Len(s)
      <4>1. t[i].msg = l + 1 /\ (t[i].field = "pre" <=> i - Len(s) <= 2)
        BY <1>2, <3>3
      <4> QED BY <1>1, <1>3, <3>1, <4>1 DEF Precedes
    <3> QED BY <3>2, <3>3
  <2> QED BY <2>1, <2>2
<1>4. Orderly(s) => Orderly(t)
  BY <1>3 DEF Orderly
<1>5. ASSUME NEW m \in 0..l PROVE (Passed(m, s) => Passed(m, t)) /\ (Past(m, s) => Past(m, t))
  <2>1. ASSUME Passed(m, s), NEW j \in 1..Len(t) PROVE m <= t[j].msg /\ (t[j].field = "pre" => m < t[j].msg)
    BY <1>2, <2>1, SMTT(30) DEF Passed
  <2>2. ASSUME Past(m, s), NEW j \in 1..Len(t) PROVE m < t[j].msg
    BY <1>2, <2>2 DEF Past
  <2> QED BY <2>1, <2>2 DEF Passed, Past
<1> QED BY <1>4, <1>5
\* A write: what it adds behind the stream, cell by cell.
WrittenCells(f, m, n) ==
  \A j \in 1..Len(f) : /\ f[j].msg = m
                       /\ (f[j].field = "pre" <=> j <= 2)
                       /\ (f[j].field = "siz" /\ f[j].part = 2 <=> j = HeaderLen)
                       /\ (j > HeaderLen => f[j] = Cell(m, "pay", j - HeaderLen))

\* The cells of a frame.
LEMMA FrameWritten ==
  ASSUME NEW m \in Nat, NEW n \in Nat, NEW f \in Seq(AnyCell), Len(f) <= Len(Frame(m, n)),
         \A j \in 1..Len(f) : f[j] = Frame(m, n)[j]
  PROVE  WrittenCells(f, m, n) /\ Len(f) <= HeaderLen + n
<1>1. Len(Frame(m, n)) = HeaderLen + n /\ HeaderLen \in Nat /\ HeaderLen + n \in Nat
      /\ \A i \in 1..n : Frame(m, n)[HeaderLen + i] = Cell(m, "pay", i)
  <2>1. HeaderLen \in Nat /\ HeaderLen + n \in Nat
    BY DEF HeaderLen
  <2> QED BY <2>1, FrameIs
<1>2. ASSUME NEW j \in 1..Len(f)
      PROVE  /\ f[j].msg = m
             /\ (f[j].field = "pre" <=> j <= 2)
             /\ (f[j].field = "siz" /\ f[j].part = 2 <=> j = HeaderLen)
             /\ (j > HeaderLen => f[j] = Cell(m, "pay", j - HeaderLen))
  <2>1. j \in 1..Len(Frame(m, n)) /\ f[j] = Frame(m, n)[j]
    BY <1>1
  <2>2. /\ Frame(m, n)[j].msg = m
        /\ (Frame(m, n)[j].field = "pre" <=> j <= 2)
        /\ (Frame(m, n)[j].field = "siz" /\ Frame(m, n)[j].part = 2 <=> j = HeaderLen)
    BY <2>1, FramePlaces, ZenonT(30)
  <2>3. ASSUME j > HeaderLen PROVE f[j] = Cell(m, "pay", j - HeaderLen)
    <3>1. j - HeaderLen \in 1..n /\ j = HeaderLen + (j - HeaderLen)
      BY <1>1, <2>1, <2>3
    <3> QED BY <1>1, <2>1, <3>1
  <2> QED BY <2>1, <2>2, <2>3
<1> QED BY <1>1, <1>2 DEF WrittenCells

\* A write adds the cells of a new message behind the stream, and changes no more than that.
LEMMA WriteIs ==
  ASSUME ShapeOK, NEW n \in PayloadSizes, NEW k \in 0..Len(Frame(1, n)) - 1, Put(n) \/ PutCut(n, k)
  PROVE  /\ n \in Nat /\ sizes' = Append(sizes, n) /\ Len(sizes) \in Nat /\ Len(sizes') = Len(sizes) + 1
         /\ writer = "open" /\ pc # "dead" /\ Len(sizes) - Len(delivered) < window
         /\ UNCHANGED <<encrypted, smooth, window, buf, pc, due, cur, macOK, size, delivered>>
         /\ \E f \in Seq(AnyCell) :
              /\ net' = net \o f /\ Extended(Stream, f, Stream')
              /\ WrittenCells(f, Len(sizes) + 1, n) /\ Len(f) <= HeaderLen + n
              /\ writer' = "open" => Len(f) = HeaderLen + n
<1>1. /\ n \in Nat /\ writer = "open" /\ sizes' = Append(sizes, n)
      /\ \E f \in Seq(AnyCell) :
           /\ net' = net \o f /\ net' \in Seq(AnyCell) /\ Extended(Stream, f, Stream')
           /\ Len(f) <= Len(Frame(Len(sizes) + 1, n))
           /\ writer' = "open" => f = Frame(Len(sizes) + 1, n)
           /\ \A j \in 1..Len(f) : f[j] = Frame(Len(sizes) + 1, n)[j]
  BY PutIs
<1>2. PICK f \in Seq(AnyCell) :
           /\ net' = net \o f /\ Extended(Stream, f, Stream')
           /\ Len(f) <= Len(Frame(Len(sizes) + 1, n))
           /\ writer' = "open" => f = Frame(Len(sizes) + 1, n)
           /\ \A j \in 1..Len(f) : f[j] = Frame(Len(sizes) + 1, n)[j]
  BY <1>1
<1>3. sizes \in Seq(PayloadSizes) /\ Len(sizes) \in Nat /\ Len(sizes) + 1 \in Nat /\ Len(sizes') = Len(sizes) + 1
  <2>1. sizes \in Seq(PayloadSizes)
    BY DEF ShapeOK, TypeOK
  <2> QED BY <1>1, <2>1
<1>4. WrittenCells(f, Len(sizes) + 1, n) /\ Len(f) <= HeaderLen + n
  <2> DEFINE m == Len(sizes) + 1
  <2> HIDE DEF m
  <2>1. m \in Nat /\ Len(f) <= Len(Frame(m, n)) /\ \A j \in 1..Len(f) : f[j] = Frame(m, n)[j]
    BY <1>2, <1>3 DEF m
  <2>2. WrittenCells(f, m, n) /\ Len(f) <= HeaderLen + n
    BY <1>1, <2>1, FrameWritten
  <2> QED BY <2>2 DEF m
<1>5. writer' = "open" => Len(f) = HeaderLen + n
  <2>1. Len(Frame(Len(sizes) + 1, n)) = HeaderLen + n
    <3>1. n \in Nat /\ Len(sizes) + 1 \in Nat
      BY <1>1, <1>3
    <3> QED BY <3>1, FrameIs
  <2> QED BY <1>2, <2>1
<1>6. /\ pc # "dead" /\ Len(sizes) - Len(delivered) < window
      /\ UNCHANGED <<encrypted, smooth, window, buf, pc, due, cur, macOK, size, delivered>>
  BY DEF Put, PutCut, MayPut, fixed
<1> QED BY <1>1, <1>2, <1>3, <1>4, <1>5, <1>6

\* What is returned is behind the stream, and ahead of the message being read.
OrderInv ==
  /\ InOrder
  /\ Orderly(Stream)
  /\ pc \in {"loop", "pre"} => \A i \in 1..Len(delivered) : Passed(delivered[i].msg, Stream)
  /\ pc = "typ" => \A i \in 1..Len(delivered) : Past(delivered[i].msg, Stream)
  /\ pc \in {"mac", "siz", "pay"} =>
       Passed(cur, Stream) /\ \A i \in 1..Len(delivered) : delivered[i].msg < cur

\* The reader is as far as it was, or gave up.
SameStage == \/ pc' = "dead"
             \/ pc \in {"loop", "pre"} /\ pc' \in {"loop", "pre"}
             \/ pc = "typ" /\ pc' = "typ"
             \/ pc \in {"mac", "siz", "pay"} /\ pc' \in {"mac", "siz", "pay"} /\ cur' = cur

\* A step that takes cells from the stream and returns nothing.
LEMMA OrderTaken ==
  ASSUME ShapeOK, OrderInv, NEW k \in Nat, Leaves(Stream, k, Stream'), delivered' = delivered, SameStage
  PROVE  OrderInv'
<1>1. Stream \in Seq(AnyCell) /\ \A i \in 1..Len(delivered) : delivered[i].msg \in Nat
  <2>1. \A i \in 1..Len(delivered) : delivered[i].msg \in 1..Len(sizes)
    BY DEF ShapeOK
  <2> QED BY <2>1, StreamIs
<1> DEFINE t == Stream'
<1> HIDE DEF t
<1>2. Leaves(Stream, k, t)
  BY DEF t
<1>3. /\ Orderly(Stream) => Orderly(t)
      /\ \A m \in Nat : (Passed(m, Stream) => Passed(m, t)) /\ (Past(m, Stream) => Past(m, t))
  BY <1>1, <1>2, OrderLeaves
<1>4. InOrder' /\ Orderly(t)
  BY <1>3 DEF OrderInv, InOrder
<1>5. pc' \in {"loop", "pre"} => \A i \in 1..Len(delivered') : Passed(delivered'[i].msg, t)
  BY <1>1, <1>3 DEF OrderInv, SameStage
<1>6. pc' = "typ" => \A i \in 1..Len(delivered') : Past(delivered'[i].msg, t)
  BY <1>1, <1>3 DEF OrderInv, SameStage
<1>7. pc' \in {"mac", "siz", "pay"} =>
        Passed(cur', t) /\ \A i \in 1..Len(delivered') : delivered'[i].msg < cur'
  <2> SUFFICES ASSUME pc' \in {"mac", "siz", "pay"}
               PROVE  Passed(cur', t) /\ \A i \in 1..Len(delivered') : delivered'[i].msg < cur'
    OBVIOUS
  <2>1. pc \in {"mac", "siz", "pay"} /\ cur' = cur
    BY DEF SameStage
  <2>2. cur \in Nat
    BY DEF ShapeOK, TypeOK
  <2> QED BY <1>3, <2>1, <2>2 DEF OrderInv
<1> QED BY <1>4, <1>5, <1>6, <1>7 DEF OrderInv, t

\* A write.
LEMMA OrderWritten ==
  ASSUME ShapeOK, OrderInv, NEW n \in PayloadSizes, NEW k \in 0..Len(Frame(1, n)) - 1,
         Put(n) \/ PutCut(n, k)
  PROVE  OrderInv'
<1>1. UNCHANGED <<pc, cur, delivered>> /\ Len(sizes) \in Nat
  BY WriteIs
<1>2. PICK f \in Seq(AnyCell) : Extended(Stream, f, Stream') /\ WrittenCells(f, Len(sizes) + 1, n)
  BY WriteIs
<1>3. /\ Stream \in Seq(AnyCell) /\ (\A j \in 1..Len(Stream) : Stream[j].msg \in 1..Len(sizes))
      /\ \A i \in 1..Len(delivered) : delivered[i].msg \in 0..Len(sizes)
  <2>1. \A i \in 1..Len(delivered) : delivered[i].msg \in 1..Len(sizes)
    BY DEF ShapeOK
  <2>2. \A j \in 1..Len(Stream) : Stream[j].msg \in 1..Len(sizes)
    BY DEF ShapeOK
  <2> QED BY <1>1, <2>1, <2>2, StreamIs
<1> DEFINE t == Stream'
           l == Len(sizes)
<1> HIDE DEF t, l
<1>4. /\ Orderly(Stream) => Orderly(t)
      /\ \A m \in 0..l : (Passed(m, Stream) => Passed(m, t)) /\ (Past(m, Stream) => Past(m, t))
  <2>1. Extended(Stream, f, t) /\ l \in Nat /\ \A j \in 1..Len(Stream) : Stream[j].msg \in 1..l
    BY <1>1, <1>2, <1>3 DEF t, l
  <2>2. \A j \in 1..Len(f) : f[j].msg = l + 1 /\ (f[j].field = "pre" <=> j <= 2)
    BY <1>2 DEF l, WrittenCells
  <2> QED BY <1>3, <2>1, <2>2, OrderExtended
<1>5. cur \in 0..l /\ \A i \in 1..Len(delivered) : delivered[i].msg \in 0..l
  BY <1>3 DEF ShapeOK, TypeOK, l
<1>6. OrderInv' <=> /\ InOrder' /\ Orderly(t)
                    /\ pc' \in {"loop", "pre"} => \A i \in 1..Len(delivered') : Passed(delivered'[i].msg, t)
                    /\ pc' = "typ" => \A i \in 1..Len(delivered') : Past(delivered'[i].msg, t)
                    /\ pc' \in {"mac", "siz", "pay"} =>
                         Passed(cur', t) /\ \A i \in 1..Len(delivered') : delivered'[i].msg < cur'
  BY DEF OrderInv, t
<1>7. InOrder'
  BY <1>1 DEF OrderInv, InOrder
<1> QED BY <1>1, <1>4, <1>5, <1>6, <1>7 DEF OrderInv
\* The two cells of a header field.
LEMMA FieldIs ==
  ASSUME NEW m, NEW f
  PROVE  /\ Len(Field(m, f)) = 2 /\ Field(m, f)[1] = Cell(m, f, 1) /\ Field(m, f)[2] = Cell(m, f, 2)
         /\ \A i : Cell(m, f, i).msg = m /\ Cell(m, f, i).field = f /\ Cell(m, f, i).part = i
BY DEF Field, Cell

\* What is behind the first cell of the stream is no earlier than it.
LEMMA BehindFirst ==
  ASSUME NEW s \in Seq(AnyCell), Orderly(s), NEW k \in Nat \ {0}, NEW t, Leaves(s, k, t)
  PROVE  \A j \in 1..Len(t) : Precedes(s[1], t[j])
<1> SUFFICES ASSUME NEW j \in 1..Len(t) PROVE Precedes(s[1], t[j])
  OBVIOUS
<1>1. t[j] = s[k + j] /\ k + j \in 1..Len(s) /\ 1 \in 1..Len(s) /\ 1 < k + j
  BY DEF Leaves
<1>2. Precedes(s[1], s[k + j])
  BY <1>1 DEF Orderly
<1> QED BY <1>1, <1>2

\* The preamble and the type move the reader on to the message they name.
LEMMA OrderRead ==
  ASSUME ShapeOK, OrderInv, ReadPreamble \/ ReadType
  PROVE  OrderInv'
<1>1. /\ Stream \in Seq(AnyCell) /\ Len(Stream) \in Nat /\ Orderly(Stream) /\ InOrder
      /\ delivered' = delivered /\ sizes' = sizes
  BY StreamIs DEF OrderInv, ReadPreamble, ReadType
<1>2. \A i \in 1..Len(delivered) : delivered[i].msg \in 1..Len(sizes)
  BY DEF ShapeOK
<1>3. InOrder'
  BY <1>1 DEF InOrder
<1>4. CASE ReadPreamble
  <2>1. PICK r \in Reads(2) :
          /\ buf' = r.buf /\ net' = r.net
          /\ pc' = IF \E m \in 1..Len(sizes) : r.data = Field(m, "pre") THEN "typ" ELSE "dead"
    BY <1>4 DEF ReadPreamble
  <2>2. Leaves(Stream, Len(r.data), Stream')
    BY <2>1, TakeIs
  <2>3. Len(r.data) \in 1..2 /\ \A j \in 1..Len(r.data) : r.data[j] = Stream[j]
    <3>1. 2 \in Nat \ {0} /\ buf' = r.buf /\ net' = r.net
      BY <2>1
    <3> QED BY <3>1, TakeIs
  <2>4. CASE pc' = "dead"
    BY <1>1, <2>2, <2>3, <2>4, OrderTaken DEF SameStage
  <2>5. CASE pc' # "dead"
    <3>1. pc = "pre" /\ pc' = "typ" /\ \E m \in 1..Len(sizes) : r.data = Field(m, "pre")
      BY <1>4, <2>1, <2>5 DEF ReadPreamble
    <3>2. PICK m \in 1..Len(sizes) : r.data = Field(m, "pre")
      BY <3>1
    <3>3. Len(r.data) = 2 /\ Stream[1].msg = m /\ Stream[1].field = "pre"
      BY <2>3, <3>2, FieldIs
    <3> DEFINE t == Stream'
    <3> HIDE DEF t
    <3>4. Leaves(Stream, 2, t)
      BY <2>2, <3>3 DEF t
    <3>5. Orderly(t) /\ Len(Stream) >= 2
      <4>1. Orderly(t)
        BY <1>1, <3>4, OrderLeaves
      <4> QED BY <1>1, <3>4, <4>1 DEF Leaves
    <3>6. \A j \in 1..Len(t) : m <= t[j].msg
      BY <1>1, <3>3, <3>4, BehindFirst DEF Precedes
    <3>7. ASSUME NEW i \in 1..Len(delivered) PROVE Past(delivered[i].msg, t)
      <4>1. Passed(delivered[i].msg, Stream)
        BY <3>1 DEF OrderInv
      <4>2. delivered[i].msg < m
        BY <1>1, <3>3, <3>5, <4>1 DEF Passed
      <4>3. t \in Seq(AnyCell)
        BY <3>4 DEF Leaves
      <4>4. \A j \in 1..Len(t) : t[j].msg \in Nat
        BY <4>3, CellMsg
      <4>5. delivered[i].msg \in Nat
        BY <1>2
      <4> QED BY <3>6, <4>2, <4>4, <4>5 DEF Past
    <3> QED BY <1>1, <1>3, <3>1, <3>5, <3>7 DEF OrderInv, t
  <2> QED BY <2>4, <2>5
<1>5. CASE ReadType
  <2>1. PICK r \in Reads(2) :
          /\ buf' = r.buf /\ net' = r.net
          /\ pc' = IF r.data # Field(cur', "typ") THEN "dead" ELSE IF encrypted THEN "mac" ELSE "siz"
    BY <1>5 DEF ReadType
  <2>2. Leaves(Stream, Len(r.data), Stream')
    BY <2>1, TakeIs
  <2>3. Len(r.data) \in 1..2 /\ \A j \in 1..Len(r.data) : r.data[j] = Stream[j]
    <3>1. 2 \in Nat \ {0} /\ buf' = r.buf /\ net' = r.net
      BY <2>1
    <3> QED BY <3>1, TakeIs
  <2>4. CASE pc' = "dead"
    BY <1>1, <2>2, <2>3, <2>4, OrderTaken DEF SameStage
  <2>5. CASE pc' # "dead"
    <3>1. pc = "typ" /\ pc' \in {"mac", "siz"} /\ r.data = Field(cur', "typ")
      BY <1>5, <2>1, <2>5 DEF ReadType
    <3>3. Len(r.data) = 2 /\ Stream[1].msg = cur' /\ Stream[1].field = "typ"
      BY <2>3, <3>1, FieldIs
    <3> DEFINE t == Stream'
               m == cur'
    <3> HIDE DEF t, m
    <3>4. Leaves(Stream, 2, t)
      BY <2>2, <3>3 DEF t
    <3>5. Orderly(t) /\ Len(Stream) >= 2
      <4>1. Orderly(t)
        BY <1>1, <3>4, OrderLeaves
      <4> QED BY <1>1, <3>4, <4>1 DEF Leaves
    <3>6. Passed(m, t)
      BY <1>1, <3>3, <3>4, BehindFirst DEF Precedes, Passed, m
    <3>7. ASSUME NEW i \in 1..Len(delivered) PROVE delivered[i].msg < m
      <4>1. Past(delivered[i].msg, Stream)
        BY <3>1 DEF OrderInv
      <4> QED BY <1>1, <3>3, <3>5, <4>1 DEF Past, m
    <3> QED BY <1>1, <1>3, <3>1, <3>5, <3>6, <3>7 DEF OrderInv, t, m
  <2> QED BY <2>4, <2>5
<1> QED BY <1>4, <1>5

\* What is returned is the message being read: it is later than those returned before.
LEMMA OrderFinish ==
  ASSUME ShapeOK, OrderInv, pc = "pay", NEW k \in Nat, Leaves(Stream, k, Stream'), cur' = cur,
         NEW data \in Seq(AnyCell), Finish(data)
  PROVE  OrderInv'
<1>1. \/ UNCHANGED delivered /\ pc' = "dead"
      \/ /\ pc' = "loop" /\ Len(delivered') = Len(delivered) + 1
         /\ \A i \in 1..Len(delivered) : delivered'[i] = delivered[i]
         /\ delivered'[Len(delivered')].msg = cur
  <2>1. /\ pc' \in {"loop", "dead"} /\ delivered' \in Seq([msg : Nat, data : Seq(AnyCell)])
        /\ \/ UNCHANGED delivered /\ pc' = "dead"
           \/ /\ pc' = "loop" /\ Len(delivered') = Len(delivered) + 1
              /\ \A i \in 1..Len(delivered) : delivered'[i] = delivered[i]
              /\ delivered'[Len(delivered')] = [msg |-> cur, data |-> data]
              /\ encrypted => macOK /\ data = Payload(cur, sizes[cur])
    BY FinishIs, Zenon
  <2> QED BY <2>1
<1>2. CASE UNCHANGED delivered /\ pc' = "dead"
  BY <1>2, OrderTaken DEF SameStage
<1>3. CASE /\ pc' = "loop" /\ Len(delivered') = Len(delivered) + 1
           /\ \A i \in 1..Len(delivered) : delivered'[i] = delivered[i]
           /\ delivered'[Len(delivered')].msg = cur
  <2>1. /\ Len(delivered) \in Nat /\ cur \in Nat /\ \A i \in 1..Len(delivered) : delivered[i].msg \in Nat
    <3>1. \A i \in 1..Len(delivered) : delivered[i].msg \in 1..Len(sizes)
      BY DEF ShapeOK
    <3>2. delivered \in Seq([msg : Nat, data : Seq(AnyCell)]) /\ cur \in Nat
      BY DEF ShapeOK, TypeOK
    <3> QED BY <3>1, <3>2
  <2>2. Passed(cur, Stream) /\ (\A i \in 1..Len(delivered) : delivered[i].msg < cur) /\ InOrder /\ Orderly(Stream)
    BY DEF OrderInv
  <2> DEFINE t == Stream'
             e == delivered'
  <2>3. /\ Len(e) = Len(delivered) + 1
        /\ \A i \in 1..Len(delivered) : e[i] = delivered[i]
        /\ e[Len(delivered) + 1].msg = cur
    BY <1>3
  <2>4. Leaves(Stream, k, t)
    OBVIOUS
  <2> HIDE DEF t, e
  <2>5. /\ Orderly(t) /\ Passed(cur, t) /\ t \in Seq(AnyCell)
    BY <2>1, <2>2, <2>4, StreamIs, OrderLeaves DEF Leaves
  <2>6. ASSUME NEW i \in 1..Len(e)
        PROVE  \/ i \in 1..Len(delivered) /\ e[i] = delivered[i] /\ e[i].msg < cur /\ e[i].msg \in Nat
               \/ i = Len(delivered) + 1 /\ e[i].msg = cur
    BY <2>1, <2>2, <2>3
  <2>7. ASSUME NEW i \in 1..Len(e), NEW j \in 1..Len(e), i < j PROVE e[i].msg < e[j].msg
    <3>1. CASE j \in 1..Len(delivered)
      <4>1. i \in 1..Len(delivered) /\ e[i] = delivered[i] /\ e[j] = delivered[j]
        BY <2>1, <2>3, <2>7, <3>1
      <4> QED BY <2>2, <2>7, <3>1, <4>1 DEF InOrder
    <3>2. CASE j \notin 1..Len(delivered)
      <4>1. j = Len(delivered) + 1 /\ e[j].msg = cur
        BY <2>6, <3>2
      <4>2. i \in 1..Len(delivered)
        BY <2>1, <2>3, <2>7, <4>1
      <4> QED BY <2>2, <2>3, <4>1, <4>2
    <3> QED BY <3>1, <3>2
  <2>8. ASSUME NEW i \in 1..Len(e) PROVE Passed(e[i].msg, t)
    <3>1. e[i].msg \in Nat /\ e[i].msg <= cur
      BY <2>1, <2>6
    <3>2. \A j \in 1..Len(t) : t[j].msg \in Nat
      BY <2>5, CellMsg
    <3> QED BY <2>1, <2>5, <3>1, <3>2 DEF Passed
  <2>9. InOrder'
    BY <2>7 DEF InOrder, e
  <2> QED BY <1>3, <2>5, <2>8, <2>9 DEF OrderInv, t, e
<1> QED BY <1>1, <1>2, <1>3

\* Every step keeps the order.
LEMMA OrderStep == ShapeOK /\ OrderInv /\ Next => OrderInv'
<1> SUFFICES ASSUME ShapeOK, OrderInv, Next PROVE OrderInv'
  OBVIOUS
<1>0. Stream \in Seq(AnyCell) /\ 0 \in Nat /\ Leaves(Stream, 0, Stream)
  BY StreamIs, LeavesNone
<1>1. ASSUME NEW n \in PayloadSizes, Put(n) \/ \E k \in 0..Len(Frame(1, n)) - 1 : PutCut(n, k)
      PROVE  OrderInv'
  <2>1. 0 \in 0..Len(Frame(1, n)) - 1
    BY SomeCut
  <2> QED BY <1>1, <2>1, OrderWritten
<1>2. CASE Begin
  <2>1. Leaves(Stream, Len(buf), Stream')
    BY <1>2, BeginIs
  <2>2. delivered' = delivered /\ SameStage
    BY <1>2 DEF Begin, SameStage
  <2>3. Len(buf) \in Nat
    BY DEF ShapeOK
  <2> QED BY <2>1, <2>2, <2>3, OrderTaken
<1>3. CASE ReadPreamble \/ ReadType
  BY <1>3, OrderRead
<1>4. CASE ReadHmacSize \/ ReadSize
  <2>1. PICK r \in Reads(2) : buf' = r.buf /\ net' = r.net
    BY <1>4 DEF ReadHmacSize, ReadSize
  <2>2. Leaves(Stream, Len(r.data), Stream')
    BY <2>1, TakeIs
  <2>3. Len(r.data) \in Nat
    <3>1. 2 \in Nat \ {0} /\ buf' = r.buf /\ net' = r.net
      BY <2>1
    <3>2. Len(r.data) \in 1..2
      BY <3>1, TakeIs
    <3> QED BY <3>2
  <2>4. delivered' = delivered /\ SameStage
    BY <1>4 DEF ReadHmacSize, ReadSize, SameStage
  <2> QED BY <2>2, <2>3, <2>4, OrderTaken
<1>5. CASE ReadPayload
  <2>1. pc = "pay" /\ size \in Nat \ {0} /\ cur' = cur
    BY <1>5 DEF ReadPayload, ShapeOK, TypeOK
  <2>2. PICK r \in Reads(size) :
          /\ buf' = r.buf /\ net' = r.net
          /\ IF Len(r.data) = size THEN Finish(r.data) ELSE pc' = "dead" /\ UNCHANGED delivered
    BY <1>5, Zenon DEF ReadPayload
  <2>3. Leaves(Stream, Len(r.data), Stream')
    BY <2>1, <2>2, TakeIs
  <2>4. Len(r.data) \in Nat /\ r.data \in Seq(AnyCell)
    <3>1. Len(r.data) \in 1..size /\ r.data \in Seq(AnyCell)
      BY <2>1, <2>2, TakeIs
    <3> QED BY <2>1, <3>1
  <2>5. CASE Len(r.data) = size
    <3>1. Finish(r.data)
      BY <2>2, <2>5, Zenon
    <3> QED BY <2>1, <2>3, <2>4, <3>1, OrderFinish
  <2>6. CASE Len(r.data) # size
    <3>1. pc' = "dead" /\ delivered' = delivered
      BY <2>2, <2>6, Zenon
    <3> QED BY <2>3, <2>4, <3>1, OrderTaken DEF SameStage
  <2> QED BY <2>5, <2>6
<1>6. CASE ReadNoPayload
  <2>1. pc = "pay" /\ cur' = cur /\ Finish(<<>>) /\ net' = net /\ buf' = buf
    BY <1>6 DEF ReadNoPayload
  <2>2. Leaves(Stream, 0, Stream')
    BY <1>0, <2>1 DEF Stream
  <2>3. <<>> \in Seq(AnyCell)
    OBVIOUS
  <2> QED BY <1>0, <2>1, <2>2, <2>3, OrderFinish, Zenon
<1>7. CASE ReadPreambleFails \/ ReadTypeFails \/ ReadHmacSizeFails \/ ReadSizeFails \/ ReadPayloadFails \/ DeadlinePasses
  <2>1. net' = net /\ buf' = buf /\ delivered' = delivered
    BY <1>7 DEF ReadPreambleFails, ReadTypeFails, ReadHmacSizeFails, ReadSizeFails, ReadPayloadFails, DeadlinePasses
  <2>2. SameStage
    BY <1>7 DEF ReadPreambleFails, ReadTypeFails, ReadHmacSizeFails, ReadSizeFails, ReadPayloadFails, DeadlinePasses,
       SameStage, ShapeOK, TypeOK
  <2>3. Leaves(Stream, 0, Stream')
    BY <1>0, <2>1 DEF Stream
  <2> QED BY <1>0, <2>1, <2>2, <2>3, OrderTaken
<1> QED BY <1>1, <1>2, <1>3, <1>4, <1>5, <1>6, <1>7 DEF Next

\* In every reachable state what is returned is ahead of what is being read, and both are ahead
\* of the stream.
LEMMA OrderInvariant == Spec => [](ShapeOK /\ OrderInv)
<1>1. Init => OrderInv
  <2> SUFFICES ASSUME Init PROVE OrderInv
    OBVIOUS
  <2>1. Stream = <<>> /\ Len(Stream) = 0 /\ delivered = <<>> /\ Len(delivered) = 0 /\ pc = "loop"
    BY DEF Init, Stream
  <2> QED BY <2>1 DEF OrderInv, InOrder, Orderly
<1>2. ShapeOK /\ OrderInv /\ [Next]_vars => OrderInv'
  <2> SUFFICES ASSUME ShapeOK, OrderInv, [Next]_vars PROVE OrderInv'
    OBVIOUS
  <2>1. CASE Next
    BY <2>1, OrderStep
  <2>2. CASE UNCHANGED vars
    <3>1. UNCHANGED <<net, buf, pc, cur, delivered>>
      BY <2>2 DEF vars
    <3>2. Stream' = Stream
      BY <3>1 DEF Stream
    <3> QED BY <3>1, <3>2 DEF OrderInv, InOrder
  <2> QED BY <2>1, <2>2
<1> QED BY <1>1, <1>2, ShapeInvariant, PTL DEF Spec

\* Messages are returned in the order sent, none twice, whatever the segmentation, the time-outs
\* and the cut writes do to the stream.
THEOREM ReturnsInOrder == Spec => []InOrder
<1>1. OrderInv => InOrder
  BY DEF OrderInv
<1> QED BY <1>1, OrderInvariant, PTL
-----------------------------------------------------------------------------
(* Payloads. *)

\* Behind place i of s come the n payload cells of message m, all of them while no write was cut.
PayloadAt(s, i, m, n, w) == /\ \A k \in 1..n : i + k <= Len(s) => s[i + k] = Cell(m, "pay", k)
                            /\ w = "open" => i + n <= Len(s)

\* Behind every size field comes a payload of that size.
Sized(s, z, w) == \A i \in 1..Len(s) : s[i].field = "siz" /\ s[i].part = 2
                    => PayloadAt(s, i, s[i].msg, z[s[i].msg], w)

\* Taking from the front leaves payloads where they belong.
LEMMA PayLeaves ==
  ASSUME NEW s \in Seq(AnyCell), NEW k \in Nat, NEW t, Leaves(s, k, t), NEW w
  PROVE  /\ \A i \in Nat, m \in Nat, n \in Nat : PayloadAt(s, k + i, m, n, w) => PayloadAt(t, i, m, n, w)
         /\ \A z : (\A j \in 1..Len(s) : z[s[j].msg] \in Nat) /\ Sized(s, z, w) => Sized(t, z, w)
<1>1. /\ Len(t) \in Nat /\ Len(s) = k + Len(t) /\ t \in Seq(AnyCell)
      /\ \A j \in 1..Len(t) : t[j] = s[k + j] /\ k + j \in 1..Len(s)
  BY DEF Leaves
<1>2. ASSUME NEW i \in Nat, NEW m \in Nat, NEW n \in Nat, PayloadAt(s, k + i, m, n, w)
      PROVE  PayloadAt(t, i, m, n, w)
  <2>1. ASSUME NEW q \in 1..n, i + q <= Len(t) PROVE t[i + q] = Cell(m, "pay", q)
    <3>1. i + q \in 1..Len(t) /\ k + (i + q) = (k + i) + q /\ (k + i) + q <= Len(s)
      BY <1>1, <2>1
    <3>2. s[(k + i) + q] = Cell(m, "pay", q)
      BY <1>2, <3>1 DEF PayloadAt
    <3> QED BY <1>1, <3>1, <3>2
  <2>2. w = "open" => i + n <= Len(t)
    BY <1>1, <1>2 DEF PayloadAt
  <2> QED BY <2>1, <2>2 DEF PayloadAt
<1>3. ASSUME NEW z, \A j \in 1..Len(s) : z[s[j].msg] \in Nat, Sized(s, z, w), NEW i \in 1..Len(t),
             t[i].field = "siz", t[i].part = 2
      PROVE  PayloadAt(t, i, t[i].msg, z[t[i].msg], w)
  <2>1. t[i] = s[k + i] /\ k + i \in 1..Len(s) /\ i \in Nat
    BY <1>1
  <2>2. PayloadAt(s, k + i, t[i].msg, z[t[i].msg], w)
    BY <1>3, <2>1 DEF Sized
  <2>3. t[i].msg \in Nat /\ z[t[i].msg] \in Nat
    BY <1>1, <1>3, <2>1, CellMsg
  <2> QED BY <1>2, <2>1, <2>2, <2>3
<1> QED BY <1>2, <1>3 DEF Sized

\* A write keeps the payloads that are there, and puts its own behind its size field.
LEMMA PayExtended ==
  ASSUME NEW s \in Seq(AnyCell), NEW f \in Seq(AnyCell), NEW t, Extended(s, f, t), NEW z \in Seq(Nat), NEW n \in Nat,
         \A j \in 1..Len(s) : s[j].msg \in 1..Len(z), NEW w,
         WrittenCells(f, Len(z) + 1, n), Len(f) <= HeaderLen + n, w = "open" => Len(f) = HeaderLen + n
  PROVE  /\ Sized(s, z, "open") => Sized(t, Append(z, n), w)
         /\ \A i \in Nat, m \in Nat, p \in Nat : PayloadAt(s, i, m, p, "open") => PayloadAt(t, i, m, p, w)
<1> DEFINE y == Append(z, n)
           l == Len(z)
<1>1. /\ Len(s) \in Nat /\ Len(f) \in Nat /\ Len(t) = Len(s) + Len(f)
      /\ \A j \in 1..Len(s) : t[j] = s[j]
      /\ \A j \in 1..Len(f) : t[Len(s) + j] = f[j]
  BY DEF Extended
<1>2. l \in Nat /\ (\A m \in 1..l : y[m] = z[m] /\ z[m] \in Nat) /\ y[l + 1] = n
  OBVIOUS
<1> HIDE DEF y, l
<1>3. ASSUME NEW i \in Nat, NEW m \in Nat, NEW p \in Nat, PayloadAt(s, i, m, p, "open")
      PROVE  PayloadAt(t, i, m, p, w)
  <2>1. i + p <= Len(s)
    BY <1>3 DEF PayloadAt
  <2>2. ASSUME NEW q \in 1..p PROVE t[i + q] = Cell(m, "pay", q)
    <3>1. i + q \in 1..Len(s)
      BY <1>1, <2>1
    <3>2. s[i + q] = Cell(m, "pay", q)
      BY <1>3, <3>1 DEF PayloadAt
    <3> QED BY <1>1, <3>1, <3>2
  <2>3. i + p <= Len(t)
    BY <1>1, <2>1
  <2> QED BY <2>2, <2>3 DEF PayloadAt
<1>4. ASSUME Sized(s, z, "open"), NEW i \in 1..Len(t), t[i].field = "siz", t[i].part = 2
      PROVE  PayloadAt(t, i, t[i].msg, y[t[i].msg], w)
  <2>1. CASE i <= Len(s)
    <3>1. i \in 1..Len(s) /\ t[i] = s[i] /\ i \in Nat
      BY <1>1, <2>1
    <3>2. t[i].msg \in 1..l
      BY <3>1 DEF l
    <3>3. PayloadAt(s, i, t[i].msg, z[t[i].msg], "open")
      BY <1>4, <3>1 DEF Sized
    <3>4. t[i].msg \in Nat /\ z[t[i].msg] \in Nat /\ y[t[i].msg] = z[t[i].msg]
      BY <1>2, <3>2, SMTT(30)
    <3> QED BY <1>3, <3>1, <3>3, <3>4
  <2>2. CASE i > Len(s)
    <3>1. i - Len(s) \in 1..Len(f) /\ i = Len(s) + (i - Len(s))
      BY <1>1, <2>2
    <3>2. t[i] = f[i - Len(s)]
      BY <1>1, <3>1
    <3>3. t[i].msg = l + 1 /\ i = Len(s) + HeaderLen /\ HeaderLen \in Nat
      <4>1. t[i].msg = l + 1 /\ i - Len(s) = HeaderLen
        BY <1>4, <3>1, <3>2 DEF WrittenCells, l
      <4>2. HeaderLen \in Nat
        BY DEF HeaderLen
      <4> QED BY <1>1, <3>1, <4>1, <4>2
    <3>4. ASSUME NEW q \in 1..n, i + q <= Len(t) PROVE t[i + q] = Cell(l + 1, "pay", q)
      <4>1. /\ HeaderLen + q \in 1..Len(f) /\ i + q = Len(s) + (HeaderLen + q) /\ HeaderLen + q > HeaderLen
            /\ (HeaderLen + q) - HeaderLen = q
        BY <1>1, <3>3, <3>4
      <4>2. t[i + q] = f[HeaderLen + q]
        BY <1>1, <4>1
      <4>3. f[HeaderLen + q] = Cell(l + 1, "pay", (HeaderLen + q) - HeaderLen)
        BY <4>1 DEF WrittenCells, l
      <4> QED BY <4>1, <4>2, <4>3
    <3>5. w = "open" => i + n <= Len(t)
      BY <1>1, <3>3
    <3> QED BY <1>2, <3>3, <3>4, <3>5 DEF PayloadAt
  <2> QED BY <1>1, <2>1, <2>2
<1>5. Sized(s, z, "open") => Sized(t, y, w)
  BY <1>4 DEF Sized
<1> QED BY <1>3, <1>5 DEF y
\* What was returned is a message as it was sent, or, without keys only, an empty one.
ReturnsOK == \A i \in 1..Len(delivered) :
               /\ Genuine(delivered[i]) \/ delivered[i].data = <<>>
               /\ encrypted => Genuine(delivered[i])

\* The payload is where its size was read, all of it unless a write was cut.
PayInv ==
  /\ ReturnsOK
  /\ Sized(Stream, sizes, writer)
  /\ pc = "pay" /\ size > 0 => size = sizes[cur] /\ PayloadAt(Stream, 0, cur, size, writer)

\* The sizes are numbers, and the cells and the returned messages have one.
LEMMA SizesAre ==
  ASSUME ShapeOK
  PROVE  /\ sizes \in Seq(Nat) /\ \A j \in 1..Len(sizes) : sizes[j] \in Nat
         /\ \A j \in 1..Len(Stream) : Stream[j].msg \in 1..Len(sizes) /\ sizes[Stream[j].msg] \in Nat
         /\ \A i \in 1..Len(delivered) : delivered[i].msg \in 1..Len(sizes)
<1>1. PayloadSizes \subseteq Nat
  BY FramingAssumption DEF PayloadSizes
<1>2. sizes \in Seq(PayloadSizes)
  BY DEF ShapeOK, TypeOK
<1>3. sizes \in Seq(Nat)
  <2>1. Len(sizes) \in Nat /\ sizes = [j \in 1..Len(sizes) |-> sizes[j]]
        /\ \A j \in 1..Len(sizes) : sizes[j] \in Nat
    BY <1>1, <1>2
  <2> QED BY <2>1
<1>4. \A j \in 1..Len(sizes) : sizes[j] \in Nat
  BY <1>3
<1>5. (\A j \in 1..Len(Stream) : Stream[j].msg \in 1..Len(sizes))
      /\ \A i \in 1..Len(delivered) : delivered[i].msg \in 1..Len(sizes)
  BY DEF ShapeOK
<1> QED BY <1>3, <1>4, <1>5

\* A step of the reader: the payloads in the stream stay where they belong.
LEMMA PayTaken ==
  ASSUME ShapeOK, PayInv, NEW k \in Nat, Leaves(Stream, k, Stream'), UNCHANGED <<encrypted, sizes, writer>>,
         ReturnsOK', pc' = "pay" /\ size' > 0 => size' = sizes[cur'] /\ PayloadAt(Stream', 0, cur', size', writer)
  PROVE  PayInv'
<1> DEFINE t == Stream'
<1> HIDE DEF t
<1>1. Leaves(Stream, k, t)
  BY DEF t
<1>2. Sized(Stream, sizes, writer) /\ \A j \in 1..Len(Stream) : sizes[Stream[j].msg] \in Nat
  BY SizesAre DEF PayInv
<1>3. Sized(t, sizes, writer)
  BY <1>1, <1>2, StreamIs, PayLeaves
<1>4. Sized(t, sizes', writer')
  BY <1>3
<1>5. pc' = "pay" /\ size' > 0 => size' = sizes'[cur'] /\ PayloadAt(t, 0, cur', size', writer')
  BY DEF t
<1> QED BY <1>4, <1>5 DEF PayInv, t

\* What was returned stays what it is.
LEMMA ReturnsKept ==
  ASSUME ReturnsOK, UNCHANGED <<encrypted, delivered>>,
         \A i \in 1..Len(delivered) : sizes'[delivered[i].msg] = sizes[delivered[i].msg]
  PROVE  ReturnsOK'
<1>1. ASSUME NEW i \in 1..Len(delivered) PROVE Genuine(delivered[i])' <=> Genuine(delivered[i])
  BY <1>1 DEF Genuine
<1> QED BY <1>1 DEF ReturnsOK

\* A write.
LEMMA PayWritten ==
  ASSUME ShapeOK, PayInv, NEW n \in PayloadSizes, NEW k \in 0..Len(Frame(1, n)) - 1, Put(n) \/ PutCut(n, k)
  PROVE  PayInv'
<1>1. /\ n \in Nat /\ sizes' = Append(sizes, n) /\ writer = "open"
      /\ UNCHANGED <<encrypted, pc, cur, size, delivered>>
  BY WriteIs
<1>2. PICK f \in Seq(AnyCell) :
        /\ Extended(Stream, f, Stream') /\ WrittenCells(f, Len(sizes) + 1, n) /\ Len(f) <= HeaderLen + n
        /\ writer' = "open" => Len(f) = HeaderLen + n
  BY WriteIs
<1>3. /\ Stream \in Seq(AnyCell) /\ sizes \in Seq(Nat) /\ \A j \in 1..Len(Stream) : Stream[j].msg \in 1..Len(sizes)
  BY StreamIs, SizesAre
<1>4. \A m \in 1..Len(sizes) : sizes'[m] = sizes[m]
  BY <1>1, <1>3
<1> DEFINE t == Stream'
           w == writer'
<1>5. Extended(Stream, f, t) /\ (w = "open" => Len(f) = HeaderLen + n)
  BY <1>2
<1> HIDE DEF t, w
<1>6. /\ Sized(Stream, sizes, "open") => Sized(t, Append(sizes, n), w)
      /\ \A i \in Nat, m \in Nat, p \in Nat : PayloadAt(Stream, i, m, p, "open") => PayloadAt(t, i, m, p, w)
  BY <1>1, <1>2, <1>3, <1>5, PayExtended
<1>7. Sized(t, sizes', w)
  BY <1>1, <1>6 DEF PayInv
<1>8. ASSUME pc' = "pay", size' > 0 PROVE size' = sizes'[cur'] /\ PayloadAt(t, 0, cur', size', w)
  <2>1. pc = "pay" /\ size > 0 /\ cur \in 1..Len(sizes) /\ size \in Nat /\ cur \in Nat
    BY <1>1, <1>8 DEF ShapeOK, TypeOK
  <2>2. size = sizes[cur] /\ PayloadAt(Stream, 0, cur, size, "open")
    BY <1>1, <2>1 DEF PayInv
  <2> QED BY <1>1, <1>4, <1>6, <2>1, <2>2
<1>9. ReturnsOK'
  <2>1. \A i \in 1..Len(delivered) : sizes'[delivered[i].msg] = sizes[delivered[i].msg]
    BY <1>4, SizesAre
  <2>2. ReturnsOK
    BY DEF PayInv
  <2> QED BY <1>1, <2>1, <2>2, ReturnsKept
<1> QED BY <1>7, <1>8, <1>9 DEF PayInv, t, w

\* What is returned is the payload that was read, and that is what was sent, or nothing.
LEMMA PayFinish ==
  ASSUME ShapeOK, PayInv, pc = "pay", NEW k \in Nat, Leaves(Stream, k, Stream'),
         UNCHANGED <<encrypted, sizes, writer, cur>>,
         NEW data \in Seq(AnyCell), Finish(data), data = <<>> \/ data = Payload(cur, sizes[cur])
  PROVE  PayInv'
<1>1. /\ pc' \in {"loop", "dead"} /\ delivered' \in Seq([msg : Nat, data : Seq(AnyCell)])
      /\ \/ UNCHANGED delivered /\ pc' = "dead"
         \/ /\ pc' = "loop" /\ Len(delivered') = Len(delivered) + 1
            /\ \A i \in 1..Len(delivered) : delivered'[i] = delivered[i]
            /\ delivered'[Len(delivered')] = [msg |-> cur, data |-> data]
            /\ encrypted => macOK /\ data = Payload(cur, sizes[cur])
  BY FinishIs, Zenon
<1>2. Len(delivered) \in Nat /\ ReturnsOK
  BY DEF ShapeOK, PayInv
<1>3. ReturnsOK'
  <2>1. CASE UNCHANGED delivered
    BY <1>2, <2>1, ReturnsKept
  <2>2. CASE /\ Len(delivered') = Len(delivered) + 1
             /\ \A i \in 1..Len(delivered) : delivered'[i] = delivered[i]
             /\ delivered'[Len(delivered')] = [msg |-> cur, data |-> data]
             /\ encrypted => data = Payload(cur, sizes[cur])
    <3> DEFINE e == delivered'
    <3>1. /\ Len(e) = Len(delivered) + 1 /\ \A i \in 1..Len(delivered) : e[i] = delivered[i]
          /\ e[Len(e)] = [msg |-> cur, data |-> data]
      BY <2>2
    <3> HIDE DEF e
    <3>2. ASSUME NEW i \in 1..Len(e)
          PROVE  /\ e[i].data = Payload(e[i].msg, sizes[e[i].msg]) \/ e[i].data = <<>>
                 /\ encrypted => e[i].data = Payload(e[i].msg, sizes[e[i].msg])
      <4>1. CASE i = Len(e)
        <5>1. e[i].msg = cur /\ e[i].data = data
          BY <3>1, <4>1
        <5> QED BY <2>2, <5>1
      <4>2. CASE i # Len(e)
        <5>1. i \in 1..Len(delivered) /\ e[i] = delivered[i]
          BY <1>2, <3>1, <4>2
        <5> QED BY <1>2, <5>1 DEF ReturnsOK, Genuine
      <4> QED BY <4>1, <4>2
    <3>3. \A i \in 1..Len(delivered') :
             /\ delivered'[i].data = Payload(delivered'[i].msg, sizes'[delivered'[i].msg]) \/ delivered'[i].data = <<>>
             /\ encrypted' => delivered'[i].data = Payload(delivered'[i].msg, sizes'[delivered'[i].msg])
      BY <3>2 DEF e
    <3> QED BY <3>3 DEF ReturnsOK, Genuine
  <2> QED BY <1>1, <2>1, <2>2
<1>4. pc' # "pay"
  BY <1>1
<1> QED BY <1>3, <1>4, PayTaken

\* Reading the size field leads to the payload behind it.
LEMMA PaySize ==
  ASSUME ShapeOK, PayInv, ReadSize
  PROVE  PayInv'
<1>1. /\ UNCHANGED <<encrypted, sizes, writer, cur, delivered>> /\ pc = "siz"
  BY DEF ReadSize, fixed
<1>2. PICK r \in Reads(2) :
        /\ buf' = r.buf /\ net' = r.net
        /\ IF r.data = Field(cur, "siz") THEN size' = sizes[cur] /\ pc' = "pay"
           ELSE size' = 0 /\ pc' = IF r.data = <<Cell(cur, "siz", 1)>> THEN "pay" ELSE "dead"
  BY DEF ReadSize
<1>3. Leaves(Stream, Len(r.data), Stream')
  BY <1>2, TakeIs
<1>4. Len(r.data) \in 1..2 /\ Len(r.data) <= Len(Stream) /\ \A j \in 1..Len(r.data) : r.data[j] = Stream[j]
  <2>1. 2 \in Nat \ {0} /\ buf' = r.buf /\ net' = r.net
    BY <1>2
  <2> QED BY <2>1, TakeIs
<1>5. ReturnsOK'
  BY <1>1, ReturnsKept DEF PayInv
<1>6. ASSUME pc' = "pay", size' > 0 PROVE size' = sizes[cur'] /\ PayloadAt(Stream', 0, cur', size', writer)
  <2>1. r.data = Field(cur, "siz") /\ size' = sizes[cur]
    BY <1>2, <1>6
  <2>2. Len(r.data) = 2 /\ Stream[2].msg = cur /\ Stream[2].field = "siz" /\ Stream[2].part = 2
    BY <1>4, <2>1, FieldIs
  <2>3. 2 \in 1..Len(Stream) /\ cur \in Nat /\ sizes[cur] \in Nat /\ Stream \in Seq(AnyCell)
    <3>1. cur \in 1..Len(sizes) /\ Len(Stream) \in Nat
      BY <1>1, StreamIs DEF ShapeOK
    <3> QED BY <1>4, <2>2, <3>1, StreamIs, SizesAre
  <2>4. PayloadAt(Stream, 2, cur, sizes[cur], writer)
    BY <2>2, <2>3 DEF PayInv, Sized
  <2> DEFINE t == Stream'
  <2>5. Leaves(Stream, 2, t)
    BY <1>3, <2>2
  <2> HIDE DEF t
  <2>6. PayloadAt(Stream, 2 + 0, cur, sizes[cur], writer) => PayloadAt(t, 0, cur, sizes[cur], writer)
    BY <2>3, <2>5, PayLeaves
  <2> QED BY <1>1, <2>1, <2>4, <2>6 DEF t
<1> QED BY <1>1, <1>3, <1>4, <1>5, <1>6, PayTaken

\* Reading a payload of the right length reads the payload that was sent.
LEMMA PayRead ==
  ASSUME ShapeOK, PayInv, ReadPayload
  PROVE  PayInv'
<1>1. /\ UNCHANGED <<encrypted, sizes, writer, cur, size>> /\ pc = "pay" /\ size \in Nat \ {0} /\ size > 0
  BY DEF ReadPayload, fixed, ShapeOK, TypeOK
<1>2. PICK r \in Reads(size) :
        /\ buf' = r.buf /\ net' = r.net
        /\ IF Len(r.data) = size THEN Finish(r.data) ELSE pc' = "dead" /\ UNCHANGED delivered
  BY Zenon DEF ReadPayload
<1>3. Leaves(Stream, Len(r.data), Stream')
  BY <1>1, <1>2, TakeIs
<1>4. r.data \in Seq(AnyCell) /\ Len(r.data) \in 1..size /\ Len(r.data) <= Len(Stream)
      /\ \A j \in 1..Len(r.data) : r.data[j] = Stream[j]
  BY <1>1, <1>2, TakeIs
<1>5. CASE Len(r.data) = size
  <2>1. Finish(r.data)
    BY <1>2, <1>5, Zenon
  <2>2. size = sizes[cur] /\ PayloadAt(Stream, 0, cur, size, writer)
    BY <1>1 DEF PayInv
  <2>3. \A j \in 1..size : r.data[j] = Cell(cur, "pay", j)
    <3>1. ASSUME NEW j \in 1..size PROVE r.data[j] = Cell(cur, "pay", j)
      <4>1. 0 + j = j /\ j <= Len(Stream) /\ j \in 1..Len(r.data)
        BY <1>4, <1>5, StreamIs
      <4>2. Stream[0 + j] = Cell(cur, "pay", j)
        BY <2>2, <4>1 DEF PayloadAt
      <4> QED BY <1>4, <4>1, <4>2
    <3> QED BY <3>1
  <2>4. r.data = Payload(cur, sizes[cur])
    BY <1>1, <1>4, <1>5, <2>2, <2>3 DEF Payload
  <2>5. Len(r.data) \in Nat
    BY <1>4
  <2> QED BY <1>1, <1>3, <1>4, <2>1, <2>4, <2>5, PayFinish
<1>6. CASE Len(r.data) # size
  <2>1. pc' = "dead" /\ delivered' = delivered
    BY <1>2, <1>6, Zenon
  <2>2. ReturnsOK'
    BY <1>1, <2>1, ReturnsKept DEF PayInv
  <2>3. Len(r.data) \in Nat /\ pc' # "pay"
    BY <1>4, <2>1
  <2> QED BY <1>1, <1>3, <2>2, <2>3, PayTaken
<1> QED BY <1>5, <1>6

\* Every step keeps the payloads where they belong.
LEMMA PayStep == ShapeOK /\ PayInv /\ Next => PayInv'
<1> SUFFICES ASSUME ShapeOK, PayInv, Next PROVE PayInv'
  OBVIOUS
<1>0. Stream \in Seq(AnyCell) /\ 0 \in Nat /\ Leaves(Stream, 0, Stream)
  BY StreamIs, LeavesNone
<1>1. ASSUME NEW n \in PayloadSizes, Put(n) \/ \E k \in 0..Len(Frame(1, n)) - 1 : PutCut(n, k)
      PROVE  PayInv'
  <2>1. 0 \in 0..Len(Frame(1, n)) - 1
    BY SomeCut
  <2> QED BY <1>1, <2>1, PayWritten
<1>2. ASSUME UNCHANGED <<encrypted, sizes, writer, delivered>>, pc' # "pay", NEW k \in Nat, Leaves(Stream, k, Stream')
      PROVE  PayInv'
  <2>1. ReturnsOK'
    BY <1>2, ReturnsKept DEF PayInv
  <2> QED BY <1>2, <2>1, PayTaken
<1>3. CASE Begin
  <2>1. Leaves(Stream, Len(buf), Stream') /\ Len(buf) \in Nat
    BY <1>3, BeginIs DEF ShapeOK
  <2>2. UNCHANGED <<encrypted, sizes, writer, delivered>> /\ pc' # "pay"
    BY <1>3 DEF Begin, fixed
  <2> QED BY <1>2, <2>1, <2>2
<1>4. CASE ReadPreamble \/ ReadType \/ ReadHmacSize
  <2>1. PICK r \in Reads(2) : buf' = r.buf /\ net' = r.net
    BY <1>4 DEF ReadPreamble, ReadType, ReadHmacSize
  <2>2. Leaves(Stream, Len(r.data), Stream')
    BY <2>1, TakeIs
  <2>3. Len(r.data) \in Nat
    <3>1. 2 \in Nat \ {0} /\ buf' = r.buf /\ net' = r.net
      BY <2>1
    <3>2. Len(r.data) \in 1..2
      BY <3>1, TakeIs
    <3> QED BY <3>2
  <2>4. UNCHANGED <<encrypted, sizes, writer, delivered>> /\ pc' # "pay"
    BY <1>4 DEF ReadPreamble, ReadType, ReadHmacSize, fixed
  <2> QED BY <1>2, <2>2, <2>3, <2>4
<1>5. CASE ReadSize
  BY <1>5, PaySize
<1>6. CASE ReadPayload
  BY <1>6, PayRead
<1>7. CASE ReadNoPayload
  <2>1. pc = "pay" /\ UNCHANGED <<encrypted, sizes, writer, cur>> /\ Finish(<<>>) /\ net' = net /\ buf' = buf
    BY <1>7 DEF ReadNoPayload, fixed
  <2>2. Leaves(Stream, 0, Stream')
    BY <1>0, <2>1 DEF Stream
  <2>3. <<>> \in Seq(AnyCell) /\ (<<>> = <<>> \/ <<>> = Payload(cur, sizes[cur]))
    OBVIOUS
  <2> QED BY <1>0, <2>1, <2>2, <2>3, PayFinish, Zenon
<1>8. CASE ReadPreambleFails \/ ReadTypeFails \/ ReadHmacSizeFails \/ ReadSizeFails \/ ReadPayloadFails \/ DeadlinePasses
  <2>1. UNCHANGED <<encrypted, sizes, writer, cur, delivered, net, buf>>
    BY <1>8 DEF ReadPreambleFails, ReadTypeFails, ReadHmacSizeFails, ReadSizeFails, ReadPayloadFails, DeadlinePasses,
       fixed
  <2>2. pc' # "pay" \/ size' = 0 \/ (pc = "pay" /\ size' = size)
    BY <1>8 DEF ReadPreambleFails, ReadTypeFails, ReadHmacSizeFails, ReadSizeFails, ReadPayloadFails, DeadlinePasses
  <2>3. Stream' = Stream
    BY <2>1 DEF Stream
  <2>4. Leaves(Stream, 0, Stream')
    BY <1>0, <2>3
  <2>5. pc' = "pay" /\ size' > 0 => size' = sizes[cur'] /\ PayloadAt(Stream', 0, cur', size', writer)
    BY <2>1, <2>2, <2>3 DEF PayInv
  <2>6. ReturnsOK'
    BY <2>1, ReturnsKept DEF PayInv
  <2> QED BY <1>0, <2>1, <2>4, <2>5, <2>6, PayTaken
<1> QED BY <1>1, <1>3, <1>4, <1>5, <1>6, <1>7, <1>8 DEF Next

\* In every reachable state the payloads are where they belong, and what was returned is genuine.
LEMMA PayInvariant == Spec => [](ShapeOK /\ PayInv)
<1>1. Init => PayInv
  <2> SUFFICES ASSUME Init PROVE PayInv
    OBVIOUS
  <2>1. Stream = <<>> /\ Len(Stream) = 0 /\ delivered = <<>> /\ Len(delivered) = 0 /\ pc = "loop"
    BY DEF Init, Stream
  <2> QED BY <2>1 DEF PayInv, ReturnsOK, Sized
<1>2. ShapeOK /\ PayInv /\ [Next]_vars => PayInv'
  <2> SUFFICES ASSUME ShapeOK, PayInv, [Next]_vars PROVE PayInv'
    OBVIOUS
  <2>1. CASE Next
    BY <2>1, PayStep
  <2>2. CASE UNCHANGED vars
    <3>1. UNCHANGED <<encrypted, sizes, writer, net, buf, pc, cur, size, delivered>>
      BY <2>2 DEF vars
    <3>2. Stream' = Stream
      BY <3>1 DEF Stream
    <3>3. ReturnsOK'
      BY <3>1, ReturnsKept DEF PayInv
    <3> QED BY <3>1, <3>2, <3>3 DEF PayInv
  <2> QED BY <2>1, <2>2
<1> QED BY <1>1, <1>2, ShapeInvariant, PTL DEF Spec

\* With keys every message returned is one that was sent, whole, whatever the segmentation, the
\* time-outs and the cut writes: the length that was read and the hmac let nothing else through.
THEOREM ReturnsGenuine == Spec => []OnlyGenuine
<1>1. PayInv => OnlyGenuine
  BY DEF PayInv, ReturnsOK, OnlyGenuine
<1> QED BY <1>1, PayInvariant, PTL

\* Without keys too, a message is returned as it was sent or empty, never with cells of another or
\* a part of its own.
THEOREM ReturnsUnmixed == Spec => []NoMixing
<1>1. PayInv => NoMixing
  BY DEF PayInv, ReturnsOK, NoMixing
<1> QED BY <1>1, PayInvariant, PTL
-----------------------------------------------------------------------------
(* One message at a time. *)

\* With a window of one, the messages returned are the first ones written; at most one more was
\* written, and that one is being read or is on its way.
SerialInv ==
  window = 1 /\ pc # "dead" =>
    /\ \A i \in 1..Len(delivered) : delivered[i].msg = i
    /\ Len(sizes) <= Len(delivered) + 1
    /\ pc \in {"typ", "mac", "siz", "pay"} => Len(sizes) = Len(delivered) + 1
    /\ pc \in {"loop", "pre"} /\ Len(sizes) = Len(delivered) + 1 /\ writer = "open" => net # <<>>

\* How many messages were written and returned.
LEMMA CountsAre ==
  ASSUME ShapeOK
  PROVE  /\ Len(sizes) \in Nat /\ Len(delivered) \in Nat
         /\ SerialInv /\ window = 1 /\ pc # "dead" => Len(delivered) <= Len(sizes)
<1>1. Len(sizes) \in Nat /\ Len(delivered) \in Nat /\ \A i \in 1..Len(delivered) : delivered[i].msg \in 1..Len(sizes)
  <2>1. sizes \in Seq(PayloadSizes) /\ delivered \in Seq([msg : Nat, data : Seq(AnyCell)])
        /\ \A i \in 1..Len(delivered) : delivered[i].msg \in 1..Len(sizes)
    BY DEF ShapeOK, TypeOK
  <2> QED BY <2>1
<1>2. ASSUME SerialInv, window = 1, pc # "dead" PROVE Len(delivered) <= Len(sizes)
  <2>1. CASE Len(delivered) = 0
    BY <1>1, <2>1
  <2>2. CASE Len(delivered) # 0
    <3>1. Len(delivered) \in 1..Len(delivered)
      BY <1>1, <2>2
    <3>2. delivered[Len(delivered)].msg = Len(delivered)
      BY <1>2, <3>1 DEF SerialInv
    <3>3. delivered[Len(delivered)].msg \in 1..Len(sizes)
      BY <1>1, <3>1
    <3> QED BY <1>1, <3>2, <3>3
  <2> QED BY <2>1, <2>2
<1> QED BY <1>1, <1>2

\* A write: with a window of one, the message before it was returned.
LEMMA SerialWritten ==
  ASSUME ShapeOK, SerialInv, NEW n \in PayloadSizes, NEW k \in 0..Len(Frame(1, n)) - 1, Put(n) \/ PutCut(n, k)
  PROVE  SerialInv'
<1>1. /\ n \in Nat /\ Len(sizes') = Len(sizes) + 1 /\ pc # "dead" /\ Len(sizes) - Len(delivered) < window
      /\ UNCHANGED <<window, pc, delivered>>
  BY WriteIs
<1>2. PICK f \in Seq(AnyCell) :
        /\ net' = net \o f /\ (writer' = "open" => Len(f) = HeaderLen + n)
  BY WriteIs
<1> SUFFICES ASSUME window = 1 PROVE SerialInv'
  BY <1>1 DEF SerialInv
<1>3. Len(sizes) \in Nat /\ Len(delivered) \in Nat /\ Len(delivered) <= Len(sizes)
  BY <1>1, CountsAre
<1>4. Len(sizes) = Len(delivered) /\ \A i \in 1..Len(delivered) : delivered[i].msg = i
  BY <1>1, <1>3 DEF SerialInv
<1>5. pc \notin {"typ", "mac", "siz", "pay"}
  BY <1>1, <1>3, <1>4 DEF SerialInv
<1>6. writer' = "open" => net' # <<>>
  <2> SUFFICES ASSUME writer' = "open" PROVE net' # <<>>
    OBVIOUS
  <2>1. Len(f) = HeaderLen + n /\ HeaderLen \in Nat \ {0}
    BY <1>2 DEF HeaderLen
  <2>2. net \in Seq(AnyCell)
    BY DEF ShapeOK
  <2>3. Len(net \o f) = Len(net) + Len(f) /\ Len(net) \in Nat
    BY <2>2
  <2>4. Len(net') > 0
    BY <1>1, <1>2, <2>1, <2>3
  <2> QED BY <2>4
<1> QED BY <1>1, <1>3, <1>4, <1>5, <1>6 DEF SerialInv

\* Finding a preamble: it is that of a message not returned yet, hence of the last one written.
LEMMA SerialPreamble ==
  ASSUME ShapeOK, OrderInv, SerialInv, ReadPreamble
  PROVE  SerialInv'
<1>1. PICK r \in Reads(2) :
        /\ buf' = r.buf /\ net' = r.net
        /\ pc' = IF \E m \in 1..Len(sizes) : r.data = Field(m, "pre") THEN "typ" ELSE "dead"
  BY DEF ReadPreamble
<1>2. UNCHANGED <<window, sizes, writer, delivered>> /\ pc = "pre"
  BY DEF ReadPreamble, fixed
<1> SUFFICES ASSUME window = 1, pc' # "dead" PROVE SerialInv'
  BY <1>2 DEF SerialInv
<1>3. pc' = "typ" /\ \E m \in 1..Len(sizes) : r.data = Field(m, "pre")
  BY <1>1
<1>4. PICK m \in 1..Len(sizes) : r.data = Field(m, "pre")
  BY <1>3
<1>5. Len(r.data) <= Len(Stream) /\ \A j \in 1..Len(r.data) : r.data[j] = Stream[j]
  <2>1. 2 \in Nat \ {0} /\ buf' = r.buf /\ net' = r.net
    BY <1>1
  <2> QED BY <2>1, TakeIs
<1>6. 1 \in 1..Len(Stream) /\ Stream[1].msg = m /\ Stream[1].field = "pre"
  BY <1>4, <1>5, FieldIs, StreamIs
<1>7. Len(sizes) \in Nat /\ Len(delivered) \in Nat /\ Len(delivered) <= Len(sizes)
      /\ Len(sizes) <= Len(delivered) + 1 /\ \A i \in 1..Len(delivered) : delivered[i].msg = i
  BY <1>2, CountsAre DEF SerialInv
<1>8. Len(delivered) < m
  <2>1. CASE Len(delivered) = 0
    BY <1>7, <2>1
  <2>2. CASE Len(delivered) # 0
    <3>1. Len(delivered) \in 1..Len(delivered)
      BY <1>7, <2>2
    <3>2. Passed(Len(delivered), Stream)
      BY <1>2, <1>7, <3>1 DEF OrderInv
    <3> QED BY <1>6, <3>2 DEF Passed
  <2> QED BY <2>1, <2>2
<1>9. Len(sizes) = Len(delivered) + 1
  BY <1>7, <1>8
<1> QED BY <1>2, <1>3, <1>7, <1>9 DEF SerialInv

\* Returning a message: it is the last one written.
LEMMA SerialFinish ==
  ASSUME ShapeOK, OrderInv, SerialInv, pc = "pay", UNCHANGED <<window, sizes, writer>>,
         NEW data \in Seq(AnyCell), Finish(data)
  PROVE  SerialInv'
<1>1. /\ pc' \in {"loop", "dead"} /\ delivered' \in Seq([msg : Nat, data : Seq(AnyCell)])
      /\ \/ UNCHANGED delivered /\ pc' = "dead"
         \/ /\ pc' = "loop" /\ Len(delivered') = Len(delivered) + 1
            /\ \A i \in 1..Len(delivered) : delivered'[i] = delivered[i]
            /\ delivered'[Len(delivered')] = [msg |-> cur, data |-> data]
            /\ encrypted => macOK /\ data = Payload(cur, sizes[cur])
  BY FinishIs, Zenon
<1> SUFFICES ASSUME window = 1, pc' # "dead" PROVE SerialInv'
  BY DEF SerialInv
<1>2. /\ pc' = "loop" /\ Len(delivered') = Len(delivered) + 1
      /\ \A i \in 1..Len(delivered) : delivered'[i] = delivered[i]
      /\ delivered'[Len(delivered')].msg = cur
  BY <1>1
<1>3. Len(sizes) \in Nat /\ Len(delivered) \in Nat /\ Len(sizes) = Len(delivered) + 1
      /\ \A i \in 1..Len(delivered) : delivered[i].msg = i
  BY CountsAre DEF SerialInv
<1>4. cur = Len(delivered) + 1
  <2>1. cur \in 1..Len(sizes) /\ \A i \in 1..Len(delivered) : delivered[i].msg < cur
    BY DEF ShapeOK, OrderInv
  <2>2. CASE Len(delivered) = 0
    BY <1>3, <2>1, <2>2
  <2>3. CASE Len(delivered) # 0
    <3>1. Len(delivered) \in 1..Len(delivered)
      BY <1>3, <2>3
    <3>2. Len(delivered) < cur
      BY <1>3, <2>1, <3>1
    <3> QED BY <1>3, <2>1, <3>2
  <2> QED BY <2>2, <2>3
<1> DEFINE e == delivered'
<1>5. Len(e) = Len(delivered) + 1 /\ (\A i \in 1..Len(delivered) : e[i] = delivered[i]) /\ e[Len(e)].msg = cur
  BY <1>2
<1> HIDE DEF e
<1>6. ASSUME NEW i \in 1..Len(e) PROVE e[i].msg = i
  <2>1. CASE i = Len(e)
    BY <1>4, <1>5, <2>1
  <2>2. CASE i # Len(e)
    <3>1. i \in 1..Len(delivered)
      BY <1>3, <1>5, <2>2
    <3> QED BY <1>3, <1>5, <3>1
  <2> QED BY <2>1, <2>2
<1>7. Len(sizes') = Len(e) /\ Len(e) \in Nat
  BY <1>3, <1>5
<1> QED BY <1>2, <1>6, <1>7 DEF SerialInv, e

\* Every step keeps the messages one at a time.
LEMMA SerialStep == ShapeOK /\ OrderInv /\ SerialInv /\ Next => SerialInv'
<1> SUFFICES ASSUME ShapeOK, OrderInv, SerialInv, Next PROVE SerialInv'
  OBVIOUS
<1>1. ASSUME NEW n \in PayloadSizes, Put(n) \/ \E k \in 0..Len(Frame(1, n)) - 1 : PutCut(n, k)
      PROVE  SerialInv'
  <2>1. 0 \in 0..Len(Frame(1, n)) - 1
    BY SomeCut
  <2> QED BY <1>1, <2>1, SerialWritten
<1>2. CASE Begin
  <2>1. UNCHANGED <<window, sizes, writer, net, delivered>> /\ pc = "loop" /\ pc' = "pre"
    BY <1>2 DEF Begin, fixed
  <2> QED BY <2>1 DEF SerialInv
<1>3. CASE ReadPreamble
  BY <1>3, SerialPreamble
<1>4. CASE ReadPreambleFails
  <2>1. UNCHANGED <<window, sizes, writer, net, delivered>> /\ pc = "pre" /\ pc' \in {"loop", "dead"}
    BY <1>4 DEF ReadPreambleFails, fixed
  <2> QED BY <2>1 DEF SerialInv
<1>5. CASE \/ ReadType \/ ReadHmacSize \/ ReadSize
           \/ ReadTypeFails \/ ReadHmacSizeFails \/ ReadSizeFails \/ ReadPayloadFails
  <2>1. /\ UNCHANGED <<window, sizes, writer, delivered>>
        /\ pc \in {"typ", "mac", "siz", "pay"} /\ pc' \in {"mac", "siz", "pay", "dead"}
    BY <1>5 DEF ReadType, ReadHmacSize, ReadSize, ReadTypeFails, ReadHmacSizeFails, ReadSizeFails, ReadPayloadFails,
       fixed
  <2> QED BY <2>1 DEF SerialInv
<1>6. CASE ReadPayload
  <2>1. pc = "pay" /\ size \in Nat \ {0} /\ UNCHANGED <<window, sizes, writer>>
    BY <1>6 DEF ReadPayload, ShapeOK, TypeOK, fixed
  <2>2. PICK r \in Reads(size) :
          /\ buf' = r.buf /\ net' = r.net
          /\ IF Len(r.data) = size THEN Finish(r.data) ELSE pc' = "dead" /\ UNCHANGED delivered
    BY <1>6, Zenon DEF ReadPayload
  <2>3. r.data \in Seq(AnyCell)
    BY <2>1, <2>2, TakeIs
  <2>4. CASE Len(r.data) = size
    <3>1. Finish(r.data)
      BY <2>2, <2>4, Zenon
    <3> QED BY <2>1, <2>3, <3>1, SerialFinish
  <2>5. CASE Len(r.data) # size
    <3>1. pc' = "dead"
      BY <2>2, <2>5, Zenon
    <3> QED BY <3>1 DEF SerialInv
  <2> QED BY <2>4, <2>5
<1>7. CASE ReadNoPayload
  <2>1. pc = "pay" /\ UNCHANGED <<window, sizes, writer>> /\ Finish(<<>>)
    BY <1>7 DEF ReadNoPayload, fixed
  <2>2. <<>> \in Seq(AnyCell)
    OBVIOUS
  <2> QED BY <2>1, <2>2, SerialFinish, Zenon
<1>8. CASE DeadlinePasses
  <2>1. UNCHANGED <<window, sizes, writer, net, delivered, pc>>
    BY <1>8 DEF DeadlinePasses, fixed
  <2> QED BY <2>1 DEF SerialInv
<1> QED BY <1>1, <1>2, <1>3, <1>4, <1>5, <1>6, <1>7, <1>8 DEF Next

\* In every reachable state the messages go one at a time, if the window is one.
LEMMA SerialInvariant == Spec => [](ShapeOK /\ OrderInv /\ SerialInv)
<1>1. Init => SerialInv
  <2> SUFFICES ASSUME Init PROVE SerialInv
    OBVIOUS
  <2>1. Len(sizes) = 0 /\ Len(delivered) = 0 /\ pc = "loop"
    BY DEF Init
  <2> QED BY <2>1 DEF SerialInv
<1>2. ShapeOK /\ OrderInv /\ SerialInv /\ [Next]_vars => SerialInv'
  <2> SUFFICES ASSUME ShapeOK, OrderInv, SerialInv, [Next]_vars PROVE SerialInv'
    OBVIOUS
  <2>1. CASE Next
    BY <2>1, SerialStep
  <2>2. CASE UNCHANGED vars
    BY <2>2 DEF vars, SerialInv
  <2> QED BY <2>1, <2>2
<1> QED BY <1>1, <1>2, OrderInvariant, PTL DEF Spec

\* An application that sends a message only when the one before was received loses none silently:
\* when nothing is left to read, every message was returned, unless R is dead.
THEOREM LosesNoneSilently == Spec => []NoSilentLoss
<1>1. ShapeOK /\ SerialInv => NoSilentLoss
  <2> SUFFICES ASSUME ShapeOK, SerialInv, window = 1, Quiet PROVE DeliveredAll
    BY DEF NoSilentLoss
  <2>1. Len(sizes) \in Nat /\ Len(delivered) \in Nat /\ Len(delivered) <= Len(sizes)
    BY CountsAre DEF Quiet
  <2>2. Len(sizes) = Len(delivered) /\ \A i \in 1..Len(delivered) : delivered[i].msg = i
    BY <2>1 DEF SerialInv, Quiet
  <2> QED BY <2>2 DEF DeliveredAll
<1> QED BY <1>1, SerialInvariant, PTL
-----------------------------------------------------------------------------
(* A smooth network. *)

\* Every frame written fits the reader's buffer.
Fits == \A m \in 1..Len(sizes) : Len(Frame(m, sizes[m])) <= BufSize

\* All of the last frame but its first k cells is buffered, and nothing else.
Left(k) == net = <<>> /\ Leaves(Frame(Len(sizes), sizes[Len(sizes)]), k, buf)

\* The frame is still on its way, all of it, or the reader has got it all and is at its place in it.
Calm == /\ pc # "dead"
        /\ pc \in {"loop", "pre"} => net = IF Len(sizes) = Len(delivered) THEN <<>>
                                           ELSE Frame(Len(sizes), sizes[Len(sizes)])
        /\ pc = "pre" => buf = <<>>
        /\ pc = "typ" => Left(2)
        /\ pc = "mac" => Left(4) /\ cur = Len(sizes) /\ encrypted
        /\ pc = "siz" => Left(HeaderLen - 2) /\ cur = Len(sizes) /\ (encrypted => macOK)
        /\ pc = "pay" => Left(HeaderLen) /\ cur = Len(sizes) /\ (encrypted => macOK) /\ size = sizes[cur]

\* With a window of one on a smooth network.
SmoothInv == smooth => /\ ~due /\ writer = "open"
                       /\ window = 1 /\ Fits => Calm

\* A Read of no more than is buffered takes it from the buffer.
LEMMA BufferedRead ==
  ASSUME ShapeOK, NEW want \in Nat \ {0}, Len(buf) >= want, NEW r \in Reads(want)
  PROVE  /\ r.net = net /\ Leaves(buf, want, r.buf)
         /\ r.data \in Seq(AnyCell) /\ Len(r.data) = want /\ \A j \in 1..want : r.data[j] = buf[j]
<1>1. buf \in Seq(AnyCell) /\ Len(buf) \in Nat
  BY DEF ShapeOK
<1>2. buf # <<>> /\ Least(want, Len(buf)) = want
  BY <1>1 DEF Least
<1>3. r.data = Split(buf, want)[1] /\ r.buf = Split(buf, want)[2] /\ r.net = net
  BY <1>2 DEF Reads
<1> QED BY <1>1, <1>3, CutIs

\* A Read on a smooth network buffers all that was written, if it fits.
LEMMA FreshRead ==
  ASSUME ShapeOK, smooth, buf = <<>>, BufSize > 2, Len(net) <= BufSize, Len(net) >= 2, NEW r \in Reads(2)
  PROVE  /\ r.net = <<>> /\ Leaves(net, 2, r.buf)
         /\ r.data \in Seq(AnyCell) /\ Len(r.data) = 2 /\ \A j \in 1..2 : r.data[j] = net[j]
<1>1. net \in Seq(AnyCell) /\ Len(net) \in Nat /\ BufSize \in Nat /\ net # <<>>
  BY FramingAssumption DEF ShapeOK
<1> DEFINE most == Least(IF 2 >= BufSize THEN 2 ELSE BufSize, Len(net))
           B(n) == SubSeq(net, 1, n)
           K(n) == Least(2, Len(B(n)))
<1>2. most = Len(net)
  BY <1>1 DEF Least
<1>3. /\ r.data = Split(B(most), K(most))[1] /\ r.buf = Split(B(most), K(most))[2]
      /\ r.net = Split(net, most)[2]
  <2> DEFINE R(n) == [data |-> Split(B(n), K(n))[1], buf |-> Split(B(n), K(n))[2], net |-> Split(net, n)[2]]
  <2>1. ~(due \/ net = <<>>)
    BY <1>1 DEF Reads
  <2>2. Reads(2) = {R(n) : n \in IF smooth THEN {most} ELSE 1..most}
    BY <2>1, Zenon DEF Reads
  <2>3. r = R(most)
    BY <2>2
  <2> QED BY <2>3
<1>4. B(Len(net)) = net
  BY <1>1
<1>5. K(Len(net)) = 2
  BY <1>1, <1>4 DEF Least
<1>6. B(most) = net /\ K(most) = 2
  BY <1>2, <1>4, <1>5
<1> HIDE DEF most, B, K
<1>7. r.data = Split(net, 2)[1] /\ r.buf = Split(net, 2)[2] /\ r.net = Split(net, Len(net))[2]
  BY <1>2, <1>3, <1>6
<1>8. Leaves(net, Len(net), r.net)
  BY <1>1, <1>7, CutIs
<1>9. r.net = <<>>
  BY <1>1, <1>8 DEF Leaves
<1>10. 2 \in Nat /\ 2 <= Len(net)
  BY <1>1
<1>11. /\ Split(net, 2)[1] \in Seq(AnyCell) /\ Len(Split(net, 2)[1]) = 2
       /\ \A j \in 1..2 : Split(net, 2)[1][j] = net[j]
       /\ Leaves(net, 2, Split(net, 2)[2])
  BY <1>1, <1>10, CutIs, Zenon
<1> QED BY <1>7, <1>9, <1>11

\* Two cells that are a header field.
LEMMA FieldFrom ==
  ASSUME NEW m, NEW f, NEW d \in Seq(AnyCell), Len(d) = 2, d[1] = Cell(m, f, 1), d[2] = Cell(m, f, 2)
  PROVE  d = Field(m, f)
<1>1. d = <<d[1], d[2]>>
  OBVIOUS
<1> QED BY <1>1 DEF Field

\* The next header field is read from the buffer.
LEMMA TakeField ==
  ASSUME ShapeOK, NEW s \in Seq(AnyCell), NEW k \in Nat, Leaves(s, k, buf), k + 2 <= Len(s),
         NEW m, NEW f, s[k + 1] = Cell(m, f, 1), s[k + 2] = Cell(m, f, 2), NEW r \in Reads(2)
  PROVE  r.data = Field(m, f) /\ r.net = net /\ Leaves(s, k + 2, r.buf)
<1>1. /\ Len(buf) \in Nat /\ Len(s) \in Nat /\ Len(s) = k + Len(buf)
      /\ \A j \in 1..Len(buf) : buf[j] = s[k + j]
  BY DEF Leaves, ShapeOK
<1>2. Len(buf) >= 2 /\ buf[1] = s[k + 1] /\ buf[2] = s[k + 2]
  BY <1>1
<1>3. /\ r.net = net /\ Leaves(buf, 2, r.buf)
      /\ r.data \in Seq(AnyCell) /\ Len(r.data) = 2 /\ \A j \in 1..2 : r.data[j] = buf[j]
  <2>1. 2 \in Nat \ {0}
    OBVIOUS
  <2> QED BY <1>2, <2>1, BufferedRead, Zenon
<1>4. r.data[1] = Cell(m, f, 1) /\ r.data[2] = Cell(m, f, 2)
  BY <1>2, <1>3
<1>5. r.data = Field(m, f)
  BY <1>3, <1>4, FieldFrom
<1>6. Leaves(s, k + 2, r.buf)
  BY <1>3, LeavesTwice
<1> QED BY <1>3, <1>5, <1>6

\* The header fields of the last frame, each at its place.
LEMMA LastFrame ==
  ASSUME ShapeOK, NEW m \in 1..Len(sizes), NEW s, s = Frame(m, sizes[m])
  PROVE  /\ s \in Seq(AnyCell) /\ Len(s) = HeaderLen + sizes[m] /\ sizes[m] \in Nat
         /\ s[1] = Cell(m, "pre", 1) /\ s[2] = Cell(m, "pre", 2)
         /\ s[3] = Cell(m, "typ", 1) /\ s[4] = Cell(m, "typ", 2)
         /\ encrypted => s[5] = Cell(m, "mac", 1) /\ s[6] = Cell(m, "mac", 2)
         /\ s[HeaderLen - 1] = Cell(m, "siz", 1) /\ s[HeaderLen] = Cell(m, "siz", 2)
         /\ \A i \in 1..sizes[m] : s[HeaderLen + i] = Cell(m, "pay", i)
<1>1. m \in Nat /\ sizes[m] \in Nat
  BY SizesAre, CountsAre
<1>2. /\ s \in Seq(AnyCell) /\ Len(s) = HeaderLen + sizes[m] /\ HeaderPlaces(m)
      /\ \A i \in 1..HeaderLen : s[i] = Header(m)[i]
      /\ \A i \in 1..sizes[m] : s[HeaderLen + i] = Cell(m, "pay", i)
  BY <1>1, FrameIs
<1>3. HeaderLen \in {6, 8} /\ (encrypted => HeaderLen = 8)
  BY DEF HeaderLen
<1>4. /\ s[1] = Header(m)[1] /\ s[2] = Header(m)[2] /\ s[3] = Header(m)[3] /\ s[4] = Header(m)[4]
      /\ s[5] = Header(m)[5] /\ s[6] = Header(m)[6]
      /\ s[HeaderLen - 1] = Header(m)[HeaderLen - 1] /\ s[HeaderLen] = Header(m)[HeaderLen]
  BY <1>2, <1>3
<1> QED BY <1>1, <1>2, <1>4 DEF HeaderPlaces

\* What a step of the reader has to show.
LEMMA SmoothFrom ==
  ASSUME SmoothInv, UNCHANGED <<fixed, sizes, writer>>, smooth => ~due', smooth /\ window = 1 /\ Fits => Calm'
  PROVE  SmoothInv'
<1>1. /\ encrypted' = encrypted /\ smooth' = smooth /\ window' = window /\ sizes' = sizes /\ writer' = writer
  BY DEF fixed
<1>2. Fits' <=> Fits
  BY <1>1 DEF Fits, Frame, Header, Payload
<1> QED BY <1>1, <1>2 DEF SmoothInv
\* Calm after a step of the reader, which changes neither the keys nor what was written.
LEMMA CalmAfter ==
  ASSUME UNCHANGED <<encrypted, sizes>>, NEW s, s = Frame(Len(sizes), sizes[Len(sizes)]), pc' # "dead",
         pc' \in {"loop", "pre"} => net' = IF Len(sizes) = Len(delivered') THEN <<>> ELSE s,
         pc' = "pre" => buf' = <<>>,
         pc' = "typ" => net' = <<>> /\ Leaves(s, 2, buf'),
         pc' = "mac" => net' = <<>> /\ Leaves(s, 4, buf') /\ cur' = Len(sizes) /\ encrypted,
         pc' = "siz" => net' = <<>> /\ Leaves(s, HeaderLen - 2, buf') /\ cur' = Len(sizes) /\ (encrypted => macOK'),
         pc' = "pay" => net' = <<>> /\ Leaves(s, HeaderLen, buf') /\ cur' = Len(sizes) /\ (encrypted => macOK')
                        /\ size' = sizes[cur']
  PROVE  Calm'
<1>1. HeaderLen' = HeaderLen
  BY DEF HeaderLen
<1>2. (Frame(Len(sizes), sizes[Len(sizes)]))' = s
  BY DEF Frame, Header
<1>3. sizes' = sizes /\ encrypted' = encrypted
  OBVIOUS
<1> QED BY <1>1, <1>2, <1>3 DEF Calm, Left

\* A message is being read, or is on its way: it is the last one written.
LEMMA LastWritten ==
  ASSUME ShapeOK, SerialInv, window = 1, pc # "dead",
         pc \in {"typ", "mac", "siz", "pay"} \/ Len(sizes) # Len(delivered)
  PROVE  Len(sizes) = Len(delivered) + 1 /\ Len(sizes) \in 1..Len(sizes) /\ Len(delivered) \in Nat
<1>1. Len(sizes) \in Nat /\ Len(delivered) \in Nat /\ Len(delivered) <= Len(sizes)
  BY CountsAre
<1>2. Len(sizes) = Len(delivered) + 1
  BY <1>1 DEF SerialInv
<1> QED BY <1>1, <1>2

\* The preamble of the frame that has arrived.
LEMMA CalmPreamble ==
  ASSUME ShapeOK, SerialInv, Calm, smooth, window = 1, Fits, ReadPreamble
  PROVE  Calm'
<1> DEFINE l == Len(sizes)
           s == Frame(l, sizes[l])
<1>1. PICK r \in Reads(2) :
        /\ buf' = r.buf /\ net' = r.net
        /\ pc' = IF \E m \in 1..Len(sizes) : r.data = Field(m, "pre") THEN "typ" ELSE "dead"
  BY DEF ReadPreamble
<1>2. UNCHANGED <<encrypted, sizes, delivered>> /\ pc = "pre"
  BY DEF ReadPreamble, fixed
<1>3. buf = <<>> /\ net = IF l = Len(delivered) THEN <<>> ELSE s
  BY <1>2 DEF Calm
<1>4. net # <<>>
  BY <1>3 DEF Reads
<1>5. net = s /\ l \in 1..l
  BY <1>2, <1>3, <1>4, LastWritten
<1>6. /\ s \in Seq(AnyCell) /\ Len(s) = HeaderLen + sizes[l] /\ sizes[l] \in Nat
      /\ s[1] = Cell(l, "pre", 1) /\ s[2] = Cell(l, "pre", 2)
  BY <1>5, LastFrame
<1>7. Len(s) <= BufSize
  BY <1>5 DEF Fits
<1> HIDE DEF s
<1>8. Len(net) >= 2 /\ Len(net) <= BufSize /\ BufSize > 2
  <2>1. HeaderLen \in {6, 8}
    BY DEF HeaderLen
  <2> QED BY <1>5, <1>6, <1>7, <2>1, FramingAssumption
<1>9. /\ r.net = <<>> /\ Leaves(net, 2, r.buf)
      /\ r.data \in Seq(AnyCell) /\ Len(r.data) = 2 /\ \A j \in 1..2 : r.data[j] = net[j]
  BY <1>3, <1>8, FreshRead
<1>10. r.data = Field(l, "pre")
  <2>1. r.data[1] = Cell(l, "pre", 1) /\ r.data[2] = Cell(l, "pre", 2)
    BY <1>5, <1>6, <1>9
  <2> QED BY <1>9, <2>1, FieldFrom
<1>11. pc' = "typ" /\ net' = <<>> /\ Leaves(s, 2, buf')
  BY <1>1, <1>5, <1>9, <1>10
<1> QED BY <1>2, <1>11, CalmAfter DEF s

\* The header fields behind it.
LEMMA CalmHeader ==
  ASSUME ShapeOK, SerialInv, Calm, window = 1, ReadType \/ ReadHmacSize \/ ReadSize
  PROVE  Calm'
<1> DEFINE l == Len(sizes)
           s == Frame(l, sizes[l])
<1>1. UNCHANGED <<encrypted, sizes, delivered>> /\ pc \in {"typ", "mac", "siz"}
  BY DEF ReadType, ReadHmacSize, ReadSize, fixed
<1>2. l \in 1..l /\ l \in Nat
  BY <1>1, LastWritten
<1>3. /\ s \in Seq(AnyCell) /\ Len(s) = HeaderLen + sizes[l] /\ sizes[l] \in Nat
      /\ s[3] = Cell(l, "typ", 1) /\ s[4] = Cell(l, "typ", 2)
      /\ encrypted => s[5] = Cell(l, "mac", 1) /\ s[6] = Cell(l, "mac", 2)
      /\ s[HeaderLen - 1] = Cell(l, "siz", 1) /\ s[HeaderLen] = Cell(l, "siz", 2)
  BY <1>2, LastFrame
<1>4. HeaderLen \in {6, 8} /\ (encrypted => HeaderLen = 8) /\ (~encrypted => HeaderLen = 6)
  BY DEF HeaderLen
<1>5. ASSUME NEW k \in Nat, Left(k), k + 2 <= HeaderLen, NEW f,
             s[k + 1] = Cell(l, f, 1), s[k + 2] = Cell(l, f, 2), NEW r \in Reads(2)
      PROVE  r.data = Field(l, f) /\ r.net = <<>> /\ Leaves(s, k + 2, r.buf)
  <2>1. Leaves(s, k, buf) /\ net = <<>>
    BY <1>5 DEF Left
  <2> HIDE DEF s
  <2>2. k + 2 <= Len(s)
    BY <1>3, <1>4, <1>5
  <2>3. r.data = Field(l, f) /\ r.net = net /\ Leaves(s, k + 2, r.buf)
    BY <1>3, <1>5, <2>1, <2>2, TakeField
  <2> QED BY <2>1, <2>3
<1>6. CASE ReadType
  <2>1. PICK r \in Reads(2) :
          /\ buf' = r.buf /\ net' = r.net /\ cur' = r.data[1].msg
          /\ pc' = IF r.data # Field(cur', "typ") THEN "dead" ELSE IF encrypted THEN "mac" ELSE "siz"
    BY <1>6 DEF ReadType
  <2>2. Left(2)
    BY <1>6 DEF ReadType, Calm
  <2> HIDE DEF s
  <2>3. r.data = Field(l, "typ") /\ r.net = <<>> /\ Leaves(s, 4, r.buf)
    <3>1. 2 + 2 <= HeaderLen /\ s[2 + 1] = Cell(l, "typ", 1) /\ s[2 + 2] = Cell(l, "typ", 2) /\ 2 \in Nat
      BY <1>3, <1>4
    <3>2. r.data = Field(l, "typ") /\ r.net = <<>> /\ Leaves(s, 2 + 2, r.buf)
      BY <1>5, <2>2, <3>1
    <3> QED BY <3>2
  <2>4. cur' = l
    BY <2>1, <2>3, FieldIs
  <2>5. net' = <<>> /\ Leaves(s, 4, buf') /\ pc' = IF encrypted THEN "mac" ELSE "siz"
    BY <2>1, <2>3, <2>4
  <2>6. CASE encrypted
    BY <1>1, <2>4, <2>5, <2>6, CalmAfter DEF s
  <2>7. CASE ~encrypted
    <3>1. Leaves(s, HeaderLen - 2, buf')
      <4>1. HeaderLen - 2 = 4
        BY <1>4, <2>7
      <4> QED BY <2>5, <4>1
    <3> QED BY <1>1, <2>4, <2>5, <2>7, <3>1, CalmAfter DEF s
  <2> QED BY <2>6, <2>7
<1>7. CASE ReadHmacSize
  <2>1. PICK r \in Reads(2) : buf' = r.buf /\ net' = r.net /\ macOK' = (r.data = Field(cur, "mac"))
    BY <1>7 DEF ReadHmacSize
  <2>2. Left(4) /\ cur = l /\ encrypted /\ cur' = cur /\ pc' = "siz"
    BY <1>7 DEF ReadHmacSize, Calm
  <2> HIDE DEF s
  <2>3. r.data = Field(l, "mac") /\ r.net = <<>> /\ Leaves(s, 6, r.buf)
    <3>1. 4 + 2 <= HeaderLen /\ s[4 + 1] = Cell(l, "mac", 1) /\ s[4 + 2] = Cell(l, "mac", 2) /\ 4 \in Nat
      BY <1>3, <1>4, <2>2
    <3>2. r.data = Field(l, "mac") /\ r.net = <<>> /\ Leaves(s, 4 + 2, r.buf)
      BY <1>5, <2>2, <3>1
    <3> QED BY <3>2
  <2>4. HeaderLen - 2 = 6
    BY <1>4, <2>2
  <2>5. macOK' /\ net' = <<>> /\ Leaves(s, HeaderLen - 2, buf')
    BY <2>1, <2>2, <2>3, <2>4
  <2> QED BY <1>1, <2>2, <2>5, CalmAfter DEF s
<1>8. CASE ReadSize
  <2>1. PICK r \in Reads(2) :
          /\ buf' = r.buf /\ net' = r.net
          /\ IF r.data = Field(cur, "siz") THEN size' = sizes[cur] /\ pc' = "pay"
             ELSE size' = 0 /\ pc' = IF r.data = <<Cell(cur, "siz", 1)>> THEN "pay" ELSE "dead"
    BY <1>8 DEF ReadSize
  <2>2. Left(HeaderLen - 2) /\ cur = l /\ (encrypted => macOK) /\ cur' = cur /\ macOK' = macOK
    BY <1>8 DEF ReadSize, Calm
  <2> HIDE DEF s
  <2>3. r.data = Field(l, "siz") /\ r.net = <<>> /\ Leaves(s, HeaderLen, r.buf)
    <3> DEFINE k == HeaderLen - 2
    <3>1. /\ k + 2 = HeaderLen /\ k \in Nat /\ k + 1 = HeaderLen - 1
          /\ s[k + 1] = Cell(l, "siz", 1) /\ s[k + 2] = Cell(l, "siz", 2)
      BY <1>3, <1>4
    <3>4. Left(k) /\ k + 2 <= HeaderLen
      BY <1>4, <2>2, <3>1
    <3> HIDE DEF k
    <3>2. r.data = Field(l, "siz") /\ r.net = <<>> /\ Leaves(s, k + 2, r.buf)
      BY <1>5, <3>1, <3>4
    <3> QED BY <3>1, <3>2
  <2>4. size' = sizes[cur] /\ pc' = "pay" /\ net' = <<>> /\ Leaves(s, HeaderLen, buf')
    BY <2>1, <2>2, <2>3
  <2> QED BY <1>1, <2>2, <2>4, CalmAfter DEF s
<1> QED BY <1>6, <1>7, <1>8
\* Returning the message.
LEMMA CalmFinish ==
  ASSUME ShapeOK, SerialInv, Calm, window = 1, pc = "pay", UNCHANGED <<encrypted, sizes>>, net' = <<>>,
         NEW data \in Seq(AnyCell), Finish(data), encrypted => data = Payload(cur, sizes[cur])
  PROVE  Calm'
<1> DEFINE s == Frame(Len(sizes), sizes[Len(sizes)])
<1>1. encrypted => macOK
  BY DEF Calm
<1>2. pc' = "loop" /\ delivered' = Append(delivered, [msg |-> cur, data |-> data])
  BY <1>1 DEF Finish
<1>3. Len(delivered') = Len(delivered) + 1
  <2>1. delivered \in Seq([msg : Nat, data : Seq(AnyCell)]) /\ [msg |-> cur, data |-> data] \in [msg : Nat, data : Seq(AnyCell)]
    BY DEF ShapeOK, TypeOK
  <2> QED BY <1>2, <2>1
<1>4. Len(sizes) = Len(delivered')
  BY <1>3, LastWritten
<1> QED BY <1>2, <1>4, CalmAfter

\* The payload.
LEMMA CalmPayload ==
  ASSUME ShapeOK, SerialInv, Calm, window = 1, ReadPayload \/ ReadNoPayload
  PROVE  Calm'
<1> DEFINE l == Len(sizes)
           s == Frame(l, sizes[l])
<1>1. UNCHANGED <<encrypted, sizes, cur>> /\ pc = "pay"
  BY DEF ReadPayload, ReadNoPayload, fixed
<1>2. l \in 1..l /\ Left(HeaderLen) /\ cur = l /\ size = sizes[l]
  BY <1>1, LastWritten DEF Calm
<1>3. /\ s \in Seq(AnyCell) /\ Len(s) = HeaderLen + sizes[l] /\ sizes[l] \in Nat /\ HeaderLen \in Nat
      /\ \A i \in 1..sizes[l] : s[HeaderLen + i] = Cell(l, "pay", i)
  <2>1. HeaderLen \in Nat
    BY DEF HeaderLen
  <2> QED BY <1>2, <2>1, LastFrame
<1>4. Leaves(s, HeaderLen, buf) /\ net = <<>>
  BY <1>2 DEF Left
<1> HIDE DEF s
<1>5. Len(buf) = size /\ size \in Nat /\ \A j \in 1..size : buf[j] = Cell(l, "pay", j)
  <2>1. Len(buf) \in Nat
    BY DEF ShapeOK
  <2>2. Len(buf) = size
    BY <1>2, <1>3, <1>4, <2>1 DEF Leaves
  <2> QED BY <1>2, <1>3, <1>4, <2>2 DEF Leaves
<1>6. CASE ReadPayload
  <2>1. size \in Nat \ {0}
    BY <1>5, <1>6 DEF ReadPayload
  <2>2. PICK r \in Reads(size) :
          /\ buf' = r.buf /\ net' = r.net
          /\ IF Len(r.data) = size THEN Finish(r.data) ELSE pc' = "dead" /\ UNCHANGED delivered
    BY <1>6, Zenon DEF ReadPayload
  <2>3. /\ r.net = net /\ Leaves(buf, size, r.buf)
        /\ r.data \in Seq(AnyCell) /\ Len(r.data) = size /\ \A j \in 1..size : r.data[j] = buf[j]
    BY <1>5, <2>1, BufferedRead
  <2>4. r.data = Payload(cur, sizes[cur])
    BY <1>2, <1>5, <2>3 DEF Payload
  <2>5. Finish(r.data)
    BY <2>2, <2>3, Zenon
  <2>6. net' = <<>>
    BY <1>4, <2>2, <2>3
  <2> QED BY <1>1, <2>3, <2>4, <2>5, <2>6, CalmFinish
<1>7. CASE ReadNoPayload
  <2>1. size = 0 /\ net' = <<>> /\ Finish(<<>>)
    BY <1>4, <1>7 DEF ReadNoPayload
  <2>2. ~encrypted
    <3>1. sizes[l] \in PayloadSizes
      BY <1>2 DEF ShapeOK, TypeOK
    <3> QED BY <1>2, <2>1, <3>1, FramingAssumption DEF PayloadSizes
  <2>3. <<>> \in Seq(AnyCell) /\ (encrypted => <<>> = Payload(cur, sizes[cur]))
    BY <2>2
  <2> QED BY <1>1, <2>1, <2>3, CalmFinish, Zenon
<1> QED BY <1>6, <1>7

\* A write, on a smooth network a whole one: nothing else is on its way.
LEMMA SmoothWritten ==
  ASSUME ShapeOK, SerialInv, SmoothInv, smooth, NEW n \in PayloadSizes, NEW k \in 0..Len(Frame(1, n)) - 1,
         Put(n) \/ PutCut(n, k)
  PROVE  SmoothInv'
<1>0. Put(n)
  BY DEF PutCut
<1>1. /\ n \in Nat /\ sizes' = Append(sizes, n) /\ Len(sizes) \in Nat /\ Len(sizes') = Len(sizes) + 1
      /\ pc # "dead" /\ Len(sizes) - Len(delivered) < window
      /\ UNCHANGED <<encrypted, smooth, window, buf, pc, due, cur, macOK, size, delivered>>
  BY WriteIs
<1>2. net' = net \o Frame(Len(sizes) + 1, n) /\ writer' = writer
  BY <1>0 DEF Put
<1>3. ~due' /\ writer' = "open"
  BY <1>1, <1>2 DEF SmoothInv
<1>4. ASSUME window = 1, Fits' PROVE Calm'
  <2>1. sizes \in Seq(Nat)
    BY SizesAre
  <2>2. (\A m \in 1..Len(sizes) : sizes'[m] = sizes[m]) /\ sizes'[Len(sizes) + 1] = n
    BY <1>1, <2>1
  <2>3. \A m, p : Frame(m, p)' = Frame(m, p)
    BY <1>1 DEF Frame, Header, Payload
  <2>4. Fits
    <3> SUFFICES ASSUME NEW m \in 1..Len(sizes) PROVE Len(Frame(m, sizes[m])) <= BufSize
      BY DEF Fits
    <3>1. m \in 1..Len(sizes') /\ sizes'[m] = sizes[m]
      BY <1>1, <2>2
    <3>2. Len(Frame(m, sizes'[m])) <= BufSize
      BY <1>1, <1>4, <3>1 DEF Fits, Frame, Header, Payload
    <3> QED BY <3>1, <3>2
  <2>5. Calm
    BY <1>4, <2>4 DEF SmoothInv
  <2>6. Len(delivered) \in Nat /\ Len(sizes) = Len(delivered) /\ pc \in {"loop", "pre"}
    <3>1. Len(delivered) \in Nat /\ Len(delivered) <= Len(sizes)
      BY <1>1, <1>4, CountsAre
    <3>2. Len(sizes) = Len(delivered)
      BY <1>1, <1>4, <3>1
    <3>3. pc \notin {"typ", "mac", "siz", "pay"}
      BY <1>1, <1>4, <3>1, <3>2 DEF SerialInv
    <3> QED BY <1>1, <3>1, <3>2, <3>3 DEF ShapeOK, TypeOK
  <2> DEFINE s == Frame(Len(sizes) + 1, n)
  <2>7. net' = s
    <3>1. net = <<>>
      BY <2>5, <2>6 DEF Calm
    <3>2. s \in Seq(AnyCell)
      BY <1>1, FrameIs
    <3> HIDE DEF s
    <3>3. <<>> \o s = s
      BY <3>2, ConcatEmptySeq
    <3> QED BY <1>2, <3>1, <3>3 DEF s
  <2>8. (Frame(Len(sizes), sizes[Len(sizes)]))' = s
    <3>1. Len(sizes') = Len(sizes) + 1 /\ sizes'[Len(sizes')] = n /\ encrypted' = encrypted
      BY <1>1, <2>2
    <3> QED BY <3>1 DEF Frame, Header
  <2> HIDE DEF s
  <2>9. pc' \in {"loop", "pre"} /\ (pc' = "pre" => buf' = <<>>) /\ Len(sizes') # Len(delivered')
    BY <1>1, <2>5, <2>6 DEF Calm
  <2> QED BY <2>7, <2>8, <2>9 DEF Calm
<1> QED BY <1>3, <1>4, <1>1 DEF SmoothInv

\* Every step keeps a smooth connection calm.
LEMMA SmoothStep == ShapeOK /\ SerialInv /\ SmoothInv /\ Next => SmoothInv'
<1> SUFFICES ASSUME ShapeOK, SerialInv, SmoothInv, Next PROVE SmoothInv'
  OBVIOUS
<1>0. smooth' = smooth
  BY DEF Next, Put, PutCut, Begin, ReadPreamble, ReadPreambleFails, ReadType, ReadTypeFails, ReadHmacSize,
     ReadHmacSizeFails, ReadSize, ReadSizeFails, ReadPayload, ReadNoPayload, ReadPayloadFails, DeadlinePasses, fixed
<1> SUFFICES ASSUME smooth PROVE SmoothInv'
  BY <1>0 DEF SmoothInv
<1>10. ~due /\ writer = "open" /\ (window = 1 /\ Fits => Calm)
  BY DEF SmoothInv
<1>1. ASSUME NEW n \in PayloadSizes, Put(n) \/ \E k \in 0..Len(Frame(1, n)) - 1 : PutCut(n, k)
      PROVE  SmoothInv'
  <2>1. 0 \in 0..Len(Frame(1, n)) - 1
    BY SomeCut
  <2> QED BY <1>1, <2>1, SmoothWritten
<1>2. CASE Begin
  <2>1. /\ UNCHANGED <<fixed, sizes, writer, net, delivered>> /\ encrypted' = encrypted
        /\ buf' = <<>> /\ ~due' /\ pc = "loop" /\ pc' = "pre"
    BY <1>2 DEF Begin, fixed
  <2>2. ASSUME window = 1, Fits PROVE Calm'
    <3> DEFINE s == Frame(Len(sizes), sizes[Len(sizes)])
    <3>1. net' = IF Len(sizes) = Len(delivered') THEN <<>> ELSE s
      BY <1>10, <2>1, <2>2 DEF Calm
    <3> QED BY <2>1, <3>1, CalmAfter
  <2> QED BY <2>1, <2>2, SmoothFrom
<1>3. CASE \/ ReadPreamble \/ ReadType \/ ReadHmacSize \/ ReadSize \/ ReadPayload \/ ReadNoPayload
  <2>1. UNCHANGED <<fixed, sizes, writer, due>>
    BY <1>3 DEF ReadPreamble, ReadType, ReadHmacSize, ReadSize, ReadPayload, ReadNoPayload
  <2>2. ASSUME window = 1, Fits PROVE Calm'
    BY <1>3, <1>10, <2>2, CalmPreamble, CalmHeader, CalmPayload
  <2> QED BY <1>10, <2>1, <2>2, SmoothFrom
<1>4. ~(\/ ReadPreambleFails \/ ReadTypeFails \/ ReadHmacSizeFails \/ ReadSizeFails \/ ReadPayloadFails
        \/ DeadlinePasses)
  <2>1. ~ReadFails
    BY <1>10 DEF ReadFails, AtEOF
  <2> QED BY <2>1 DEF ReadPreambleFails, ReadTypeFails, ReadHmacSizeFails, ReadSizeFails, ReadPayloadFails,
        DeadlinePasses
<1> QED BY <1>1, <1>2, <1>3, <1>4 DEF Next

\* In every reachable state a smooth connection with a window of one is calm.
LEMMA SmoothInvariant == Spec => [](ShapeOK /\ SerialInv /\ SmoothInv)
<1>1. Init => SmoothInv
  <2> SUFFICES ASSUME Init PROVE SmoothInv
    OBVIOUS
  <2>1. Len(sizes) = 0 /\ Len(delivered) = 0 /\ pc = "loop" /\ net = <<>> /\ ~due /\ writer = "open"
    BY DEF Init
  <2> QED BY <2>1 DEF SmoothInv, Calm
<1>2. ShapeOK /\ SerialInv /\ SmoothInv /\ [Next]_vars => SmoothInv'
  <2> SUFFICES ASSUME ShapeOK, SerialInv, SmoothInv, [Next]_vars PROVE SmoothInv'
    OBVIOUS
  <2>1. CASE Next
    BY <2>1, SmoothStep
  <2>2. CASE UNCHANGED vars
    BY <2>2 DEF vars, SmoothInv, Fits, Calm, Left, HeaderLen, Frame, Header
  <2> QED BY <2>1, <2>2
<1> QED BY <1>1, <1>2, SerialInvariant, PTL DEF Spec

\* When frames arrive whole, on time and one at a time, and fit the bufio.Reader, the receiver
\* survives them all, for any number of messages.
THEOREM SurvivesSmooth == Spec => []SmoothSurvives
<1>1. SmoothInv => SmoothSurvives
  BY DEF SmoothInv, SmoothSurvives, Fits, Calm
<1> QED BY <1>1, SmoothInvariant, PTL
=============================================================================
