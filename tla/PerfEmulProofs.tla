--------------------------- MODULE PerfEmulProofs ---------------------------
(***************************************************************************)
(* Parent and sandbox stay in step.  While a request is under way, what    *)
(* has not been read of it is laid out as the parent wrote it, block after *)
(* block, so that each read() of the sandbox finds the control message at  *)
(* the beginning of its buffer and the answer has the length asked for.    *)
(*                                                                         *)
(* The hypothesis Aligned is needed: a socket that takes part of a block   *)
(* lets a read() begin in the middle of one, and what it leaves in the     *)
(* sandbox's buffer need not be the length that was asked for.             *)
(***************************************************************************)
EXTENDS PerfEmul, SequenceTheorems, TLAPS

(* The socket holds a number of whole buffers.                             *)
Aligned == \E n \in Nat \ {0} : Cap = n * Buf

Msg == [op : {"none", "sendback", "sendreceive"}, in : Nat, out : Nat]
Byte == Msg \X Nat

(* The requests of a program in which every request asks for an answer.    *)
Requests ==
  {SendBack(n) : n \in Nat \ {0}}
    \cup {SendReceive(m, n) : m \in Nat, n \in Nat \ {0}}

(* A whole buffer of the parent, and the bytes of a request.               *)
Block(h) == Into(Zeros, Bytes(h))
Total(h) == Hdr + h.in

-----------------------------------------------------------------------------
LEMMA Sizes ==
  /\ Hdr \in Nat /\ Hdr > 0 /\ Buf \in Nat /\ Buf > 0 /\ Hdr <= Buf
  /\ Cap \in Nat /\ Cap > 0
  BY SizesAssumption

LEMMA RequestShape ==
  ASSUME NEW h \in Requests
  PROVE  /\ h \in Msg /\ h.in \in Nat /\ h.out \in Nat /\ h.out > 0
         /\ h.op \in {"sendback", "sendreceive"}
         /\ h.op = "sendback" => h.in = 0
         /\ h # NoMsg
         /\ Total(h) \in Nat /\ Total(h) >= Hdr
  <1> DEFINE Shape == /\ h = [op |-> h.op, in |-> h.in, out |-> h.out]
                      /\ h.in \in Nat /\ h.out \in Nat /\ h.out > 0
                      /\ h.op \in {"sendback", "sendreceive"}
                      /\ h.op = "sendback" => h.in = 0
  <1>1. Shape
    <2>1. ASSUME NEW n \in Nat \ {0}, h = SendBack(n)
          PROVE  Shape
      BY <2>1 DEF SendBack
    <2>2. ASSUME NEW m \in Nat, NEW n \in Nat \ {0}, h = SendReceive(m, n)
          PROVE  Shape
      BY <2>2 DEF SendReceive
    <2>3. QED
      BY <2>1, <2>2 DEF Requests
  <1>2. h \in Msg
    BY <1>1 DEF Msg
  <1>3. h # NoMsg
    BY <1>1 DEF NoMsg
  <1>4. Total(h) \in Nat /\ Total(h) >= Hdr
    BY <1>1, Sizes DEF Total
  <1>5. QED
    BY <1>1, <1>2, <1>3, <1>4

LEMMA LeastIs ==
  ASSUME NEW a \in Nat, NEW b \in Nat
  PROVE  /\ Least(a, b) \in Nat /\ Least(a, b) <= a /\ Least(a, b) <= b
         /\ Least(a, b) = a \/ Least(a, b) = b
  BY DEF Least

(* Writing over the beginning of a buffer.                                 *)
LEMMA Overwritten ==
  ASSUME NEW s \in Seq(Byte), Len(s) = Buf, NEW t \in Seq(Byte), Len(t) <= Buf
  PROVE  /\ Into(s, t) \in Seq(Byte) /\ Len(Into(s, t)) = Buf
         /\ \A j \in 1..Len(t) : Into(s, t)[j] = t[j]
         /\ \A j \in (Len(t) + 1)..Buf : Into(s, t)[j] = s[j]
  <1> DEFINE u == SubSeq(s, Len(t) + 1, Len(s))
  <1>1. /\ u \in Seq(Byte) /\ Len(u) = Buf - Len(t)
        /\ \A j \in 1..(Buf - Len(t)) : u[j] = s[Len(t) + j]
    BY Sizes
  <1>2. Into(s, t) = t \o u
    BY DEF Into
  <1> HIDE DEF u
  <1>3. /\ Into(s, t) \in Seq(Byte) /\ Len(Into(s, t)) = Buf
        /\ \A j \in 1..Len(t) : Into(s, t)[j] = t[j]
    BY <1>1, <1>2, Sizes
  <1>4. ASSUME NEW j \in (Len(t) + 1)..Buf PROVE Into(s, t)[j] = s[j]
    <2>1. (t \o u)[j] = u[j - Len(t)]
      BY <1>1, Sizes
    <2>2. j - Len(t) \in 1..(Buf - Len(t)) /\ Len(t) + (j - Len(t)) = j
      BY Sizes
    <2>3. QED
      BY <1>1, <1>2, <2>1, <2>2
  <1>5. QED
    BY <1>3, <1>4

LEMMA BlockIs ==
  ASSUME NEW h \in Requests
  PROVE  /\ Block(h) \in Seq(Byte) /\ Len(Block(h)) = Buf
         /\ \A j \in 1..Hdr : Block(h)[j] = <<h, j>>
  <1>1. Zeros \in Seq(Byte) /\ Len(Zeros) = Buf
    <2>1. Zero \in Byte
      BY DEF Zero, NoMsg, Msg, Byte
    <2>2. QED
      BY <2>1, Sizes DEF Zeros
  <1>2. /\ Bytes(h) \in Seq(Byte) /\ Len(Bytes(h)) = Hdr
        /\ \A j \in 1..Hdr : Bytes(h)[j] = <<h, j>>
    BY Sizes, RequestShape DEF Bytes, Byte
  <1>3. QED
    BY <1>1, <1>2, Overwritten, Sizes DEF Block

-----------------------------------------------------------------------------
(* A sequence of bytes laid out block after block, the last perhaps cut.   *)
Laid(s, h) ==
  /\ s \in Seq(Byte)
  /\ \A k \in Nat, j \in 1..Buf : k * Buf + j <= Len(s) => s[k * Buf + j] = Block(h)[j]

Whole(s) == \E q \in Nat : Len(s) = q * Buf

LEMMA LaidEmpty ==
  ASSUME NEW h
  PROVE  Laid(<<>>, h) /\ Whole(<<>>)
  <1>1. Whole(<<>>)
    BY Sizes DEF Whole
  <1>2. \A k \in Nat, j \in 1..Buf : ~ (k * Buf + j <= 0)
    BY Sizes
  <1>3. QED
    BY <1>1, <1>2 DEF Laid

LEMMA LaidAppend ==
  ASSUME NEW h \in Requests, NEW s, Laid(s, h), Whole(s), NEW n \in 1..Buf
  PROVE  /\ Laid(s \o SubSeq(Block(h), 1, n), h)
         /\ Len(s \o SubSeq(Block(h), 1, n)) = Len(s) + n
         /\ n = Buf => Whole(s \o SubSeq(Block(h), 1, n))
  <1> DEFINE c == SubSeq(Block(h), 1, n)
  <1>1. /\ c \in Seq(Byte) /\ Len(c) = n
        /\ \A j \in 1..n : c[j] = Block(h)[j]
    BY BlockIs, Sizes
  <1>2. PICK q \in Nat : Len(s) = q * Buf
    BY DEF Whole
  <1>3. s \in Seq(Byte) /\ Len(s) \in Nat
    BY DEF Laid
  <1> HIDE DEF c
  <1>4. s \o c \in Seq(Byte) /\ Len(s \o c) = Len(s) + n
    BY <1>1, <1>3
  <1>5. ASSUME NEW k \in Nat, NEW j \in 1..Buf, k * Buf + j <= Len(s \o c)
        PROVE  (s \o c)[k * Buf + j] = Block(h)[j]
    <2>1. CASE k < q
      <3>1. k * Buf + Buf <= q * Buf
        BY <2>1, Sizes
      <3>2. k * Buf \in Nat
        BY Sizes
      <3>3. k * Buf + j \in 1..Len(s)
        BY <3>1, <3>2, <1>2, Sizes
      <3>4. (s \o c)[k * Buf + j] = s[k * Buf + j]
        BY <3>3, <1>1, <1>3
      <3>5. QED
        BY <3>3, <3>4, <1>3 DEF Laid
    <2>2. CASE k >= q
      <3>1. k = q
        <4>1. CASE k > q
          <5>1. q * Buf + Buf <= k * Buf
            BY <4>1, Sizes
          <5>2. k * Buf \in Nat /\ q * Buf \in Nat
            BY Sizes
          <5>3. QED
            BY <5>1, <5>2, <1>2, <1>4, <1>5, Sizes
        <4>2. QED
          BY <4>1, <2>2
      <3>2. q * Buf \in Nat
        BY Sizes
      <3>3. j \in 1..n
        BY <3>1, <3>2, <1>2, <1>4, <1>5
      <3>4. (s \o c)[Len(s) + j] = c[j]
        BY <3>3, <1>1, <1>3
      <3>5. QED
        BY <3>1, <3>3, <3>4, <1>1, <1>2
    <2>3. k < q \/ k >= q
      OBVIOUS
    <2>4. QED
      BY <2>1, <2>2, <2>3
  <1>6. n = Buf => Len(s \o c) = (q + 1) * Buf
    BY <1>2, <1>4, Sizes
  <1>7. n = Buf => Whole(s \o c)
    <2>1. q + 1 \in Nat
      OBVIOUS
    <2>2. QED
      BY <1>6, <2>1 DEF Whole
  <1>8. Laid(s \o c, h)
    BY <1>4, <1>5 DEF Laid
  <1>9. QED
    BY <1>4, <1>7, <1>8 DEF c

(* Reading a block from the front, or the last piece.                      *)
LEMMA LaidFront ==
  ASSUME NEW h \in Requests, NEW s, Laid(s, h), NEW n \in Nat, n <= Len(s), n <= Buf
  PROVE  /\ SubSeq(s, 1, n) \in Seq(Byte) /\ Len(SubSeq(s, 1, n)) = n
         /\ \A j \in 1..n : SubSeq(s, 1, n)[j] = Block(h)[j]
  <1>1. s \in Seq(Byte) /\ Len(s) \in Nat
    BY DEF Laid
  <1>2. /\ SubSeq(s, 1, n) \in Seq(Byte) /\ Len(SubSeq(s, 1, n)) = n
        /\ \A j \in 1..n : SubSeq(s, 1, n)[j] = s[j]
    BY <1>1
  <1>3. ASSUME NEW j \in 1..n PROVE s[j] = Block(h)[j]
    <2>1. j \in 1..Buf /\ 0 * Buf + j = j /\ j <= Len(s)
      BY <1>1, Sizes
    <2>2. QED
      BY <2>1 DEF Laid
  <1>4. QED
    BY <1>2, <1>3

LEMMA LaidRest ==
  ASSUME NEW h \in Requests, NEW s, Laid(s, h), Buf <= Len(s)
  PROVE  /\ Laid(SubSeq(s, Buf + 1, Len(s)), h)
         /\ Len(SubSeq(s, Buf + 1, Len(s))) = Len(s) - Buf
         /\ Whole(s) => Whole(SubSeq(s, Buf + 1, Len(s)))
  <1> DEFINE t == SubSeq(s, Buf + 1, Len(s))
  <1>1. s \in Seq(Byte) /\ Len(s) \in Nat
    BY DEF Laid
  <1>2. /\ t \in Seq(Byte) /\ Len(t) = Len(s) - Buf
        /\ \A j \in 1..(Len(s) - Buf) : t[j] = s[Buf + j]
    BY <1>1, Sizes
  <1> HIDE DEF t
  <1>3. ASSUME NEW k \in Nat, NEW j \in 1..Buf, k * Buf + j <= Len(t)
        PROVE  t[k * Buf + j] = Block(h)[j]
    <2>1. k * Buf \in Nat /\ (k + 1) * Buf = Buf + k * Buf /\ k + 1 \in Nat
      BY Sizes
    <2> DEFINE i == k * Buf
    <2>6. Len(t) = Len(s) - Buf /\ i \in Nat /\ i + j <= Len(t)
      BY <2>1, <1>2, <1>3
    <2> HIDE DEF i
    <2>7. i + j \in 1..(Len(s) - Buf)
      BY <2>6, <1>1, Sizes
    <2>2. k * Buf + j \in 1..(Len(s) - Buf)
      BY <2>7 DEF i
    <2>3. t[k * Buf + j] = s[(k + 1) * Buf + j]
      <3>1. Buf + (k * Buf + j) = (k + 1) * Buf + j
        BY <2>1, Sizes
      <3>2. QED
        BY <2>2, <1>2, <3>1
    <2>4. (k + 1) * Buf + j <= Len(s)
      BY <2>1, <1>1, <1>2, <1>3, Sizes
    <2>5. QED
      BY <2>1, <2>3, <2>4 DEF Laid
  <1>4. ASSUME NEW q \in Nat, Len(s) = q * Buf
        PROVE  Whole(t)
    <2>1. q > 0
      BY <1>4, Sizes
    <2>2. (q - 1) * Buf = q * Buf - Buf /\ q - 1 \in Nat
      BY <2>1, Sizes
    <2>3. QED
      BY <2>2, <1>2, <1>4 DEF Whole
  <1>5. QED
    BY <1>2, <1>3, <1>4 DEF Laid, Whole, t

-----------------------------------------------------------------------------
(* What the parent's write() calls still have to write: r bytes, the last  *)
(* of a request, in blocks.                                                *)
Unwritten(cs, h, r) ==
  /\ cs \in Seq(Seq(Byte))
  /\ r <= Len(cs) * Buf
  /\ \A i \in 1..Len(cs) :
       /\ (i - 1) * Buf < r
       /\ cs[i] = SubSeq(Block(h), 1, Least(Buf, r - (i - 1) * Buf))

LEMMA CutBlock ==
  ASSUME NEW h \in Requests, NEW n \in Nat, n <= Buf
  PROVE  SubSeq(Block(h), 1, n) \in Seq(Byte) /\ Len(SubSeq(Block(h), 1, n)) = n
  BY BlockIs, Sizes

LEMMA UnwrittenPieces ==
  ASSUME NEW h \in Requests
  PROVE  Unwritten(Pieces(h, Total(h)), h, Total(h))
  <1> DEFINE t == Total(h)
             N == (t + Buf - 1) \div Buf
             piece(i) == SubSeq(Block(h), 1, Least(Buf, t - (i - 1) * Buf))
  <1>1. t \in Nat /\ t > 0 /\ h # NoMsg
    BY RequestShape, Sizes
  <1>2. Pieces(h, t) = [i \in 1..N |-> piece(i)]
    BY <1>1 DEF Pieces, Block
  <1> HIDE DEF t
  <1>3. N \in Nat /\ N * Buf <= t + Buf - 1 /\ t + Buf - 1 < N * Buf + Buf
    <2>1. t + Buf - 1 \in Nat
      BY <1>1, Sizes
    <2>2. \A x \in Nat : x \div Buf \in Nat /\ (x \div Buf) * Buf <= x /\ x < (x \div Buf) * Buf + Buf
      BY Sizes
    <2>3. QED
      BY <2>1, <2>2
  <1> HIDE DEF N
  <1>4. t <= N * Buf
    BY <1>1, <1>3, Sizes
  <1>5. ASSUME NEW i \in 1..N
        PROVE  (i - 1) * Buf < t /\ piece(i) \in Seq(Byte)
    <2>1. (i - 1) * Buf + Buf <= N * Buf /\ (i - 1) * Buf \in Nat
      <3>1. (i - 1) * Buf + Buf = i * Buf
        BY <1>3, Sizes
      <3>2. i * Buf <= N * Buf
        BY <1>3, Sizes
      <3>3. QED
        BY <1>3, <3>1, <3>2, Sizes
    <2> DEFINE b == (i - 1) * Buf
    <2>2. b \in Nat /\ b + Buf <= N * Buf
      BY <2>1
    <2> HIDE DEF b
    <2>3. b < t
      BY <2>2, <1>1, <1>3, Sizes
    <2>4. Least(Buf, t - b) \in Nat /\ Least(Buf, t - b) <= Buf
      BY <2>2, <2>3, <1>1, Sizes, LeastIs
    <2>5. piece(i) \in Seq(Byte)
      BY <2>4, CutBlock DEF b
    <2>6. QED
      BY <2>3, <2>5 DEF b
  <1>6. /\ Pieces(h, t) \in Seq(Seq(Byte)) /\ Len(Pieces(h, t)) = N
        /\ \A i \in 1..N : Pieces(h, t)[i] = piece(i)
    <2> HIDE DEF piece
    <2>1. QED
      BY <1>2, <1>3, <1>5
  <1>7. QED
    BY <1>4, <1>5, <1>6 DEF Unwritten, t

(* The request of soaap_perf_enter_dataout_persistent_sbox().              *)
LEMMA UnwrittenHeader ==
  ASSUME NEW h \in Requests, h.in = 0
  PROVE  Unwritten(<<Bytes(h)>>, h, Total(h))
  <1>1. Total(h) = Hdr
    BY Sizes DEF Total
  <1>2. Least(Buf, Hdr - (1 - 1) * Buf) = Hdr
    BY Sizes DEF Least
  <1>3. SubSeq(Block(h), 1, Hdr) = Bytes(h)
    <2>1. /\ Bytes(h) \in Seq(Byte) /\ Len(Bytes(h)) = Hdr
          /\ \A j \in 1..Hdr : Bytes(h)[j] = <<h, j>>
      BY Sizes, RequestShape DEF Bytes, Byte
    <2>2. /\ SubSeq(Block(h), 1, Hdr) \in Seq(Byte)
          /\ Len(SubSeq(Block(h), 1, Hdr)) = Hdr
          /\ \A j \in 1..Hdr : SubSeq(Block(h), 1, Hdr)[j] = <<h, j>>
      BY BlockIs, Sizes
    <2>3. QED
      BY <2>1, <2>2, SeqEqual
  <1>4. <<Bytes(h)>> \in Seq(Seq(Byte)) /\ Len(<<Bytes(h)>>) = 1 /\ <<Bytes(h)>>[1] = Bytes(h)
    BY <1>3, CutBlock, Sizes
  <1>5. (1 - 1) * Buf < Hdr /\ Hdr <= 1 * Buf
    BY Sizes
  <1>6. \A i \in 1..1 : i = 1
    OBVIOUS
  <1>7. QED
    BY <1>1, <1>2, <1>3, <1>4, <1>5, <1>6 DEF Unwritten

LEMMA UnwrittenEnd ==
  ASSUME NEW h, NEW cs, NEW r \in Nat, Unwritten(cs, h, r)
  PROVE  cs = <<>> <=> r = 0
  <1>1. cs \in Seq(Seq(Byte)) /\ Len(cs) \in Nat
    BY DEF Unwritten
  <1>2. ASSUME cs = <<>> PROVE r = 0
    <2>1. r <= 0 * Buf
      BY <1>2 DEF Unwritten
    <2>2. QED
      BY <2>1, Sizes
  <1>3. ASSUME cs # <<>> PROVE r # 0
    <2>1. 1 \in 1..Len(cs)
      BY <1>1, <1>3
    <2>2. (1 - 1) * Buf < r
      BY <2>1 DEF Unwritten
    <2>3. QED
      BY <2>2, Sizes
  <1>4. QED
    BY <1>2, <1>3

LEMMA UnwrittenFirst ==
  ASSUME NEW h \in Requests, NEW cs, NEW r \in Nat, Unwritten(cs, h, r), cs # <<>>
  PROVE  /\ cs[1] = SubSeq(Block(h), 1, Least(Buf, r))
         /\ Len(cs[1]) = Least(Buf, r)
         /\ Least(Buf, r) \in 1..Buf
         /\ r - Least(Buf, r) \in Nat
         /\ r - Least(Buf, r) # 0 => Least(Buf, r) = Buf
  <1>1. 1 \in 1..Len(cs) /\ r # 0
    <2>1. cs \in Seq(Seq(Byte))
      BY DEF Unwritten
    <2>2. r # 0
      BY UnwrittenEnd
    <2>3. QED
      BY <2>1, <2>2
  <1>2. r - (1 - 1) * Buf = r
    BY Sizes
  <1>3. cs[1] = SubSeq(Block(h), 1, Least(Buf, r))
    BY <1>1, <1>2 DEF Unwritten
  <1>4. /\ Least(Buf, r) \in 1..Buf /\ r - Least(Buf, r) \in Nat
        /\ r - Least(Buf, r) # 0 => Least(Buf, r) = Buf
    BY <1>1, Sizes DEF Least
  <1>5. QED
    BY <1>3, <1>4, CutBlock

LEMMA UnwrittenTail ==
  ASSUME NEW h \in Requests, NEW cs, NEW r \in Nat, Unwritten(cs, h, r), cs # <<>>
  PROVE  Unwritten(Tail(cs), h, r - Least(Buf, r))
  <1> DEFINE l == Least(Buf, r)
  <1>1. cs \in Seq(Seq(Byte)) /\ Len(cs) \in Nat /\ Len(cs) > 0 /\ r <= Len(cs) * Buf
    BY DEF Unwritten
  <1>2. /\ Tail(cs) \in Seq(Seq(Byte)) /\ Len(Tail(cs)) = Len(cs) - 1
        /\ \A i \in 1..(Len(cs) - 1) : Tail(cs)[i] = cs[i + 1]
    BY <1>1
  <1>3. l \in 1..Buf /\ ((r <= Buf /\ l = r) \/ (r > Buf /\ l = Buf))
    BY UnwrittenFirst, Sizes DEF Least
  <1>4. (Len(cs) - 1) * Buf = Len(cs) * Buf - Buf
    BY <1>1, Sizes
  <1>5. r - l <= (Len(cs) - 1) * Buf
    <2>1. Len(cs) * Buf >= Buf /\ Len(cs) * Buf \in Nat
      <3>1. \A k \in Nat : k > 0 => k * Buf >= Buf /\ k * Buf \in Nat
        BY Sizes
      <3>2. QED
        BY <3>1, <1>1
    <2>2. QED
      BY <2>1, <1>1, <1>3, <1>4, Sizes
  <1>6. ASSUME NEW i \in 1..(Len(cs) - 1)
        PROVE  /\ (i - 1) * Buf < r - l
               /\ Tail(cs)[i] = SubSeq(Block(h), 1, Least(Buf, (r - l) - (i - 1) * Buf))
    <2>1. i + 1 \in 1..Len(cs) /\ (i + 1) - 1 = i
      BY <1>1
    <2>2. i * Buf < r /\ cs[i + 1] = SubSeq(Block(h), 1, Least(Buf, r - i * Buf))
      BY <2>1 DEF Unwritten
    <2>3. i * Buf = (i - 1) * Buf + Buf /\ (i - 1) * Buf \in Nat
      BY <1>1, Sizes
    <2> DEFINE b == (i - 1) * Buf
    <2>4. b \in Nat /\ b + Buf < r
      BY <2>2, <2>3
    <2> HIDE DEF b
    <2>5. l = Buf
      BY <2>4, <1>3, Sizes
    <2>6. b < r - l /\ r - (b + Buf) = (r - l) - b
      BY <2>4, <2>5, Sizes
    <2>7. QED
      BY <2>2, <2>3, <2>6, <1>2 DEF b
  <1>7. QED
    BY <1>2, <1>5, <1>6 DEF Unwritten

-----------------------------------------------------------------------------
(***************************************************************************)
(* The invariant.  While the request h is under way r bytes of it are to   *)
(* be written, and                                                         *)
(*   - nothing of it has been read, or                                     *)
(*   - the sandbox chews what has not, with the end of the message in the  *)
(*     buffer that the length to send back is then read from, or           *)
(*   - it sends what the parent still wants, or                            *)
(*   - has sent it.                                                        *)
(***************************************************************************)
Unread(h, r) ==
  /\ spc = "read" /\ r + Len(toBox) = Total(h)
  /\ toParent = 0 /\ want = h.out

Chewing(h, r) ==
  /\ spc = "chew" /\ left = r + Len(toBox) /\ left > 0
  /\ sbuf[Hdr] = <<h, Hdr>>
  /\ toParent = 0 /\ want = h.out

Sending(r) ==
  /\ spc = "send" /\ r = 0 /\ toBox = <<>>
  /\ left \in Nat /\ left > 0
  /\ toParent \in Nat /\ want = left + toParent

Sent(r) ==
  /\ spc = "read" /\ r = 0 /\ toBox = <<>>
  /\ toParent \in Nat /\ toParent > 0 /\ want = toParent

Busy(h, r) ==
  /\ Unwritten(chunks, h, r)
  /\ Laid(toBox, h)
  /\ r # 0 => Whole(toBox)
  /\ ppc = "awaiting" => r = 0
  /\ Unread(h, r) \/ Chewing(h, r) \/ Sending(r) \/ Sent(r)

Calm ==
  /\ toBox = <<>> /\ toParent = 0 /\ want = 0
  /\ \/ ppc \in {"idle", "inside"} /\ spc = "read"
     \/ ppc \in {"closed", "exited"} /\ spc \in {"read", "exited"}

StepInv ==
  AllWait =>
    /\ prog \in Programs
    /\ sbuf \in Seq(Byte) /\ Len(sbuf) = Buf
    /\ IF ppc \in {"writing", "awaiting"}
       THEN \E h \in Requests, r \in Nat : Busy(h, r)
       ELSE Calm

LEMMA StepInit == Init => StepInv
  <1> SUFFICES ASSUME Init PROVE StepInv
    OBVIOUS
  <1>1. Zeros \in Seq(Byte) /\ Len(Zeros) = Buf
    <2>1. Zero \in Byte
      BY DEF Zero, NoMsg, Msg, Byte
    <2>2. QED
      BY <2>1, Sizes DEF Zeros
  <1>2. QED
    BY <1>1 DEF Init, StepInv, Calm

(* A new request.                                                          *)
LEMMA Requested ==
  ASSUME Calm, spc = "read", NEW h \in Requests, NEW cs,
         Unwritten(cs, h, Total(h)),
         ppc' = "writing", chunks' = cs, want' = h.out,
         UNCHANGED <<spc, toBox, toParent>>
  PROVE  \E g \in Requests, r \in Nat : Busy(g, r)'
  <1>1. Total(h) \in Nat
    BY RequestShape
  <1>2. toBox' = <<>> /\ toParent' = 0 /\ spc' = "read"
    BY DEF Calm
  <1>3. Laid(toBox', h) /\ Whole(toBox')
    BY <1>2, LaidEmpty
  <1>4. Total(h) + Len(toBox') = Total(h)
    BY <1>1, <1>2
  <1>5. Busy(h, Total(h))'
    BY <1>2, <1>3, <1>4 DEF Busy, Unread
  <1>6. QED
    BY <1>1, <1>5

LEMMA CallStep ==
  ASSUME StepInv, AllWait, ppc \notin {"writing", "awaiting"},
         (\E c \in prog : Enter(c)) \/ Callgate
  PROVE  StepInv'
  <1>1. /\ Calm /\ spc = "read" /\ prog \in Programs
        /\ sbuf \in Seq(Byte) /\ Len(sbuf) = Buf
    BY DEF StepInv, Calm, Enter, Callgate
  <1>2. UNCHANGED <<prog, sbuf, spc, toBox, toParent>>
    BY DEF Enter, Callgate, sandbox
  <1> DEFINE Asks == \E g \in Requests, r \in Nat : Busy(g, r)'
  <1>3. ASSUME ppc' = "writing", Asks PROVE StepInv'
    BY <1>1, <1>2, <1>3 DEF StepInv
  <1>4. ASSUME ppc' = "inside", UNCHANGED want PROVE StepInv'
    BY <1>1, <1>2, <1>4 DEF StepInv, Calm
  <1>5. ASSUME Callgate PROVE StepInv'
    <2>1. SendReceive(1, 1) \in Requests
      BY DEF Requests
    <2>2. Total(SendReceive(1, 1)) = Hdr + 1 /\ SendReceive(1, 1).out = 1
      BY DEF Total, SendReceive
    <2>3. Asks /\ ppc' = "writing"
      BY <1>1, <1>2, <1>5, <2>1, <2>2, UnwrittenPieces, Requested DEF Callgate, Request
    <2>4. QED
      BY <1>3, <2>3
  <1>6. ASSUME NEW c \in prog, Enter(c) PROVE StepInv'
    <2>1. c.in \in Nat /\ c.out \in Nat
      BY <1>1, SizesAssumption
    <2>2. c.fn = "out" \/ (c.fn = "inout" /\ (c.in > 0 => c.out > 0))
      BY DEF AllWait
    <2>3. CASE c.fn = "out"
      <3>1. EnterDataOut(c.out)
        BY <1>6, <2>3, Zenon DEF Enter
      <3>2. CASE c.out = 0
        BY <3>1, <3>2, <1>4 DEF EnterDataOut
      <3>3. CASE c.out # 0
        <4>1. SendBack(c.out) \in Requests
          BY <2>1, <3>3 DEF Requests
        <4>2. SendBack(c.out).in = 0 /\ SendBack(c.out).out = c.out
          BY DEF SendBack
        <4>3. Request(<<Bytes(SendBack(c.out))>>, c.out)
          BY <3>1, <3>3 DEF EnterDataOut
        <4>4. Asks /\ ppc' = "writing"
          BY <1>1, <1>2, <4>1, <4>2, <4>3, UnwrittenHeader, Requested DEF Request
        <4>5. QED
          BY <1>3, <4>4
      <3>4. QED
        BY <3>2, <3>3
    <2>4. CASE c.fn = "inout" /\ (c.in > 0 => c.out > 0)
      <3>1. EnterDataInOut(c.in, c.out)
        BY <1>6, <2>4, Zenon DEF Enter
      <3>2. CASE c.in = 0 /\ c.out = 0
        BY <3>1, <3>2, <1>4 DEF EnterDataInOut
      <3>3. CASE ~ (c.in = 0 /\ c.out = 0)
        <4>1. c.out \in Nat \ {0}
          BY <2>1, <2>4, <3>3
        <4>2. SendReceive(c.in, c.out) \in Requests
          BY <2>1, <4>1 DEF Requests
        <4>3. /\ Total(SendReceive(c.in, c.out)) = Hdr + c.in
              /\ SendReceive(c.in, c.out).out = c.out
          BY DEF SendReceive, Total
        <4>4. Request(Pieces(SendReceive(c.in, c.out), Hdr + c.in), c.out)
          BY <3>1, <3>3 DEF EnterDataInOut
        <4>5. Asks /\ ppc' = "writing"
          BY <1>1, <1>2, <4>2, <4>3, <4>4, UnwrittenPieces, Requested DEF Request
        <4>6. QED
          BY <1>3, <4>5
      <3>4. QED
        BY <3>2, <3>3
    <2>5. QED
      BY <2>2, <2>3, <2>4
  <1>7. QED
    BY <1>5, <1>6

(* Leaving a sandbox, closing, waiting for the sandbox and its end.        *)
LEMMA QuietStep ==
  ASSUME StepInv, AllWait, Leave \/ Close \/ Wait \/ BoxEof
  PROVE  StepInv'
  <1>1. ppc \notin {"writing", "awaiting"} /\ ppc' \notin {"writing", "awaiting"}
    BY DEF Leave, Close, Wait, BoxEof, parent
  <1>2. Calm /\ prog \in Programs /\ sbuf \in Seq(Byte) /\ Len(sbuf) = Buf
    BY <1>1 DEF StepInv
  <1>3. UNCHANGED <<prog, sbuf, toBox, toParent, want>>
    BY DEF Leave, Close, Wait, BoxEof, parent, sandbox
  <1>4. \/ ppc' \in {"idle", "inside"} /\ spc' = "read"
        \/ ppc' \in {"closed", "exited"} /\ spc' \in {"read", "exited"}
    BY <1>2 DEF Calm, Leave, Close, Wait, BoxEof, parent, sandbox
  <1>5. QED
    BY <1>1, <1>2, <1>3, <1>4 DEF StepInv, Calm

(* A write() that the socket has room for takes a whole block.             *)
LEMMA WriteStep ==
  ASSUME StepInv, AllWait, Aligned, ParentWrite
  PROVE  StepInv'
  <1>1. PICK h \in Requests, r \in Nat : Busy(h, r)
    BY DEF StepInv, ParentWrite
  <1>2. /\ prog \in Programs /\ sbuf \in Seq(Byte) /\ Len(sbuf) = Buf
        /\ UNCHANGED <<prog, want, spc, sbuf, left, toParent>>
    BY DEF StepInv, ParentWrite, sandbox
  <1>3. ASSUME chunks = <<>> PROVE StepInv'
    <2>1. r = 0
      BY <1>1, <1>3, UnwrittenEnd DEF Busy
    <2>2. want > 0
      BY <1>1, RequestShape DEF Busy, Unread, Chewing, Sending, Sent
    <2>3. ppc' = "awaiting" /\ UNCHANGED <<chunks, toBox>>
      BY <1>3, <2>2 DEF ParentWrite
    <2>4. Busy(h, r)'
      BY <1>1, <1>2, <2>1, <2>3 DEF Busy, Unread, Chewing, Sending, Sent
    <2>5. QED
      BY <1>2, <2>3, <2>4 DEF StepInv
  <1>4. ASSUME chunks # <<>> PROVE StepInv'
    <2> DEFINE l == Least(Buf, r)
               n == Least(Cap - Len(toBox), Len(chunks[1]))
    <2>1. /\ Unwritten(chunks, h, r) /\ Laid(toBox, h) /\ r # 0 /\ Whole(toBox)
      BY <1>1, <1>4, UnwrittenEnd DEF Busy
    <2>2. /\ chunks[1] = SubSeq(Block(h), 1, l) /\ Len(chunks[1]) = l
          /\ l \in 1..Buf /\ r - l \in Nat /\ (r - l # 0 => l = Buf)
      BY <1>4, <2>1, UnwrittenFirst
    <2>3. /\ n > 0
          /\ toBox' = toBox \o SubSeq(chunks[1], 1, n)
          /\ chunks' = IF n = Len(chunks[1]) THEN Tail(chunks)
                       ELSE [chunks EXCEPT ![1] = SubSeq(@, n + 1, Len(@))]
          /\ UNCHANGED ppc /\ ppc = "writing"
      BY <1>4 DEF ParentWrite
    <2> HIDE DEF l
    <2>4. n = l
      <3>1. PICK k \in Nat \ {0} : Cap = k * Buf
        BY DEF Aligned
      <3>2. PICK q \in Nat : Len(toBox) = q * Buf
        BY <2>1 DEF Whole
      <3>3. k * Buf \in Nat /\ q * Buf \in Nat
        BY Sizes
      <3>4. k * Buf - q * Buf > 0
        BY <2>2, <2>3, <3>1, <3>2, <3>3 DEF Least
      <3>5. q < k
        <4>1. CASE k <= q
          <5>1. k * Buf <= q * Buf
            BY <4>1, Sizes
          <5>2. QED
            BY <5>1, <3>3, <3>4
        <4>2. QED
          BY <4>1
      <3>6. q * Buf + Buf <= k * Buf
        BY <3>5, Sizes
      <3>7. l <= k * Buf - q * Buf
        BY <2>2, <3>3, <3>6, Sizes
      <3>8. QED
        BY <2>2, <3>1, <3>2, <3>3, <3>7 DEF Least
    <2> HIDE DEF n
    <2>5. SubSeq(chunks[1], 1, l) = SubSeq(Block(h), 1, l)
      <3>1. chunks[1] \in Seq(Byte)
        BY <2>2, CutBlock, Sizes
      <3>2. /\ SubSeq(chunks[1], 1, l) \in Seq(Byte) /\ Len(SubSeq(chunks[1], 1, l)) = l
            /\ \A j \in 1..l : SubSeq(chunks[1], 1, l)[j] = chunks[1][j]
        BY <2>2, <3>1
      <3>3. SubSeq(chunks[1], 1, l) = chunks[1]
        BY <2>2, <3>1, <3>2, SeqEqual
      <3>4. QED
        BY <2>2, <3>3
    <2>6. /\ toBox' = toBox \o SubSeq(Block(h), 1, l)
          /\ chunks' = Tail(chunks)
      BY <2>2, <2>3, <2>4, <2>5
    <2>7. /\ Laid(toBox', h) /\ Len(toBox') = Len(toBox) + l
          /\ (l = Buf => Whole(toBox'))
      BY <2>1, <2>2, <2>6, LaidAppend
    <2>8. Unwritten(chunks', h, r - l)
      BY <1>4, <2>1, <2>6, UnwrittenTail DEF l
    <2>9. Len(toBox) \in Nat
      BY <2>1 DEF Laid
    <2>10. (r - l) + Len(toBox') = r + Len(toBox)
      BY <2>2, <2>7, <2>9
    <2>11. Unread(h, r) \/ Chewing(h, r)
      BY <1>1, <2>1 DEF Busy, Sending, Sent
    <2>12. Unread(h, r - l)' \/ Chewing(h, r - l)'
      BY <1>2, <2>10, <2>11 DEF Unread, Chewing
    <2>13. Busy(h, r - l)'
      BY <2>2, <2>3, <2>7, <2>8, <2>12 DEF Busy
    <2>14. QED
      BY <1>2, <2>2, <2>3, <2>13 DEF StepInv
  <1>5. QED
    BY <1>3, <1>4

LEMMA ReadStep ==
  ASSUME StepInv, AllWait, ParentRead
  PROVE  StepInv'
  <1>1. PICK h \in Requests, r \in Nat : Busy(h, r)
    BY DEF StepInv, ParentRead
  <1> DEFINE n == Least(toParent, Buf)
  <1>2. /\ prog \in Programs /\ sbuf \in Seq(Byte) /\ Len(sbuf) = Buf
        /\ UNCHANGED <<prog, chunks, spc, sbuf, left, toBox>>
    BY DEF StepInv, ParentRead, sandbox
  <1>3. /\ ppc = "awaiting" /\ toParent > 0
        /\ toParent' = toParent - n /\ want' = want - n
        /\ ppc' = IF want - n > 0 THEN ppc ELSE "inside"
    BY DEF ParentRead
  <1>4. r = 0 /\ toBox = <<>> /\ (Sending(r) \/ Sent(r))
    BY <1>1, <1>3 DEF Busy, Unread, Chewing, Sending, Sent
  <1>5. /\ toParent \in Nat /\ want \in Nat /\ want >= toParent
        /\ want - toParent = (IF spc = "send" THEN left ELSE 0)
        /\ left \in Nat \/ spc # "send"
    BY <1>4 DEF Sending, Sent
  <1>6. n \in Nat /\ n > 0 /\ n <= toParent
    BY <1>3, <1>5, Sizes DEF Least
  <1> HIDE DEF n
  <1>7. CASE want - n > 0
    <2>1. Sending(r)' \/ Sent(r)'
      <3>1. CASE Sending(r)
        BY <3>1, <1>2, <1>3, <1>5, <1>6, <1>7 DEF Sending
      <3>2. CASE Sent(r)
        BY <3>2, <1>2, <1>3, <1>5, <1>6, <1>7 DEF Sent
      <3>3. QED
        BY <1>4, <3>1, <3>2
    <2>2. Busy(h, r)'
      BY <1>1, <1>2, <1>4, <2>1 DEF Busy
    <2>3. QED
      BY <1>2, <1>3, <1>7, <2>2 DEF StepInv
  <1>8. CASE ~ (want - n > 0)
    <2>1. spc # "send" /\ want = n /\ toParent = n
      BY <1>4, <1>5, <1>6, <1>8 DEF Sending, Sent
    <2>2. spc = "read"
      BY <1>4, <2>1 DEF Sending, Sent
    <2>3. Calm'
      BY <1>2, <1>3, <1>4, <1>6, <1>8, <2>1, <2>2 DEF Calm
    <2>4. QED
      BY <1>2, <1>3, <1>8, <2>3 DEF StepInv
  <1>9. QED
    BY <1>7, <1>8

(* A read() of the sandbox takes a block, or the last piece.               *)
LEMMA WholeIsLong ==
  ASSUME NEW s, s \in Seq(Byte), Whole(s), s # <<>>
  PROVE  Buf <= Len(s)
  <1>1. PICK q \in Nat : Len(s) = q * Buf
    BY DEF Whole
  <1>2. Len(s) \in Nat /\ Len(s) # 0
    OBVIOUS
  <1>3. q # 0
    BY <1>1, <1>2, Sizes
  <1>4. QED
    BY <1>1, <1>3, Sizes

LEMMA Taken ==
  ASSUME NEW h \in Requests, NEW r \in Nat, NEW n,
         Laid(toBox, h), r # 0 => Whole(toBox), toBox # <<>>,
         sbuf \in Seq(Byte), Len(sbuf) = Buf,
         n = Least(Len(toBox), Buf), Take(n)
  PROVE  /\ n \in 1..Buf
         /\ sbuf' \in Seq(Byte) /\ Len(sbuf') = Buf
         /\ \A j \in 1..n : sbuf'[j] = Block(h)[j]
         /\ \A j \in (n + 1)..Buf : sbuf'[j] = sbuf[j]
         /\ Laid(toBox', h)
         /\ Len(toBox) \in Nat /\ Len(toBox') = Len(toBox) - n
         /\ r # 0 => Whole(toBox')
         /\ r # 0 => n = Buf
         /\ n < Buf => n = Len(toBox)
  <1>1. toBox \in Seq(Byte) /\ Len(toBox) \in Nat /\ Len(toBox) > 0
    BY DEF Laid
  <1>2. n \in 1..Buf /\ n <= Len(toBox) /\ (n < Buf => n = Len(toBox))
    BY <1>1, Sizes DEF Least
  <1>3. /\ SubSeq(toBox, 1, n) \in Seq(Byte) /\ Len(SubSeq(toBox, 1, n)) = n
        /\ \A j \in 1..n : SubSeq(toBox, 1, n)[j] = Block(h)[j]
    BY <1>2, LaidFront
  <1>4. sbuf' = Into(sbuf, SubSeq(toBox, 1, n)) /\ toBox' = SubSeq(toBox, n + 1, Len(toBox))
    BY DEF Take
  <1>5. /\ sbuf' \in Seq(Byte) /\ Len(sbuf') = Buf
        /\ \A j \in 1..n : sbuf'[j] = Block(h)[j]
        /\ \A j \in (n + 1)..Buf : sbuf'[j] = sbuf[j]
    <2> DEFINE t == SubSeq(toBox, 1, n)
    <2>1. t \in Seq(Byte) /\ Len(t) = n /\ n <= Buf
      BY <1>2, <1>3, Sizes
    <2>2. \A j \in 1..n : t[j] = Block(h)[j]
      BY <1>3
    <2>3. sbuf' = Into(sbuf, t)
      BY <1>4
    <2> HIDE DEF t
    <2>4. /\ Into(sbuf, t) \in Seq(Byte) /\ Len(Into(sbuf, t)) = Buf
          /\ \A j \in 1..Len(t) : Into(sbuf, t)[j] = t[j]
          /\ \A j \in (Len(t) + 1)..Buf : Into(sbuf, t)[j] = sbuf[j]
      BY <2>1, Overwritten
    <2>5. QED
      BY <2>1, <2>2, <2>3, <2>4
  <1>6. CASE n = Buf
    <2>1. Buf <= Len(toBox)
      BY <1>2, <1>6
    <2>2. toBox' = SubSeq(toBox, Buf + 1, Len(toBox))
      BY <1>4, <1>6
    <2>3. Laid(toBox', h) /\ Len(toBox') = Len(toBox) - n /\ (r # 0 => Whole(toBox'))
      BY <2>1, <2>2, <1>6, LaidRest
    <2>4. QED
      BY <2>3, <1>1, <1>2, <1>5, <1>6
  <1>7. CASE n # Buf
    <2>1. n = Len(toBox) /\ Len(toBox) < Buf
      BY <1>2, <1>7, Sizes
    <2>2. r = 0
      BY <2>1, <1>1, WholeIsLong, Sizes
    <2>3. toBox' = <<>>
      BY <2>1, <1>1, <1>4
    <2>4. Laid(toBox', h) /\ Len(toBox') = Len(toBox) - n
      BY <2>1, <2>3, <1>1, LaidEmpty
    <2>5. QED
      BY <2>1, <2>2, <2>4, <1>1, <1>2, <1>5
  <1>8. QED
    BY <1>6, <1>7

LEMMA MessageSeen ==
  ASSUME NEW h \in Requests, NEW s \in Seq(Byte), Len(s) = Buf,
         \A j \in 1..Hdr : s[j] = <<h, j>>
  PROVE  Message(s) = h
  <1>1. 1 \in 1..Hdr
    BY Sizes
  <1>2. s[1][1] = h
    BY <1>1
  <1>3. SubSeq(s, 1, Hdr) = Bytes(h)
    <2>1. /\ Bytes(h) \in Seq(Byte) /\ Len(Bytes(h)) = Hdr
          /\ \A j \in 1..Hdr : Bytes(h)[j] = <<h, j>>
      BY Sizes, RequestShape DEF Bytes, Byte
    <2>2. /\ SubSeq(s, 1, Hdr) \in Seq(Byte) /\ Len(SubSeq(s, 1, Hdr)) = Hdr
          /\ \A j \in 1..Hdr : SubSeq(s, 1, Hdr)[j] = s[j]
      BY Sizes
    <2>3. QED
      BY <2>1, <2>2, SeqEqual
  <1>4. QED
    BY <1>2, <1>3 DEF Message

LEMMA AnswerLength ==
  ASSUME NEW h \in Requests, NEW s, s[Hdr] = <<h, Hdr>>
  PROVE  OutLengths(s) = {h.out}
  <1>1. s[Hdr] # Zero
    BY Sizes DEF Zero
  <1>2. s[Hdr][1] = h /\ s[Hdr][2] = Hdr
    OBVIOUS
  <1>3. QED
    BY <1>1, <1>2 DEF OutLengths

(* Going on to send back what h asks for.                                  *)
LEMMA Sends ==
  ASSUME NEW h \in Requests, NEW r \in Nat, Busy(h, r), want = h.out, toParent = 0,
         r + Len(toBox') = 0, Laid(toBox', h), GoSend(h.out),
         UNCHANGED <<ppc, chunks, want, toParent>>
  PROVE  Busy(h, r)'
  <1>1. toBox' \in Seq(Byte) /\ Len(toBox') \in Nat
    BY DEF Laid
  <1>2. r = 0 /\ Len(toBox') = 0
    BY <1>1
  <1>3. toBox' = <<>>
    BY <1>1, <1>2
  <1>4. h.out \in Nat /\ h.out > 0
    BY RequestShape
  <1>5. Sending(r)'
    BY <1>2, <1>3, <1>4 DEF Sending, GoSend
  <1>6. QED
    BY <1>2, <1>5 DEF Busy

LEMMA BoxReadStep ==
  ASSUME StepInv, AllWait, BoxRead
  PROVE  StepInv'
  <1>1. spc = "read" /\ toBox # <<>>
    BY DEF BoxRead
  <1>2. ppc \in {"writing", "awaiting"}
    BY <1>1 DEF StepInv, Calm
  <1>3. PICK h \in Requests, r \in Nat : Busy(h, r)
    BY <1>2 DEF StepInv
  <1>4. /\ prog \in Programs /\ sbuf \in Seq(Byte) /\ Len(sbuf) = Buf
        /\ UNCHANGED <<prog, ppc, chunks, want, toParent>>
    BY DEF StepInv, BoxRead, parent
  <1> DEFINE n == Least(Len(toBox), Buf)
  <1>5. Unread(h, r) /\ Laid(toBox, h) /\ (r # 0 => Whole(toBox))
    BY <1>1, <1>3 DEF Busy, Chewing, Sending, Sent
  <1>6. Take(n)
    BY DEF BoxRead
  <1>7. /\ n \in 1..Buf
        /\ sbuf' \in Seq(Byte) /\ Len(sbuf') = Buf
        /\ \A j \in 1..n : sbuf'[j] = Block(h)[j]
        /\ Laid(toBox', h)
        /\ Len(toBox) \in Nat /\ Len(toBox') = Len(toBox) - n
        /\ r # 0 => Whole(toBox')
        /\ r # 0 => n = Buf
        /\ n < Buf => n = Len(toBox)
    BY <1>1, <1>4, <1>5, <1>6, Taken
  <1>8. n >= Hdr
    BY <1>5, <1>7, RequestShape, Sizes DEF Unread
  <1>9. \A j \in 1..Hdr : sbuf'[j] = <<h, j>>
    BY <1>7, <1>8, BlockIs, Sizes
  <1>10. Message(sbuf') = h
    BY <1>7, <1>9, MessageSeen
  <1>11. h.op # "none" /\ h.in \in Nat /\ (h.op = "sendback" => h.in = 0)
    BY RequestShape
  <1> HIDE DEF n
  <1>12. /\ h.op = "sendback" => GoSend(h.out)
         /\ h.op # "sendback" /\ h.in + Hdr = n => GoSend(h.out)
         /\ h.op # "sendback" /\ h.in + Hdr # n => spc' = "chew" /\ left' = h.in + Hdr - n
    BY <1>8, <1>10, <1>11, <1>7, Sizes DEF BoxRead, n
  <1>13. r + Len(toBox) = Hdr + h.in
    BY <1>5 DEF Unread, Total
  <1>14. h.op = "sendback" => n = Hdr
    BY <1>7, <1>8, <1>11, <1>13, Sizes
  <1>15. CASE h.in + Hdr = n
    <2>1. r + Len(toBox') = 0
      BY <1>7, <1>13, <1>15, Sizes, <1>11
    <2>2. GoSend(h.out)
      BY <1>12, <1>15
    <2>3. Busy(h, r)'
      BY <2>1, <2>2, <1>3, <1>4, <1>5, <1>7, Sends DEF Unread
    <2>4. QED
      BY <2>3, <1>2, <1>4, <1>7 DEF StepInv
  <1>16. CASE h.in + Hdr # n
    <2>1. spc' = "chew" /\ left' = h.in + Hdr - n
      BY <1>11, <1>12, <1>14, <1>16, Sizes
    <2>2. left' = r + Len(toBox') /\ left' > 0
      <3>1. n <= Len(toBox)
        BY <1>7, Sizes DEF n, Least
      <3>2. QED
        BY <2>1, <3>1, <1>7, <1>11, <1>13, <1>16, Sizes
    <2>3. Chewing(h, r)'
      BY <2>1, <2>2, <1>4, <1>5, <1>9, Sizes DEF Chewing, Unread
    <2>4. Busy(h, r)'
      BY <2>3, <1>3, <1>4, <1>7 DEF Busy
    <2>5. QED
      BY <2>4, <1>2, <1>4, <1>7 DEF StepInv
  <1>17. QED
    BY <1>15, <1>16

LEMMA BoxChewStep ==
  ASSUME StepInv, AllWait, BoxChew
  PROVE  StepInv'
  <1>1. spc = "chew" /\ toBox # <<>>
    BY DEF BoxChew
  <1>2. ppc \in {"writing", "awaiting"}
    BY <1>1 DEF StepInv, Calm
  <1>3. PICK h \in Requests, r \in Nat : Busy(h, r)
    BY <1>2 DEF StepInv
  <1>4. /\ prog \in Programs /\ sbuf \in Seq(Byte) /\ Len(sbuf) = Buf
        /\ UNCHANGED <<prog, ppc, chunks, want, toParent>>
    BY DEF StepInv, BoxChew, parent
  <1> DEFINE n == Least(Len(toBox), Buf)
  <1>5. Chewing(h, r) /\ Laid(toBox, h) /\ (r # 0 => Whole(toBox))
    BY <1>1, <1>3 DEF Busy, Unread, Sending, Sent
  <1>6. Take(n)
    BY DEF BoxChew
  <1>7. /\ n \in 1..Buf
        /\ sbuf' \in Seq(Byte) /\ Len(sbuf') = Buf
        /\ \A j \in 1..n : sbuf'[j] = Block(h)[j]
        /\ \A j \in (n + 1)..Buf : sbuf'[j] = sbuf[j]
        /\ Laid(toBox', h)
        /\ Len(toBox) \in Nat /\ Len(toBox') = Len(toBox) - n
        /\ r # 0 => Whole(toBox')
        /\ r # 0 => n = Buf
        /\ n < Buf => n = Len(toBox)
    BY <1>1, <1>4, <1>5, <1>6, Taken
  <1>8. sbuf'[Hdr] = <<h, Hdr>>
    <2>1. CASE Hdr <= n
      BY <2>1, <1>7, BlockIs, Sizes
    <2>2. CASE n < Hdr
      BY <2>2, <1>5, <1>7, Sizes DEF Chewing
    <2>3. QED
      BY <2>1, <2>2, <1>7, Sizes
  <1>9. IF left = n THEN \E out \in OutLengths(sbuf') : GoSend(out)
        ELSE left' = left - n /\ UNCHANGED spc
    BY DEF BoxChew
  <1>10. left = r + Len(toBox) /\ left > 0
    BY <1>5 DEF Chewing
  <1> HIDE DEF n
  <1>11. CASE left = n
    <2>1. r + Len(toBox') = 0
      BY <1>7, <1>10, <1>11
    <2>2. GoSend(h.out)
      <3>1. OutLengths(sbuf') = {h.out}
        BY <1>8, AnswerLength
      <3>2. QED
        BY <3>1, <1>9, <1>11
    <2>3. Busy(h, r)'
      BY <2>1, <2>2, <1>3, <1>4, <1>5, <1>7, Sends DEF Chewing
    <2>4. QED
      BY <2>3, <1>2, <1>4, <1>7 DEF StepInv
  <1>12. CASE left # n
    <2>1. left' = r + Len(toBox') /\ left' > 0 /\ spc' = "chew"
      <3>1. left' = left - n /\ spc' = "chew"
        BY <1>1, <1>9, <1>12
      <3>2. left >= n
        BY <1>7, <1>10, Sizes DEF n, Least
      <3>3. QED
        BY <3>1, <3>2, <1>7, <1>10, <1>12
    <2>2. Chewing(h, r)'
      BY <2>1, <1>4, <1>5, <1>8 DEF Chewing
    <2>3. Busy(h, r)'
      BY <2>2, <1>3, <1>4, <1>7 DEF Busy
    <2>4. QED
      BY <2>3, <1>2, <1>4, <1>7 DEF StepInv
  <1>13. QED
    BY <1>11, <1>12

LEMMA BoxSendStep ==
  ASSUME StepInv, AllWait, BoxSend
  PROVE  StepInv'
  <1>1. spc = "send"
    BY DEF BoxSend
  <1>2. ppc \in {"writing", "awaiting"}
    BY <1>1 DEF StepInv, Calm
  <1>3. PICK h \in Requests, r \in Nat : Busy(h, r)
    BY <1>2 DEF StepInv
  <1>4. /\ prog \in Programs /\ sbuf \in Seq(Byte) /\ Len(sbuf) = Buf
        /\ UNCHANGED <<prog, sbuf, ppc, chunks, want, toBox>>
    BY DEF StepInv, BoxSend, parent
  <1> DEFINE n == Least(Cap - toParent, left)
  <1>5. Sending(r)
    BY <1>1, <1>3 DEF Busy, Unread, Chewing, Sent
  <1>6. n > 0 /\ toParent' = toParent + n /\ GoSend(left - n)
    BY <1>2 DEF BoxSend
  <1>7. n \in Nat /\ n <= left
    BY <1>5, <1>6, Sizes DEF Sending, Least
  <1> HIDE DEF n
  <1>8. toParent' \in Nat /\ toParent' > 0 /\ want' = (left - n) + toParent'
    BY <1>4, <1>5, <1>6, <1>7 DEF Sending
  <1>9. Sending(r)' \/ Sent(r)'
    <2>1. CASE left - n > 0
      BY <2>1, <1>4, <1>5, <1>6, <1>7, <1>8 DEF Sending, GoSend
    <2>2. CASE ~ (left - n > 0)
      <3>1. left - n = 0
        BY <2>2, <1>5, <1>7 DEF Sending
      <3>2. QED
        BY <3>1, <1>4, <1>5, <1>6, <1>8 DEF Sending, Sent, GoSend
    <2>3. QED
      BY <2>1, <2>2
  <1>10. Busy(h, r)'
    BY <1>3, <1>4, <1>9 DEF Busy
  <1>11. QED
    BY <1>2, <1>4, <1>10 DEF StepInv

LEMMA StepKept ==
  ASSUME Aligned, StepInv, [Next]_vars
  PROVE  StepInv'
  <1>1. prog' = prog
    BY DEF Next, Enter, Callgate, Leave, ParentIO, ParentWrite, ParentRead, Wait, Close,
           Sandbox, BoxRead, BoxEof, BoxChew, BoxSend, vars, parent
  <1> SUFFICES ASSUME AllWait' PROVE StepInv'
    BY DEF StepInv
  <1>2. AllWait
    BY <1>1 DEF AllWait
  <1>3. ASSUME (\E c \in prog : Enter(c)) \/ Callgate PROVE StepInv'
    <2>1. ppc \notin {"writing", "awaiting"}
      BY <1>3 DEF Enter, Callgate
    <2>2. QED
      BY <2>1, <1>2, <1>3, CallStep
  <1>4. ASSUME Leave \/ Close \/ Wait \/ BoxEof PROVE StepInv'
    BY <1>2, <1>4, QuietStep
  <1>5. ASSUME UNCHANGED vars PROVE StepInv'
    BY <1>5 DEF vars, parent, sandbox, StepInv, Calm, Busy, Unread, Chewing, Sending, Sent, AllWait
  <1>6. QED
    BY <1>2, <1>3, <1>4, <1>5, WriteStep, ReadStep, BoxReadStep, BoxChewStep, BoxSendStep
       DEF Next, ParentIO, Sandbox

(***************************************************************************)
(* Parent and sandbox are in step between calls, for sizes of header,      *)
(* buffer and data as they may be, if the socket holds whole buffers.      *)
(***************************************************************************)
THEOREM StaysInStep ==
  ASSUME Aligned
  PROVE  Spec => []InStep
  <1>1. Init => StepInv
    BY StepInit
  <1>2. StepInv /\ [Next]_vars => StepInv'
    BY StepKept
  <1>3. StepInv => InStep
    BY DEF StepInv, InStep, Calm
  <1>4. QED
    BY <1>1, <1>2, <1>3, PTL DEF Spec
=============================================================================
