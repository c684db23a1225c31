------------------------- MODULE GvForwarderProofs -------------------------
(***************************************************************************)
(* Proofs about GvForwarder, for any frames, any value of a byte, any MTU  *)
(* and any number of sessions.                                             *)
(***************************************************************************)
EXTENDS GvForwarder, FramingProofs, SequenceTheorems

-----------------------------------------------------------------------------
(* Streams of frames. *)

(***************************************************************************)
(* The stream consists of the frames of the queue behind their headers.    *)
(* ofs[i] is where the i-th frame starts, and the last offset is the end.  *)
(***************************************************************************)
Offsets(ofs, stream, queue) ==
  /\ ofs \in [1 .. Len(queue) + 1 -> Nat]
  /\ ofs[1] = 0
  /\ ofs[Len(queue) + 1] = Len(stream)
  /\ \A i, j \in 1 .. Len(queue) + 1 : i <= j => ofs[i] <= ofs[j]
  /\ \A i \in 1 .. Len(queue) :
       /\ ofs[i + 1] = ofs[i] + Len(rxBytes(queue[i]))
       /\ \A j \in 1 .. Len(rxBytes(queue[i])) : stream[ofs[i] + j] = rxBytes(queue[i])[j]

InStep(stream, queue) == \E ofs : Offsets(ofs, stream, queue)

(* A frame that is sent: its header, and behind it the frame. *)
LEMMA SentBytes ==
  ASSUME NEW f \in Seq(Bytes)
  PROVE  /\ rxBytes(f) \in Seq(Bytes)
         /\ Len(rxBytes(f)) = 2 + Len(f)
         /\ rxBytes(f)[1] = Write("hyperkit", Len(f))[1]
         /\ rxBytes(f)[2] = Write("hyperkit", Len(f))[2]
         /\ \A j \in 1 .. Len(f) : rxBytes(f)[2 + j] = f[j]
  <1>1. Write("hyperkit", Len(f)) \in Seq(Bytes) /\ Len(Write("hyperkit", Len(f))) = 2
    BY WriteType, LenProperties DEF StreamProtocols, Buf
  <1>2. Len(f) \in Nat
    BY LenProperties
  <1>3. /\ rxBytes(f) \in Seq(Bytes)
        /\ Len(rxBytes(f)) = 2 + Len(f)
        /\ \A i \in 1 .. 2 + Len(f) : rxBytes(f)[i] =
             IF i <= 2 THEN Write("hyperkit", Len(f))[i] ELSE f[i - 2]
    <2> DEFINE w == Write("hyperkit", Len(f))
    <2> HIDE DEF w
    <2>1. w \in Seq(Bytes) /\ Len(w) = 2
      BY <1>1 DEF w
    <2>2. /\ w \o f \in Seq(Bytes)
          /\ Len(w \o f) = Len(w) + Len(f)
          /\ \A i \in 1 .. Len(w) + Len(f) : (w \o f)[i] =
               IF i <= Len(w) THEN w[i] ELSE f[i - Len(w)]
      BY <2>1, ConcatProperties
    <2>3. QED
      BY <2>1, <2>2, Zenon DEF rxBytes, w
  <1>4. QED
    BY <1>2, <1>3, SMT

(* Nothing is in step with nothing. *)
LEMMA EmptyInStep == InStep(<<>>, <<>>)
  <1>1. Offsets([i \in 1 .. 1 |-> 0], <<>>, <<>>)
    BY EmptySeq DEF Offsets
  <1>2. QED
    BY <1>1 DEF InStep

(* Sending a frame keeps a stream in step. *)
LEMMA SendInStep ==
  ASSUME NEW T, Bytes \subseteq T, NEW stream \in Seq(T), NEW F, F \subseteq Seq(Bytes),
         NEW queue \in Seq(F), NEW f \in F, InStep(stream, queue)
  PROVE  InStep(stream \o rxBytes(f), Append(queue, f))
  <1> DEFINE n == Len(queue)
             e == rxBytes(f)
             s == stream \o e
             q == Append(queue, f)
  <1>1. PICK ofs : Offsets(ofs, stream, queue)
    BY DEF InStep
  <1> DEFINE o == [i \in 1 .. n + 2 |-> IF i = n + 2 THEN Len(s) ELSE ofs[i]]
  <1>2. n \in Nat /\ Len(q) = n + 1 /\ q[n + 1] = f /\ \A i \in 1 .. n : q[i] = queue[i]
    BY AppendProperties, LenProperties
  <1>3. e \in Seq(T) /\ Len(e) \in Nat /\ Len(stream) \in Nat
    BY SentBytes, SeqMonotonic, LenProperties
  <1>4. /\ Len(s) = Len(stream) + Len(e)
        /\ \A i \in 1 .. Len(stream) : s[i] = stream[i]
        /\ \A i \in 1 .. Len(e) : s[Len(stream) + i] = e[i]
    BY <1>3, ConcatProperties
  <1>5. \A i \in 1 .. n : Len(rxBytes(queue[i])) \in Nat
    BY SentBytes, ElementOfSeq, LenProperties
  <1> HIDE DEF n, e, s, q
  <1>6. /\ ofs \in [1 .. n + 1 -> Nat]
        /\ ofs[1] = 0 /\ ofs[n + 1] = Len(stream)
        /\ \A i, j \in 1 .. n + 1 : i <= j => ofs[i] <= ofs[j]
    BY <1>1 DEF Offsets, n
  <1>7. \A i \in 1 .. n :
          /\ ofs[i + 1] = ofs[i] + Len(rxBytes(queue[i]))
          /\ \A j \in 1 .. Len(rxBytes(queue[i])) : stream[ofs[i] + j] = rxBytes(queue[i])[j]
    BY <1>1 DEF Offsets, n
  <1>8. \A i \in 1 .. n + 1 : ofs[i] \in Nat /\ ofs[i] <= Len(stream)
    BY <1>2, <1>6
  <1>9. /\ o \in [1 .. n + 2 -> Nat]
        /\ \A i \in 1 .. n + 1 : o[i] = ofs[i]
        /\ o[n + 2] = Len(s)
    BY <1>2, <1>3, <1>4, <1>8
  <1> HIDE DEF o
  <1>10. ASSUME NEW i \in 1 .. n + 2, NEW j \in 1 .. n + 2, i <= j
         PROVE  o[i] <= o[j]
    <2>1. CASE i = n + 2
      BY <1>2, <1>9, <1>10, <2>1
    <2>2. CASE i \in 1 .. n + 1 /\ j = n + 2
      <3>1. o[i] <= Len(stream) /\ o[i] \in Nat
        BY <1>8, <1>9, <2>2
      <3>2. QED
        BY <1>3, <1>4, <1>9, <2>2, <3>1
    <2>3. CASE i \in 1 .. n + 1 /\ j \in 1 .. n + 1
      BY <1>6, <1>9, <1>10, <2>3
    <2>4. QED
      BY <1>2, <2>1, <2>2, <2>3
  <1>11. ASSUME NEW i \in 1 .. n + 1
         PROVE  /\ o[i + 1] = o[i] + Len(rxBytes(q[i]))
                /\ \A j \in 1 .. Len(rxBytes(q[i])) : s[o[i] + j] = rxBytes(q[i])[j]
    <2>1. CASE i = n + 1
      <3>1. o[i] = Len(stream) /\ o[i + 1] = Len(s) /\ rxBytes(q[i]) = e
        BY <1>2, <1>6, <1>9, <2>1 DEF e
      <3>2. QED
        BY <1>4, <3>1
    <2>2. CASE i \in 1 .. n
      <3>1. q[i] = queue[i] /\ o[i] = ofs[i] /\ o[i + 1] = ofs[i + 1]
        BY <1>2, <1>9, <2>2
      <3>2. /\ ofs[i + 1] = ofs[i] + Len(rxBytes(queue[i]))
            /\ \A j \in 1 .. Len(rxBytes(queue[i])) : stream[ofs[i] + j] = rxBytes(queue[i])[j]
        BY <1>7, <2>2
      <3>3. ofs[i] \in Nat /\ ofs[i + 1] <= Len(stream)
        BY <1>2, <1>8, <2>2
      <3>4. \A j \in 1 .. Len(rxBytes(queue[i])) : ofs[i] + j \in 1 .. Len(stream)
        BY <1>3, <1>5, <2>2, <3>2, <3>3
      <3>5. QED
        BY <1>4, <3>1, <3>2, <3>4
    <2>3. QED
      BY <1>2, <2>1, <2>2
  <1>12. Offsets(o, s, q)
    BY <1>2, <1>6, <1>9, <1>10, <1>11 DEF Offsets
  <1>13. QED
    BY <1>12 DEF InStep, s, q, e
(* What is left of a stream or of a queue. *)
LEMMA DropProperties ==
  ASSUME NEW T, NEW stream \in Seq(T), NEW n \in Nat
  PROVE  /\ Drop(stream, n) \in Seq(T)
         /\ Len(Drop(stream, n)) = IF n <= Len(stream) THEN Len(stream) - n ELSE 0
         /\ \A i \in 1 .. Len(stream) - n : Drop(stream, n)[i] = stream[n + i]
  <1>1. Len(stream) \in Nat /\ \A i \in n + 1 .. Len(stream) : stream[i] \in T
    BY ElementOfSeq, LenProperties
  <1>2. /\ Drop(stream, n) \in Seq(T)
        /\ Len(Drop(stream, n)) = IF n + 1 <= Len(stream) THEN Len(stream) - (n + 1) + 1 ELSE 0
        /\ \A i \in 1 .. Len(stream) - (n + 1) + 1 : Drop(stream, n)[i] = stream[n + 1 + i - 1]
    BY <1>1, SubSeqProperties DEF Drop
  <1>3. QED
    BY <1>1, <1>2

(* What is written behind a stream does not change what is in front. *)
LEMMA DropConcat ==
  ASSUME NEW T, NEW s \in Seq(T), NEW t \in Seq(T), s # <<>>
  PROVE  s \o t # <<>> /\ Drop(s \o t, 1) = Drop(s, 1) \o t
  <1>1. Len(s) \in Nat /\ Len(s) >= 1 /\ Len(t) \in Nat
    BY EmptySeq, LenProperties
  <1> DEFINE c == s \o t
             d == Drop(s, 1)
             a == Drop(c, 1)
  <1>2. /\ c \in Seq(T)
        /\ Len(c) = Len(s) + Len(t)
        /\ \A i \in 1 .. Len(s) + Len(t) : c[i] =
             IF i <= Len(s) THEN s[i] ELSE t[i - Len(s)]
    BY ConcatProperties
  <1> HIDE DEF c
  <1>3. /\ a \in Seq(T) /\ Len(a) = Len(s) + Len(t) - 1
        /\ \A i \in 1 .. Len(s) + Len(t) - 1 : a[i] = c[1 + i]
    <2>1. c \in Seq(T)
      BY <1>2
    <2>2. /\ a \in Seq(T)
          /\ Len(a) = IF 1 <= Len(c) THEN Len(c) - 1 ELSE 0
          /\ \A i \in 1 .. Len(c) - 1 : a[i] = c[1 + i]
      BY <2>1, DropProperties
    <2>3. QED
      BY <1>1, <1>2, <2>2
  <1>4. d \in Seq(T) /\ Len(d) = Len(s) - 1 /\ \A i \in 1 .. Len(s) - 1 : d[i] = s[1 + i]
    BY <1>1, DropProperties
  <1>5. /\ d \o t \in Seq(T)
        /\ Len(d \o t) = Len(d) + Len(t)
        /\ \A i \in 1 .. Len(d) + Len(t) : (d \o t)[i] =
             IF i <= Len(d) THEN d[i] ELSE t[i - Len(d)]
    BY <1>4, ConcatProperties
  <1> HIDE DEF a, d
  <1>6. Len(a) = Len(d \o t)
    BY <1>1, <1>3, <1>4, <1>5
  <1>7. ASSUME NEW i \in 1 .. Len(a)
        PROVE  a[i] = (d \o t)[i]
    <2>1. /\ a[i] = c[1 + i]
          /\ i \in 1 .. Len(s) + Len(t) - 1 /\ 1 + i \in 1 .. Len(s) + Len(t)
      BY <1>1, <1>3
    <2>2. CASE i <= Len(s) - 1
      <3>1. c[1 + i] = s[1 + i]
        BY <1>1, <1>2, <2>1, <2>2
      <3>2. (d \o t)[i] = d[i] /\ d[i] = s[1 + i]
        BY <1>1, <1>4, <1>5, <2>1, <2>2
      <3>3. QED
        BY <2>1, <3>1, <3>2
    <2>3. CASE i > Len(s) - 1
      <3>1. c[1 + i] = t[1 + i - Len(s)]
        BY <1>1, <1>2, <2>1, <2>3
      <3>2. (d \o t)[i] = t[i - Len(d)]
        BY <1>1, <1>4, <1>5, <2>1, <2>3
      <3>3. 1 + i - Len(s) = i - Len(d)
        BY <1>1, <1>4
      <3>4. QED
        BY <2>1, <3>1, <3>2, <3>3
    <2>4. i <= Len(s) - 1 \/ i > Len(s) - 1
      BY <1>1, <2>1
    <2>5. QED
      BY <2>2, <2>3, <2>4
  <1>8. a = d \o t
    BY <1>3, <1>5, <1>6, <1>7, SeqEqual
  <1>9. QED
    BY <1>1, <1>2, <1>8, EmptySeq DEF a, c, d

(* The first two elements, which are the header. *)
LEMMA FirstTwo ==
  ASSUME NEW S, NEW s, s[1] \in S, s[2] \in S
  PROVE  SubSeq(s, 1, 2)[1] = s[1] /\ SubSeq(s, 1, 2)[2] = s[2]
  <1>1. ASSUME NEW m \in Int, \A i \in 1 .. m : s[i] \in S
        PROVE  \A i \in 1 .. m - 1 + 1 : SubSeq(s, 1, m)[i] = s[1 + i - 1]
    BY <1>1, SubSeqProperties
  <1>2. \A i \in 1 .. 2 : s[i] \in S
    <2>1. \A i \in 1 .. 2 : i = 1 \/ i = 2
      OBVIOUS
    <2>2. QED
      BY <2>1, Zenon
  <1>3. 2 \in Int
    OBVIOUS
  <1>4. \A i \in 1 .. 2 - 1 + 1 : SubSeq(s, 1, 2)[i] = s[1 + i - 1]
    BY <1>1, <1>2, <1>3, Zenon
  <1>5. QED
    BY <1>4

(* A stream in step that holds a header holds the whole first frame of the *)
(* queue, the reader takes exactly that, and the rest is in step again.    *)
LEMMA ReadInStep ==
  ASSUME NEW T, Bytes \subseteq T, NEW stream \in Seq(T), NEW F, F \subseteq Seq(Bytes),
         NEW queue \in Seq(F), InStep(stream, queue), Header("hyperkit", stream),
         queue # <<>> => Len(Head(queue)) < SizeLimit("hyperkit")
  PROVE  /\ queue # <<>>
         /\ Size("hyperkit", stream) = Len(Head(queue))
         /\ Frame("hyperkit", stream) = Head(queue)
         /\ InStep(Drop(stream, End("hyperkit", stream)), Drop(queue, 1))
  <1> DEFINE n == Len(queue)
             f == Head(queue)
             k == 2 + Len(f)
  <1>1. PICK ofs : Offsets(ofs, stream, queue)
    BY DEF InStep
  <1>2. n \in Nat /\ Len(stream) \in Nat /\ Len(stream) >= 2
    BY LenProperties DEF Header, Buf
  <1>3. queue # <<>> /\ n >= 1
    <2>1. n # 0
      BY <1>1, <1>2 DEF Offsets
    <2>2. QED
      BY <1>2, <2>1, EmptySeq
  <1>4. f = queue[1] /\ f \in Seq(Bytes) /\ Len(f) \in Nat
    BY <1>3, HeadTailProperties, LenProperties
  <1>5. /\ Len(rxBytes(f)) = k
        /\ rxBytes(f)[1] = Write("hyperkit", Len(f))[1]
        /\ rxBytes(f)[2] = Write("hyperkit", Len(f))[2]
        /\ \A j \in 1 .. Len(f) : rxBytes(f)[2 + j] = f[j]
    BY <1>4, SentBytes
  <1> HIDE DEF n, f, k
  <1>6. /\ ofs \in [1 .. n + 1 -> Nat]
        /\ ofs[1] = 0 /\ ofs[n + 1] = Len(stream)
        /\ \A i, j \in 1 .. n + 1 : i <= j => ofs[i] <= ofs[j]
    BY <1>1 DEF Offsets, n
  <1>7. \A i \in 1 .. n :
          /\ ofs[i + 1] = ofs[i] + Len(rxBytes(queue[i]))
          /\ \A j \in 1 .. Len(rxBytes(queue[i])) : stream[ofs[i] + j] = rxBytes(queue[i])[j]
    BY <1>1 DEF Offsets, n
  <1>8. ofs[2] = k /\ k <= Len(stream) /\ \A j \in 1 .. k : stream[j] = rxBytes(f)[j]
    <2>1. 1 \in 1 .. n /\ 2 \in 1 .. n + 1 /\ n + 1 \in 1 .. n + 1 /\ 2 <= n + 1
      BY <1>2, <1>3
    <2>2. /\ ofs[1 + 1] = 0 + k
          /\ \A j \in 1 .. k : stream[0 + j] = rxBytes(f)[j]
      BY <1>4, <1>5, <1>6, <1>7, <2>1
    <2>3. k \in Nat
      BY <1>4 DEF k
    <2>4. QED
      BY <1>6, <2>1, <2>2, <2>3
  <1>9. Size("hyperkit", stream) = Len(f)
    <2>1. /\ SubSeq(stream, 1, 2)[1] = Write("hyperkit", Len(f))[1]
          /\ SubSeq(stream, 1, 2)[2] = Write("hyperkit", Len(f))[2]
      <3>1. \A i \in 1 .. 2 : stream[i] \in T
        BY <1>2, ElementOfSeq
      <3>2. stream[1] \in T /\ stream[2] \in T
        BY <3>1
      <3>3. SubSeq(stream, 1, 2)[1] = stream[1] /\ SubSeq(stream, 1, 2)[2] = stream[2]
        BY <3>2, FirstTwo
      <3>4. 1 \in 1 .. k /\ 2 \in 1 .. k
        BY <1>4 DEF k
      <3>5. QED
        BY <1>5, <1>8, <3>3, <3>4
    <2>2. Size("hyperkit", stream) = Read("hyperkit", Write("hyperkit", Len(f)))
      BY <2>1 DEF Size, Read, Buf
    <2>3. QED
      BY <1>3, <1>4, <2>2, RoundTrip DEF StreamProtocols, f
  <1>10. End("hyperkit", stream) = k
    BY <1>9 DEF End, Buf, k
  <1>11. Frame("hyperkit", stream) = f
    <2>1. Frame("hyperkit", stream) = SubSeq(stream, 3, k)
      <3>1. Buf("hyperkit") + 1 = 3
        BY DEF Buf
      <3>2. QED
        BY <1>10, <3>1 DEF Frame
    <2>2. \A i \in 3 .. k : stream[i] = f[i - 2] /\ stream[i] \in Bytes
      <3>1. ASSUME NEW i \in 3 .. k
            PROVE  stream[i] = f[i - 2] /\ stream[i] \in Bytes
        <4>1. i \in 1 .. k /\ i - 2 \in 1 .. Len(f) /\ 2 + (i - 2) = i
          BY <1>4 DEF k
        <4>2. stream[i] = f[i - 2]
          BY <1>5, <1>8, <4>1
        <4>3. QED
          BY <1>4, <4>1, <4>2, ElementOfSeq
      <3>2. QED
        BY <3>1
    <2>3. k \in Int /\ k >= 2 /\ k - 3 + 1 = Len(f)
      BY <1>4 DEF k
    <2>4. /\ SubSeq(stream, 3, k) \in Seq(Bytes)
          /\ Len(SubSeq(stream, 3, k)) = IF 3 <= k THEN k - 3 + 1 ELSE 0
          /\ \A i \in 1 .. k - 3 + 1 : SubSeq(stream, 3, k)[i] = stream[3 + i - 1]
      BY <2>2, <2>3, SubSeqProperties
    <2>5. Len(SubSeq(stream, 3, k)) = Len(f)
      BY <2>3, <2>4
    <2>6. \A i \in 1 .. Len(f) : SubSeq(stream, 3, k)[i] = f[i]
      BY <2>2, <2>3, <2>4
    <2>7. QED
      BY <1>4, <2>1, <2>4, <2>5, <2>6, SeqEqual
  <1>12. InStep(Drop(stream, k), Drop(queue, 1))
    <2> DEFINE s == Drop(stream, k)
               q == Drop(queue, 1)
               o == [i \in 1 .. n |-> ofs[i + 1] - k]
    <2>1. k \in Nat
      BY <1>4 DEF k
    <2>2. Len(s) = Len(stream) - k /\ \A i \in 1 .. Len(stream) - k : s[i] = stream[k + i]
      BY <1>8, <2>1, DropProperties
    <2>3. Len(q) = n - 1 /\ \A i \in 1 .. n - 1 : q[i] = queue[i + 1]
      <3>1. /\ Len(q) = IF 1 <= n THEN n - 1 ELSE 0
            /\ \A i \in 1 .. n - 1 : q[i] = queue[1 + i]
        BY DropProperties DEF n
      <3>2. QED
        BY <1>2, <1>3, <3>1
    <2> HIDE DEF s, q
    <2>4. \A i \in 1 .. n : ofs[i + 1] \in Nat /\ k <= ofs[i + 1]
      <3>1. ASSUME NEW i \in 1 .. n
            PROVE  ofs[i + 1] \in Nat /\ k <= ofs[i + 1]
        <4>1. i + 1 \in 1 .. n + 1 /\ 2 \in 1 .. n + 1 /\ 2 <= i + 1
          BY <1>2, <1>3
        <4>2. QED
          BY <1>6, <1>8, <4>1
      <3>2. QED
        BY <3>1
    <2>5. o \in [1 .. n -> Nat] /\ \A i \in 1 .. n : o[i] = ofs[i + 1] - k
      BY <2>1, <2>4
    <2> HIDE DEF o
    <2>6. o[1] = 0 /\ o[n] = Len(s)
      <3>1. 1 \in 1 .. n /\ n \in 1 .. n /\ 1 + 1 = 2
        BY <1>2, <1>3
      <3>2. o[1] = ofs[2] - k /\ o[n] = ofs[n + 1] - k
        BY <2>5, <3>1
      <3>3. QED
        BY <1>6, <1>8, <2>1, <2>2, <3>2
    <2>7. ASSUME NEW i \in 1 .. n, NEW j \in 1 .. n, i <= j
          PROVE  o[i] <= o[j]
      <3>1. i + 1 \in 1 .. n + 1 /\ j + 1 \in 1 .. n + 1 /\ i + 1 <= j + 1
        BY <1>2, <2>7
      <3>2. QED
        BY <1>6, <2>1, <2>4, <2>5, <3>1
    <2>8. ASSUME NEW i \in 1 .. n - 1
          PROVE  /\ o[i + 1] = o[i] + Len(rxBytes(q[i]))
                 /\ \A j \in 1 .. Len(rxBytes(q[i])) : s[o[i] + j] = rxBytes(q[i])[j]
      <3>1. i \in 1 .. n /\ i + 1 \in 1 .. n /\ q[i] = queue[i + 1]
        BY <1>2, <2>3
      <3>2. /\ ofs[(i + 1) + 1] = ofs[i + 1] + Len(rxBytes(queue[i + 1]))
            /\ \A j \in 1 .. Len(rxBytes(queue[i + 1])) :
                 stream[ofs[i + 1] + j] = rxBytes(queue[i + 1])[j]
        BY <1>7, <3>1
      <3>3. Len(rxBytes(queue[i + 1])) \in Nat
        BY <3>1, SentBytes, ElementOfSeq, LenProperties DEF n
      <3>4. o[i] = ofs[i + 1] - k /\ o[i + 1] = ofs[(i + 1) + 1] - k
        BY <2>5, <3>1
      <3>5. /\ ofs[i + 1] \in Nat /\ k <= ofs[i + 1]
            /\ ofs[(i + 1) + 1] \in Nat /\ ofs[(i + 1) + 1] <= Len(stream)
        <4>1. (i + 1) + 1 \in 1 .. n + 1 /\ n + 1 \in 1 .. n + 1 /\ (i + 1) + 1 <= n + 1
          BY <1>2
        <4>2. QED
          BY <1>6, <2>4, <3>1, <4>1
      <3>6. ASSUME NEW j \in 1 .. Len(rxBytes(q[i]))
            PROVE  s[o[i] + j] = rxBytes(q[i])[j]
        <4> DEFINE a == ofs[i + 1]
                   l == Len(rxBytes(queue[i + 1]))
                   m == Len(stream)
        <4>1. a \in Nat /\ l \in Nat /\ m \in Nat /\ k <= a /\ j \in 1 .. l
          BY <1>2, <3>1, <3>3, <3>5
        <4>2. a + l <= m
          BY <3>2, <3>5
        <4>3. stream[a + j] = rxBytes(q[i])[j] /\ o[i] = a - k
          BY <3>1, <3>2, <3>4
        <4>4. \A x \in 1 .. m - k : s[x] = stream[k + x]
          BY <2>2
        <4> HIDE DEF a, l, m
        <4>5. (a - k) + j \in 1 .. m - k /\ k + ((a - k) + j) = a + j
          BY <2>1, <4>1, <4>2, SMT
        <4>6. QED
          BY <4>3, <4>4, <4>5
      <3>7. QED
        BY <2>1, <3>1, <3>2, <3>3, <3>4, <3>5, <3>6
    <2>9. Len(q) + 1 = n /\ 1 .. Len(q) = 1 .. n - 1
      BY <1>2, <2>3
    <2>10. Offsets(o, s, q)
      BY <2>5, <2>6, <2>7, <2>8, <2>9, Zenon DEF Offsets
    <2>11. QED
      BY <2>10 DEF InStep, s, q
  <1>13. QED
    BY <1>3, <1>9, <1>10, <1>11, <1>12 DEF f

-----------------------------------------------------------------------------
(* The inductive invariant. *)

(* A session that has not been dialled has left no trace. *)
Untouched ==
  \A s \in Sessions : s > session =>
    /\ host[s] = "none" /\ tap[s] = "none"
    /\ up[s] = <<>> /\ unread[s] = <<>>
    /\ ~lost[s] /\ ~upGarbled[s]

(* main runs a session only after it has dialled, and a panic ends every   *)
(* goroutine.                                                              *)
MainInv ==
  /\ main \in {"start", "stopped"} => session = 0
  /\ main \in {"tap", "wait"} => session \in Sessions
  /\ main = "crashed" => \A s \in Sessions, g \in Goroutines : go[s][g] = "done"

(* The goroutines that may put an error into errCh. *)
Reporters == IF tapPreexists THEN {"tx", "rx"} ELSE Goroutines

Started(s) == go[s]["tx"] # "none"

(***************************************************************************)
(* Who has reported: somebody if there is an error in errCh, somebody if   *)
(* run has returned, and two of them if both.                              *)
(***************************************************************************)
Reported(s) ==
  /\ \A g \in Goroutines : go[s][g] = "none" <=> ~Started(s)
  /\ ~Started(s) => errCh[s] = 0
  /\ s > session \/ (s = session /\ main = "tap") => ~Started(s)
  /\ tapPreexists /\ Started(s) => go[s]["dhcp"] = "done"
  /\ errCh[s] = 1 \/ (Over(s) /\ Started(s)) => \E r \in Reporters : go[s][r] = "done"
  /\ errCh[s] = 1 /\ Over(s) =>
       \E q, r \in Reporters : q # r /\ go[s][q] = "done" /\ go[s][r] = "done"

ReportInv == main # "crashed" => \A s \in Sessions : Reported(s)

(* A connection over standard input carries no request that could be lost. *)
StdioInv ==
  scheme = "stdio" =>
    /\ protocol = "hyperkit"
    /\ \A s \in Sessions : host[s] # "request" /\ ~lost[s]

(* The bytes behind the request are the frames that have not been read,    *)
(* until the handler of /connect loses some.                               *)
UpInStep(s) ==
  /\ host[s] = "request" => ~lost[s]
  /\ (protocol = "hyperkit" /\ ~lost[s]) =>
       /\ ~upGarbled[s]
       /\ host[s] = "request" => up[s] # <<>> /\ InStep(Drop(up[s], 1), unread[s])
       /\ host[s] # "request" => InStep(up[s], unread[s])

(* The same for what the switch has sent, while its length fits. *)
DownInStep(s) ==
  /\ \A i \in 1 .. Len(untapped[s]) : Len(untapped[s][i]) <= longest[s]
  /\ (protocol = "hyperkit" /\ longest[s] < SizeLimit("hyperkit")) =>
       ~downGarbled[s] /\ InStep(down[s], untapped[s])

UpInv == \A s \in Sessions : UpInStep(s)

DownInv == \A s \in Sessions : DownInStep(s)

IInv ==
  /\ TypeOK
  /\ Untouched
  /\ MainInv
  /\ ReportInv
  /\ StdioInv
  /\ UpInv
  /\ DownInv
  /\ WedgedOnlyOutOfStep
  /\ PanicsOnlyOnOversize

(* The invariant holds at first. *)
LEMMA InitIInv == Init => IInv
  <1> SUFFICES ASSUME Init PROVE IInv
    OBVIOUS
  <1>1. TypeOK
    <2>1. /\ <<>> \in Seq(Bytes)
          /\ <<>> \in Seq(HostFrames)
          /\ <<>> \in Seq(GuestFrames)
          /\ <<>> \in Seq(Bytes \cup {Request})
      BY EmptySeq
    <2>2. session \in 0 .. MaxSessions /\ frames \in 0 .. MaxFrames
      BY GvForwarderAssumption DEF Init
    <2>3. protocol \in StreamProtocols
      BY GvForwarderAssumption DEF Init, StreamProtocols
    <2>4. go \in [Sessions -> [Goroutines -> {"none", "run", "blocked", "done"}]]
      BY DEF Init
    <2>5. errCh \in [Sessions -> 0 .. 1] /\ longest \in [Sessions -> Nat]
      BY DEF Init
    <2>6. QED
      BY <2>1, <2>2, <2>3, <2>4, <2>5, Zenon DEF Init, TypeOK
  <1>2. Untouched
    BY Zenon DEF Init, Untouched
  <1>3. MainInv
    BY DEF Init, MainInv
  <1>4. ReportInv
    <2>1. ASSUME NEW s \in Sessions PROVE ~Over(s)
      BY <2>1, GvForwarderAssumption DEF Init, Over, Sessions
    <2>2. ASSUME NEW s \in Sessions
          PROVE  errCh[s] = 0 /\ \A g \in Goroutines : go[s][g] = "none"
      BY DEF Init
    <2>3. QED
      BY <2>1, <2>2 DEF ReportInv, Reported, Started, Goroutines
  <1>5. StdioInv
    BY Zenon DEF Init, StdioInv
  <1>6. UpInv
    BY EmptyInStep, Zenon DEF Init, UpInv, UpInStep
  <1>7. DownInv
    <2>1. ASSUME NEW s \in Sessions
          PROVE  untapped[s] = <<>> /\ down[s] = <<>> /\ ~downGarbled[s] /\ 1 .. Len(untapped[s]) = {}
      BY DEF Init
    <2>2. QED
      BY <2>1, EmptyInStep, Zenon DEF DownInv, DownInStep
  <1>8. WedgedOnlyOutOfStep /\ PanicsOnlyOnOversize
    BY DEF Init, WedgedOnlyOutOfStep, PanicsOnlyOnOversize
  <1>9. QED
    BY <1>1, <1>2, <1>3, <1>4, <1>5, <1>6, <1>7, <1>8 DEF IInv

(* The size in any header is a number, whatever bytes are read as one. *)
LEMMA SizeType ==
  ASSUME NEW p \in StreamProtocols, NEW stream \in Seq(Bytes \cup {Request}), Header(p, stream)
  PROVE  Size(p, stream) \in Nat /\ End(p, stream) \in Nat
  <1> DEFINE b == SubSeq(stream, 1, Buf(p))
  <1>1. Buf(p) \in Nat /\ Buf(p) >= 2 /\ (p = "qemu" => Buf(p) = 4)
    BY DEF Buf
  <1>2. \A i \in 1 .. Buf(p) : stream[i] \in Nat
    BY <1>1, FramingAssumption, ElementOfSeq, LenProperties DEF Header, Bytes, Request
  <1>3. \A i \in 1 .. Buf(p) : b[i] = stream[i]
    <2>1. \A i \in 1 .. Buf(p) - 1 + 1 : b[i] = stream[1 + i - 1]
      BY <1>1, <1>2, SubSeqProperties
    <2>2. QED
      BY <1>1, <2>1
  <1>4. \A i \in 1 .. Buf(p) : b[i] \in Nat
    BY <1>2, <1>3
  <1> HIDE DEF b
  <1>5. Base \in Nat /\ \A x, y \in Nat : Base * x + y \in Nat /\ x + Base * y \in Nat
    BY FramingAssumption, SMT
  <1>6. b[1] \in Nat /\ b[2] \in Nat /\ (p = "qemu" => b[3] \in Nat /\ b[4] \in Nat)
    BY <1>1, <1>4
  <1>7. Read(p, b) \in Nat
    BY <1>5, <1>6 DEF Read
  <1>8. QED
    BY <1>1, <1>7 DEF Size, End, b

(* Closing the ends of a connection. *)
LEMMA ClosingType ==
  ASSUME TypeOK
  PROVE  /\ guestCloses =>
              /\ conn' \in [Sessions -> {"none", "open", "closed"}]
              /\ tap' \in [Sessions -> {"none", "open", "closed"}]
              /\ down' \in [Sessions -> Seq(Bytes)]
              /\ untapped' \in [Sessions -> Seq(HostFrames)]
              /\ downGarbled' \in [Sessions -> BOOLEAN]
              /\ longest' \in [Sessions -> Nat]
         /\ \A S : hostCloses(S) =>
              /\ host' \in [Sessions -> {"none", "request", "accept", "rx", "stuck", "closed"}]
              /\ up' \in [Sessions -> Seq(Bytes \cup {Request})]
              /\ lost' \in [Sessions -> BOOLEAN]
              /\ unread' \in [Sessions -> Seq(GuestFrames)]
              /\ upGarbled' \in [Sessions -> BOOLEAN]
  <1>1. /\ <<>> \in Seq(Bytes)
        /\ <<>> \in Seq(HostFrames)
        /\ <<>> \in Seq(GuestFrames)
        /\ <<>> \in Seq(Bytes \cup {Request})
    BY EmptySeq
  <1>2. guestCloses =>
          /\ conn' \in [Sessions -> {"none", "open", "closed"}]
          /\ tap' \in [Sessions -> {"none", "open", "closed"}]
          /\ down' \in [Sessions -> Seq(Bytes)]
          /\ untapped' \in [Sessions -> Seq(HostFrames)]
          /\ downGarbled' \in [Sessions -> BOOLEAN]
          /\ longest' \in [Sessions -> Nat]
    <2>1. guestCloses => downGarbled' \in [Sessions -> BOOLEAN]
      BY Zenon DEF TypeOK, guestCloses
    <2>2. guestCloses => down' \in [Sessions -> Seq(Bytes)]
      BY <1>1, Zenon DEF TypeOK, guestCloses
    <2>3. guestCloses => untapped' \in [Sessions -> Seq(HostFrames)]
      BY <1>1, Zenon DEF TypeOK, guestCloses
    <2>4. longest \in [Sessions -> Nat] /\ (guestCloses => longest' = [longest EXCEPT ![session] = 0])
      BY DEF TypeOK, guestCloses
    <2>5. guestCloses => longest' \in [Sessions -> Nat]
      BY <2>4
    <2>6. QED
      BY <2>1, <2>2, <2>3, <2>5, Zenon DEF TypeOK, guestCloses
  <1>3. ASSUME NEW S, hostCloses(S)
        PROVE  /\ host' \in [Sessions -> {"none", "request", "accept", "rx", "stuck", "closed"}]
               /\ up' \in [Sessions -> Seq(Bytes \cup {Request})]
               /\ lost' \in [Sessions -> BOOLEAN]
               /\ unread' \in [Sessions -> Seq(GuestFrames)]
               /\ upGarbled' \in [Sessions -> BOOLEAN]
    <2>1. /\ lost' \in [Sessions -> BOOLEAN]
          /\ upGarbled' \in [Sessions -> BOOLEAN]
      BY <1>3, Zenon DEF hostCloses
    <2>2. QED
      BY <1>1, <1>3, <2>1 DEF TypeOK, hostCloses
  <1>4. QED
    BY <1>2, <1>3

(* A failure of a copy loop preserves the types. *)
LEMMA FailType ==
  ASSUME TypeOK, NEW s \in Sessions, NEW g \in Goroutines, Fail(s, g)
  PROVE  /\ go' \in [Sessions -> [Goroutines -> {"none", "run", "blocked", "done"}]]
         /\ errCh' \in [Sessions -> 0 .. 1]
  <1>1. errCh' \in [Sessions -> 0 .. 1]
    BY DEF TypeOK, Fail
  <1>2. go' \in [Sessions -> [Goroutines -> {"none", "run", "blocked", "done"}]]
    BY Zenon DEF TypeOK, Fail
  <1>3. QED
    BY <1>1, <1>2

-----------------------------------------------------------------------------
(* Types. *)

LEMMA MainType ==
  ASSUME TypeOK,
         mainStart \/ Dial \/ stdioDial \/ DialFails \/ openTap \/ receiveError \/ Sleep
  PROVE  TypeOK'
  <1> USE DEF flags, hostStreams, guestStreams, streams, process, goroutines, ends, dialled
  <1>1. CASE mainStart
    BY <1>1 DEF TypeOK, mainStart
  <1>2. CASE Dial
    <2>1. <<Request>> \in Seq(Bytes \cup {Request})
      OBVIOUS
    <2>2. session' \in 0 .. MaxSessions
      BY <1>2, GvForwarderAssumption DEF TypeOK, Dial
    <2>3. QED
      BY <1>2, <2>1, <2>2 DEF TypeOK, Dial
  <1>3. CASE stdioDial
    <2>1. session' \in 0 .. MaxSessions
      BY <1>3, GvForwarderAssumption DEF TypeOK, stdioDial
    <2>2. QED
      BY <1>3, <2>1 DEF TypeOK, stdioDial
  <1>4. CASE DialFails
    BY <1>4 DEF TypeOK, DialFails
  <1>5. CASE openTap
    <2>1. CASE go' = [go EXCEPT ![session] =
                 [g \in Goroutines |-> IF g = "dhcp" /\ tapPreexists THEN "done" ELSE "run"]]
               /\ tap' = [tap EXCEPT ![session] = "open"]
               /\ main' = "wait"
               /\ UNCHANGED <<conn, host, streams>>
      BY <1>5, <2>1 DEF TypeOK, openTap
    <2>2. CASE runReturns /\ UNCHANGED go
      BY <1>5, <2>2, ClosingType DEF TypeOK, openTap, runReturns
    <2>3. QED
      BY <1>5, <2>1, <2>2 DEF openTap
  <1>6. CASE receiveError
    <2>1. errCh' \in [Sessions -> 0 .. 1]
      <3>1. \A z, Z : z \in Z /\ errCh \in [Sessions -> Z] =>
              [errCh EXCEPT ![session] = z] \in [Sessions -> Z]
        BY Zenon
      <3>2. 0 \in 0 .. 1
        OBVIOUS
      <3>3. QED
        BY <1>6, <3>1, <3>2 DEF TypeOK, receiveError
    <2>2. QED
      BY <1>6, <2>1, ClosingType DEF TypeOK, receiveError, runReturns
  <1>7. CASE Sleep
    BY <1>7 DEF TypeOK, Sleep
  <1>8. QED
    BY <1>1, <1>2, <1>3, <1>4, <1>5, <1>6, <1>7

(* The actions of the guest's process preserve the types. *)
LEMMA GuestType ==
  ASSUME TypeOK, NEW s \in Sessions, Guest(s)
  PROVE  TypeOK'
  <1> USE DEF flags, hostStreams, guestStreams, streams, process, goroutines, ends
  <1>1. ASSUME NEW g \in Goroutines, Fail(s, g),
               UNCHANGED <<process, ends, wedged, frames, streams>>
        PROVE  TypeOK'
    BY <1>1, FailType DEF TypeOK
  <1>2. CASE \E g \in Goroutines : Unblock(s, g)
    BY <1>1, <1>2 DEF Unblock
  <1>3. CASE dhcp(s)
    <2>1. CASE go' = [go EXCEPT ![s]["dhcp"] = "done"] /\ UNCHANGED errCh
      BY <1>3, <2>1 DEF TypeOK, dhcp
    <2>2. QED
      BY <1>1, <1>3, <2>1 DEF dhcp, Goroutines
  <1>4. CASE rx(s)
    <2>1. PICK f \in GuestFrames :
            /\ up' = [up EXCEPT ![s] = @ \o rxBytes(f)]
            /\ unread' = [unread EXCEPT ![s] = Append(@, f)]
      BY <1>4 DEF rx
    <2>2. rxBytes(f) \in Seq(Bytes \cup {Request})
      BY SentBytes, SeqMonotonic, GvForwarderAssumption
    <2>3. up[s] \o rxBytes(f) \in Seq(Bytes \cup {Request})
      BY <2>2, ConcatProperties DEF TypeOK
    <2>4. Append(unread[s], f) \in Seq(GuestFrames)
      BY AppendProperties DEF TypeOK
    <2>5. frames' \in 0 .. MaxFrames
      BY <1>4, GvForwarderAssumption DEF TypeOK, rx
    <2>6. QED
      BY <1>4, <2>1, <2>3, <2>4, <2>5 DEF TypeOK, rx
  <1>5. CASE rxFails(s)
    <2>1. frames' \in 0 .. MaxFrames
      BY <1>5, GvForwarderAssumption DEF TypeOK, rxFails
    <2>2. Fail(s, "rx") /\ UNCHANGED <<process, ends, wedged, streams>>
      BY <1>5 DEF rxFails
    <2>3. QED
      BY <2>1, <2>2, FailType DEF TypeOK, Goroutines
  <1>6. CASE tx(s)
    <2>1. go' \in [Sessions -> [Goroutines -> {"none", "run", "blocked", "done"}]]
          /\ errCh' \in [Sessions -> 0 .. 1]
      BY <1>6, FailType DEF TypeOK, tx, Goroutines
    <2>2. End("hyperkit", down[s]) \in Nat
      BY <1>6, SizeType, SeqMonotonic DEF tx, Complete, TypeOK, StreamProtocols
    <2>3. Drop(down[s], End("hyperkit", down[s])) \in Seq(Bytes)
      BY <2>2, DropProperties DEF TypeOK
    <2>4. Drop(untapped[s], 1) \in Seq(HostFrames)
      BY DropProperties DEF TypeOK
    <2>5. downGarbled' \in [Sessions -> BOOLEAN]
      BY <1>6, Zenon DEF TypeOK, tx
    <2>6. QED
      BY <1>6, <2>1, <2>3, <2>4, <2>5 DEF TypeOK, tx
  <1>7. CASE txPanics(s)
    BY <1>7 DEF TypeOK, txPanics
  <1>8. CASE txFails(s)
    BY <1>1, <1>8 DEF txFails, Goroutines
  <1>9. QED
    BY <1>2, <1>3, <1>4, <1>5, <1>6, <1>7, <1>8 DEF Guest

(* The actions of the host preserve the types. *)
LEMMA HostType ==
  ASSUME TypeOK, NEW s \in Sessions, Host(s)
  PROVE  TypeOK'
  <1> USE DEF flags, hostStreams, guestStreams, streams, process, goroutines, ends
  <1>1. CASE ConnectHandler(s)
    <2>1. PICK n \in 0 .. Len(up[s]) - 1 :
            /\ lost' = [lost EXCEPT ![s] = n > 0]
            /\ up' = [up EXCEPT ![s] = Drop(@, 1 + n)]
      BY <1>1 DEF ConnectHandler
    <2>2. n \in Nat /\ 1 + n \in Nat
      BY LenProperties DEF TypeOK
    <2>3. Drop(up[s], 1 + n) \in Seq(Bytes \cup {Request})
      BY <2>2, DropProperties DEF TypeOK
    <2>4. lost' \in [Sessions -> BOOLEAN]
      <3>1. (n > 0) \in BOOLEAN
        BY <2>2
      <3>2. QED
        BY <2>1, <3>1, Zenon DEF TypeOK
    <2>5. QED
      BY <1>1, <2>1, <2>3, <2>4 DEF TypeOK, ConnectHandler
  <1>2. CASE Accept(s)
    BY <1>2 DEF TypeOK, Accept
  <1>3. CASE rxStream(s)
    <2>1. End(protocol, up[s]) \in Nat
      BY <1>3, SizeType DEF rxStream, Complete, TypeOK
    <2>2. Drop(up[s], End(protocol, up[s])) \in Seq(Bytes \cup {Request})
      BY <2>1, DropProperties DEF TypeOK
    <2>3. Drop(unread[s], 1) \in Seq(GuestFrames)
      BY DropProperties DEF TypeOK
    <2>4. wedged' \in BOOLEAN /\ upGarbled' \in [Sessions -> BOOLEAN]
      <3>1. Size(protocol, up[s]) \in Nat
        BY <1>3, SizeType DEF rxStream, Complete, TypeOK
      <3>2. (Size(protocol, up[s]) < HeaderBytes) \in BOOLEAN
        BY <3>1, GvForwarderAssumption
      <3>3. QED
        BY <1>3, <3>2, Zenon DEF TypeOK, rxStream
    <2>5. host' \in [Sessions -> {"none", "request", "accept", "rx", "stuck", "closed"}]
      BY <1>3, Zenon DEF TypeOK, rxStream
    <2>6. QED
      BY <1>3, <2>2, <2>3, <2>4, <2>5 DEF TypeOK, rxStream
  <1>4. CASE rxEnds(s)
    BY <1>4, ClosingType DEF TypeOK, rxEnds
  <1>5. CASE txPkt(s)
    <2>1. PICK f \in HostFrames :
            /\ down' = [down EXCEPT ![s] = @ \o txBytes(f)]
            /\ untapped' = [untapped EXCEPT ![s] = Append(@, f)]
            /\ longest' = [longest EXCEPT ![s] = IF Len(f) > @ THEN Len(f) ELSE @]
      BY <1>5 DEF txPkt
    <2>2. f \in Seq(Bytes) /\ Len(f) \in Nat
      BY GvForwarderAssumption, LenProperties
    <2>3. txBytes(f) \in Seq(Bytes)
      BY <2>2, WriteType, ConcatProperties DEF TypeOK, txBytes
    <2>4. down[s] \o txBytes(f) \in Seq(Bytes)
      BY <2>3, ConcatProperties DEF TypeOK
    <2>5. Append(untapped[s], f) \in Seq(HostFrames)
      BY AppendProperties DEF TypeOK
    <2>6. longest' \in [Sessions -> Nat]
      BY <2>1, <2>2 DEF TypeOK
    <2>7. frames' \in 0 .. MaxFrames
      BY <1>5, GvForwarderAssumption DEF TypeOK, txPkt
    <2>8. QED
      BY <1>5, <2>1, <2>4, <2>5, <2>6, <2>7 DEF TypeOK, txPkt
  <1>6. CASE txBufFails(s)
    BY <1>6, ClosingType DEF TypeOK, txBufFails
  <1>7. QED
    BY <1>1, <1>2, <1>3, <1>4, <1>5, <1>6 DEF Host

(* Every action preserves the types. *)
LEMMA TypeStep ==
  ASSUME TypeOK, [Next]_vars
  PROVE  TypeOK'
  <1> USE DEF flags, hostStreams, guestStreams, streams, process, goroutines, ends
  <1>1. CASE hostExits
    BY <1>1, ClosingType DEF TypeOK, hostExits
  <1>2. CASE UNCHANGED vars
    BY <1>2 DEF TypeOK, vars
  <1>3. QED
    BY <1>1, <1>2, MainType, GuestType, HostType DEF Next

-----------------------------------------------------------------------------
(* Sessions. *)

LEMMA UntouchedStep ==
  ASSUME IInv, [Next]_vars
  PROVE  Untouched'
  <1> USE DEF flags, hostStreams, guestStreams, streams, process, goroutines, ends, dialled
  <1>0. TypeOK /\ Untouched /\ MainInv
    BY DEF IInv
  <1> SUFFICES ASSUME NEW r \in Sessions, r > session'
               PROVE  (/\ host[r] = "none" /\ tap[r] = "none"
                       /\ up[r] = <<>> /\ unread[r] = <<>>
                       /\ ~lost[r] /\ ~upGarbled[r])'
    BY DEF Untouched
  <1>1. session' \in {session, session + 1} /\ session \in Int /\ r \in Int
    <2>1. Dial \/ stdioDial \/ session' = session
      BY DEF Next, vars, Guest, Host, mainStart, DialFails,
         openTap, receiveError, Sleep, hostExits, Unblock, dhcp, rx, rxFails, tx, txPanics, txFails,
         ConnectHandler, Accept, rxStream, rxEnds, txPkt, txBufFails
    <2>2. QED
      BY <1>0, <2>1, GvForwarderAssumption DEF Dial, stdioDial, TypeOK, Sessions
  <1>2. /\ r > session /\ r # session /\ r # session'
        /\ host[r] = "none" /\ tap[r] = "none"
        /\ up[r] = <<>> /\ unread[r] = <<>>
        /\ ~lost[r] /\ ~upGarbled[r]
    BY <1>0, <1>1 DEF Untouched
  <1>3. CASE mainStart \/ DialFails \/ Sleep \/ UNCHANGED vars
    BY <1>2, <1>3 DEF mainStart, DialFails, Sleep, vars
  <1>4. CASE Dial \/ stdioDial
    BY <1>0, <1>2, <1>4 DEF Dial, stdioDial, TypeOK
  <1>5. CASE openTap \/ receiveError
    <2>1. tap'[r] = tap[r]
      BY <1>0, <1>2, <1>5 DEF openTap, receiveError, runReturns, guestCloses, TypeOK
    <2>2. UNCHANGED <<host, hostStreams>> \/ hostCloses(IF scheme = "stdio" THEN {session} ELSE {})
      BY <1>5 DEF openTap, receiveError, runReturns
    <2>3. QED
      BY <1>2, <2>1, <2>2 DEF hostCloses
  <1>6. CASE hostExits
    BY <1>2, <1>6 DEF hostExits, hostCloses
  <1>7. ASSUME NEW s \in Sessions, Guest(s)
        PROVE  (/\ host[r] = "none" /\ tap[r] = "none"
                /\ up[r] = <<>> /\ unread[r] = <<>>
                /\ ~lost[r] /\ ~upGarbled[r])'
    <2>1. CASE rx(s)
      BY <1>0, <1>2, <2>1 DEF rx, TypeOK
    <2>2. CASE txPanics(s)
      BY <1>0, <1>2, <2>2 DEF txPanics, TypeOK
    <2>3. QED
      BY <1>2, <1>7, <2>1, <2>2 DEF Guest, Unblock, dhcp, rxFails, tx, txFails
  <1>8. ASSUME NEW s \in Sessions, Host(s)
        PROVE  (/\ host[r] = "none" /\ tap[r] = "none"
                /\ up[r] = <<>> /\ unread[r] = <<>>
                /\ ~lost[r] /\ ~upGarbled[r])'
    <2>1. s # r
      BY <1>2, <1>8 DEF Host, ConnectHandler, Accept, rxStream, rxEnds, txPkt, txBufFails
    <2>2. QED
      BY <1>0, <1>2, <1>8, <2>1 DEF Host, ConnectHandler, Accept, rxStream, rxEnds, txPkt,
         txBufFails, hostCloses, TypeOK
  <1>9. QED
    BY <1>3, <1>4, <1>5, <1>6, <1>7, <1>8 DEF Next

(* Every action preserves what is known of main. *)
LEMMA MainStep ==
  ASSUME IInv, [Next]_vars
  PROVE  MainInv'
  <1> USE DEF flags, hostStreams, guestStreams, streams, process, goroutines, ends, dialled
  <1>0. TypeOK /\ MainInv
    BY DEF IInv
  <1>1. CASE mainStart \/ DialFails \/ openTap \/ receiveError \/ Sleep \/ hostExits \/ UNCHANGED vars
    BY <1>0, <1>1 DEF mainStart, DialFails, openTap, receiveError, runReturns, Sleep, hostExits, vars,
       MainInv
  <1>2. CASE Dial \/ stdioDial
    <2>1. session' = session + 1 /\ session < MaxSessions /\ session \in 0 .. MaxSessions /\ main' = "tap"
      BY <1>0, <1>2 DEF Dial, stdioDial, TypeOK
    <2>2. session' \in Sessions
      BY <2>1, GvForwarderAssumption DEF Sessions
    <2>3. QED
      BY <2>1, <2>2 DEF MainInv
  <1>3. ASSUME NEW s \in Sessions, Guest(s)
        PROVE  MainInv'
    <2>1. CASE txPanics(s)
      BY <2>1 DEF txPanics, MainInv
    <2>2. CASE Guest(s) /\ ~txPanics(s)
      <3>1. main # "crashed"
        BY <1>0, <2>2 DEF MainInv, Guest, Unblock, dhcp, rx, rxFails, tx, txFails, Goroutines
      <3>2. UNCHANGED <<main, session>>
        BY <2>2 DEF Guest, Unblock, dhcp, rx, rxFails, tx, txFails
      <3>3. QED
        BY <1>0, <3>1, <3>2 DEF MainInv
    <2>3. QED
      BY <1>3, <2>1, <2>2
  <1>4. ASSUME NEW s \in Sessions, Host(s)
        PROVE  MainInv'
    BY <1>0, <1>4 DEF Host, ConnectHandler, Accept, rxStream, rxEnds, txPkt, txBufFails, MainInv
  <1>5. QED
    BY <1>1, <1>2, <1>3, <1>4 DEF Next

(* What a goroutine that reports an error changes. *)
LEMMA FailEffect ==
  ASSUME TypeOK, NEW s \in Sessions, NEW g \in Goroutines, Fail(s, g)
  PROVE  /\ \A r \in Sessions : r # s => go'[r] = go[r] /\ errCh'[r] = errCh[r]
         /\ errCh'[s] = 1
         /\ go'[s][g] = IF errCh[s] = 0 THEN "done" ELSE "blocked"
         /\ \A h \in Goroutines : h # g => go'[s][h] = go[s][h]
  BY DEF TypeOK, Fail

(* Every action preserves what is known of the reports on errCh. *)
LEMMA ReportStep ==
  ASSUME IInv, [Next]_vars
  PROVE  ReportInv'
  <1> USE DEF flags, hostStreams, guestStreams, streams, process, goroutines, ends, dialled
  <1>0. /\ TypeOK /\ MainInv
        /\ session \in Int /\ \A r \in Sessions : r \in Int /\ r > 0
    <2>1. TypeOK /\ MainInv /\ session \in 0 .. MaxSessions
      BY DEF IInv, TypeOK
    <2>2. QED
      BY <2>1, GvForwarderAssumption DEF Sessions
  <1>1. SUFFICES ASSUME main # "crashed", main' # "crashed", NEW r \in Sessions, Reported(r)
                 PROVE  Reported(r)'
    <2>1. main = "crashed" => main' = "crashed"
      BY <1>0 DEF Next, vars, mainStart, Dial, stdioDial, DialFails, openTap, receiveError, Sleep,
         hostExits, Guest, Host, Unblock, dhcp, rx, rxFails, tx, txPanics, txFails, ConnectHandler,
         Accept, rxStream, rxEnds, txPkt, txBufFails
    <2>2. QED
      BY <1>1, <2>1 DEF IInv, ReportInv
  <1>2. ASSUME UNCHANGED <<tapPreexists, main, session, go, errCh>>
        PROVE  Reported(r)'
    BY <1>1, <1>2 DEF Reported, Started, Over, Reporters
  <1>3. CASE mainStart
    <2>1. session = 0 /\ UNCHANGED <<tapPreexists, session, go, errCh>> /\ main' # "tap"
      BY <1>0, <1>3 DEF mainStart, MainInv
    <2>2. ~Over(r)'
      BY <1>0, <2>1 DEF Over
    <2>3. QED
      BY <1>0, <1>1, <2>1, <2>2 DEF Reported, Started, Reporters
  <1>4. CASE Dial \/ stdioDial
    <2>1. /\ UNCHANGED <<tapPreexists, go, errCh>>
          /\ main = "dial" /\ main' = "tap" /\ session' = session + 1
      BY <1>4 DEF Dial, stdioDial
    <2>2. r <= session => Over(r)
      BY <1>0, <2>1 DEF Over
    <2>3. r > session => ~Started(r) /\ errCh[r] # 1
      BY <1>1 DEF Reported
    <2>4. r <= session \/ r > session
      BY <1>0
    <2>5. r <= session => ~(r > session \/ r > session' \/ r = session')
      BY <1>0, <2>1
    <2>6. QED
      BY <1>1, <2>1, <2>2, <2>3, <2>4, <2>5 DEF Reported, Started, Reporters
  <1>5. CASE DialFails \/ Sleep
    <2>1. /\ UNCHANGED <<tapPreexists, session, go, errCh>>
          /\ main \in {"dial", "sleep"} /\ main' \in {"dial", "sleep"}
      BY <1>5 DEF DialFails, Sleep
    <2>2. Over(r)' <=> Over(r)
      BY <2>1 DEF Over
    <2>3. QED
      BY <1>1, <2>1, <2>2 DEF Reported, Started, Reporters
  <1>6. CASE openTap
    <2>1. /\ main = "tap" /\ main' \in {"wait", "sleep"} /\ UNCHANGED <<tapPreexists, session, errCh>>
      BY <1>6 DEF openTap, runReturns
    <2>2. CASE r # session
      <3>1. go'[r] = go[r]
        BY <1>0, <1>6, <2>2 DEF openTap, TypeOK
      <3>2. Over(r)' <=> Over(r)
        BY <2>1, <2>2 DEF Over
      <3>3. QED
        BY <1>1, <2>1, <2>2, <3>1, <3>2 DEF Reported, Started, Reporters
    <2>3. CASE r = session
      <3>1. ~Started(r) /\ errCh[r] = 0 /\ ~(r > session)
        BY <1>0, <1>1, <2>1, <2>3 DEF Reported
      <3>2. CASE go' = [go EXCEPT ![session] =
                   [g \in Goroutines |-> IF g = "dhcp" /\ tapPreexists THEN "done" ELSE "run"]]
                 /\ main' = "wait"
        <4>1. \A g \in Goroutines : go'[r][g] = IF g = "dhcp" /\ tapPreexists THEN "done" ELSE "run"
          BY <1>0, <2>3, <3>2 DEF TypeOK
        <4>2. ~Over(r)'
          BY <2>1, <2>3, <3>1, <3>2 DEF Over
        <4>3. Started(r)'
          BY <4>1 DEF Started, Goroutines
        <4>4. QED
          BY <2>1, <2>3, <3>1, <3>2, <4>1, <4>2, <4>3 DEF Reported, Goroutines
      <3>3. CASE UNCHANGED go
        BY <1>1, <2>1, <2>3, <3>1, <3>3 DEF Reported, Started, Reporters
      <3>4. QED
        BY <1>6, <3>2, <3>3 DEF openTap
    <2>4. QED
      BY <2>2, <2>3
  <1>7. CASE receiveError
    <2>1. /\ main = "wait" /\ main' = "sleep" /\ UNCHANGED <<tapPreexists, session, go>>
          /\ errCh[session] = 1 /\ errCh' = [errCh EXCEPT ![session] = 0]
      BY <1>7 DEF receiveError, runReturns
    <2>2. CASE r # session
      <3>1. errCh'[r] = errCh[r]
        BY <1>0, <2>1, <2>2 DEF TypeOK
      <3>2. Over(r)' <=> Over(r)
        BY <2>1, <2>2 DEF Over
      <3>3. QED
        BY <1>1, <2>1, <2>2, <3>1, <3>2 DEF Reported, Started, Reporters
    <2>3. CASE r = session
      <3>1. errCh'[r] = 0
        BY <1>0, <2>1, <2>3 DEF TypeOK
      <3>2. QED
        BY <1>1, <2>1, <2>3, <3>1 DEF Reported, Started, Reporters
    <2>4. QED
      BY <2>2, <2>3
  <1>8. ASSUME NEW s \in Sessions, NEW g \in Goroutines, go[s][g] \in {"run", "blocked"}, Fail(s, g),
               UNCHANGED <<tapPreexists, main, session>>
        PROVE  Reported(r)'
    <2>1. CASE r # s
      <3>1. go'[r] = go[r] /\ errCh'[r] = errCh[r]
        BY <1>0, <1>8, <2>1, FailEffect
      <3>2. (Over(r)' <=> Over(r)) /\ Reporters' = Reporters
        BY <1>8 DEF Over, Reporters
      <3>3. QED
        BY <1>1, <1>8, <3>1, <3>2 DEF Reported, Started
    <2>2. CASE r = s
      <3>1. /\ Started(r) /\ g \in Reporters
        BY <1>1, <1>8, <2>2 DEF Reported, Reporters, Goroutines
      <3>2. /\ errCh'[r] = 1
            /\ go'[r][g] = IF errCh[r] = 0 THEN "done" ELSE "blocked"
            /\ \A h \in Goroutines : h # g => go'[r][h] = go[r][h]
        BY <1>0, <1>8, <2>2, FailEffect
      <3>3. errCh[r] \in {0, 1} /\ (Over(r)' <=> Over(r)) /\ Reporters' = Reporters
        BY <1>0, <1>8 DEF TypeOK, Over, Reporters
      <3>4. \A h \in Goroutines : go'[r][h] # "none" /\ (go[r][h] = "done" => go'[r][h] = "done")
        BY <1>1, <1>8, <2>2, <3>1, <3>2 DEF Reported
      <3>5. Started(r)'
        BY <3>4 DEF Started, Goroutines
      <3>6. Reporters \subseteq Goroutines
        BY DEF Reporters, Goroutines
      <3>7. \E q \in Reporters : go'[r][q] = "done"
        BY <1>1, <3>1, <3>2, <3>3, <3>4, <3>6 DEF Reported
      <3>8. Over(r) => \E p, q \in Reporters : p # q /\ go'[r][p] = "done" /\ go'[r][q] = "done"
        <4>1. CASE errCh[r] = 0
          BY <1>1, <1>8, <2>2, <3>1, <3>2, <3>4, <3>6, <4>1 DEF Reported
        <4>2. CASE errCh[r] = 1
          BY <1>1, <3>4, <3>6, <4>2 DEF Reported
        <4>3. QED
          BY <3>3, <4>1, <4>2
      <3>9. tapPreexists => go'[r]["dhcp"] = "done"
        BY <1>1, <3>1, <3>4 DEF Reported, Goroutines
      <3>10. ~(r > session \/ (r = session /\ main = "tap"))
        BY <1>1, <3>1 DEF Reported
      <3>11. QED
        BY <1>8, <3>3, <3>4, <3>5, <3>7, <3>8, <3>9, <3>10 DEF Reported
    <2>3. QED
      BY <2>1, <2>2
  <1>9. ASSUME NEW s \in Sessions, go[s]["dhcp"] = "run", go' = [go EXCEPT ![s]["dhcp"] = "done"],
               UNCHANGED <<tapPreexists, main, session, errCh>>
        PROVE  Reported(r)'
    <2>1. \A h \in Goroutines : go'[r][h] = IF r = s /\ h = "dhcp" THEN "done" ELSE go[r][h]
      BY <1>0, <1>9 DEF TypeOK, Goroutines
    <2>2. /\ Over(r)' <=> Over(r)
          /\ Started(r)' <=> Started(r)
          /\ Reporters' = Reporters /\ Reporters \subseteq Goroutines
      BY <1>9, <2>1 DEF Over, Started, Reporters, Goroutines
    <2>3. \A h \in Goroutines : (go'[r][h] = "none" <=> go[r][h] = "none")
                               /\ (go[r][h] = "done" => go'[r][h] = "done")
      BY <1>9, <2>1
    <2>4. QED
      BY <1>1, <1>9, <2>2, <2>3 DEF Reported, Goroutines
  <1>10. ASSUME NEW s \in Sessions, Guest(s)
         PROVE  Reported(r)'
    <2>1. CASE \E g \in Goroutines : Unblock(s, g)
      BY <1>8, <2>1 DEF Unblock
    <2>2. CASE dhcp(s)
      BY <1>8, <1>9, <2>2 DEF dhcp, Goroutines
    <2>3. CASE rx(s)
      BY <1>2, <2>3 DEF rx
    <2>4. CASE rxFails(s) \/ txFails(s)
      BY <1>8, <2>4 DEF rxFails, txFails, Goroutines
    <2>5. CASE tx(s)
      BY <1>2, <1>8, <2>5 DEF tx, Goroutines
    <2>6. QED
      BY <1>1, <1>10, <2>1, <2>2, <2>3, <2>4, <2>5 DEF Guest, txPanics
  <1>11. CASE hostExits \/ UNCHANGED vars \/ \E s \in Sessions : Host(s)
    BY <1>2, <1>11 DEF hostExits, vars, Host, ConnectHandler, Accept, rxStream, rxEnds, txPkt, txBufFails
  <1>12. QED
    BY <1>3, <1>4, <1>5, <1>6, <1>7, <1>10, <1>11 DEF Next

-----------------------------------------------------------------------------
(* Streams. *)

(* Closing a connection leaves both directions in step, with nothing sent. *)
LEMMA ClosingStreams ==
  ASSUME IInv, UNCHANGED protocol
  PROVE  /\ guestCloses => DownInv'
         /\ \A S : hostCloses(S) => UpInv'
  <1>0. TypeOK /\ UpInv /\ DownInv
    BY DEF IInv
  <1>1. ASSUME guestCloses, NEW s \in Sessions
        PROVE  DownInStep(s)'
    <2>1. CASE s = session
      <3>1. /\ untapped'[s] = <<>> /\ down'[s] = <<>> /\ ~downGarbled'[s]
            /\ 1 .. Len(untapped'[s]) = {}
        BY <1>0, <1>1, <2>1 DEF guestCloses, TypeOK
      <3>2. QED
        BY <3>1, EmptyInStep, Zenon DEF DownInStep
    <2>2. CASE s # session
      <3>1. /\ untapped'[s] = untapped[s] /\ down'[s] = down[s]
            /\ downGarbled'[s] = downGarbled[s] /\ longest'[s] = longest[s]
        BY <1>0, <1>1, <2>2 DEF guestCloses, TypeOK
      <3>2. QED
        BY <1>0, <3>1 DEF DownInv, DownInStep
    <2>3. QED
      BY <2>1, <2>2
  <1>2. ASSUME NEW S, hostCloses(S), NEW s \in Sessions
        PROVE  UpInStep(s)'
    <2>1. CASE s \in S
      <3>1. host'[s] # "request" /\ up'[s] = <<>> /\ unread'[s] = <<>> /\ ~upGarbled'[s]
        BY <1>2, <2>1 DEF hostCloses
      <3>2. QED
        BY <3>1, EmptyInStep DEF UpInStep
    <2>2. CASE s \notin S
      <3>1. /\ host'[s] = host[s] /\ up'[s] = up[s] /\ unread'[s] = unread[s]
            /\ (lost'[s] <=> lost[s]) /\ (upGarbled'[s] <=> upGarbled[s])
        BY <1>2, <2>2 DEF hostCloses
      <3>2. QED
        BY <1>0, <3>1 DEF UpInv, UpInStep
    <2>3. QED
      BY <2>1, <2>2
  <1>3. QED
    BY <1>1, <1>2 DEF UpInv, DownInv

(* A direction of a connection that is not touched stays in step. *)
LEMMA StreamsKept ==
  ASSUME IInv, UNCHANGED protocol, NEW r \in Sessions
  PROVE  /\ (/\ host'[r] = host[r] /\ up'[r] = up[r] /\ unread'[r] = unread[r]
             /\ lost'[r] = lost[r] /\ upGarbled'[r] = upGarbled[r]) => UpInStep(r)'
         /\ (/\ down'[r] = down[r] /\ untapped'[r] = untapped[r]
             /\ longest'[r] = longest[r] /\ downGarbled'[r] = downGarbled[r]) => DownInStep(r)'
  BY DEF IInv, UpInv, UpInStep, DownInv, DownInStep

(* rx writes behind what has not been read. *)
LEMMA rxUp ==
  ASSUME IInv, NEW s \in Sessions, rx(s), NEW r \in Sessions
  PROVE  UpInStep(r)'
  <1>0. TypeOK /\ UpInStep(r) /\ UNCHANGED <<protocol, host, lost, upGarbled>>
    BY DEF IInv, UpInv, rx, process, flags, ends
  <1>1. PICK f \in GuestFrames :
          /\ up' = [up EXCEPT ![s] = @ \o rxBytes(f)]
          /\ unread' = [unread EXCEPT ![s] = Append(@, f)]
    BY DEF rx
  <1>2. CASE r # s
    BY <1>0, <1>1, <1>2, StreamsKept DEF TypeOK
  <1>3. CASE r = s
    <2> DEFINE T == Bytes \cup {Request}
    <2>0. SUFFICES ASSUME protocol = "hyperkit", ~lost[r] PROVE UpInStep(r)'
      BY <1>0 DEF UpInStep
    <2>1. /\ up[r] \in Seq(T) /\ unread[r] \in Seq(GuestFrames)
          /\ up'[r] = up[r] \o rxBytes(f) /\ unread'[r] = Append(unread[r], f)
      BY <1>0, <1>1, <1>3 DEF TypeOK
    <2>2. GuestFrames \subseteq Seq(Bytes) /\ Bytes \subseteq T
      BY GvForwarderAssumption
    <2>3. rxBytes(f) \in Seq(T)
      BY <2>2, SentBytes, SeqMonotonic
    <2> HIDE DEF T
    <2>4. CASE host[r] # "request"
      <3>1. InStep(up[r], unread[r]) /\ ~upGarbled[r]
        BY <1>0, <2>0, <2>4 DEF UpInStep
      <3>2. InStep(up[r] \o rxBytes(f), Append(unread[r], f))
        BY <2>1, <2>2, <3>1, SendInStep
      <3>3. QED
        BY <1>0, <2>1, <2>4, <3>1, <3>2 DEF UpInStep
    <2>5. CASE host[r] = "request"
      <3>1. up[r] # <<>> /\ InStep(Drop(up[r], 1), unread[r]) /\ ~upGarbled[r]
        BY <1>0, <2>0, <2>5 DEF UpInStep
      <3>2. Drop(up[r], 1) \in Seq(T)
        BY <2>1, DropProperties
      <3>3. InStep(Drop(up[r], 1) \o rxBytes(f), Append(unread[r], f))
        BY <2>1, <2>2, <3>1, <3>2, SendInStep
      <3>4. up'[r] # <<>> /\ Drop(up'[r], 1) = Drop(up[r], 1) \o rxBytes(f)
        BY <2>1, <2>3, <3>1, DropConcat
      <3>5. QED
        BY <1>0, <2>1, <2>5, <3>1, <3>3, <3>4 DEF UpInStep
    <2>6. QED
      BY <2>4, <2>5
  <1>4. QED
    BY <1>2, <1>3

(* The handler of /connect loses the frames it has read, or none. *)
LEMMA ConnectHandlerUp ==
  ASSUME IInv, NEW s \in Sessions, ConnectHandler(s), NEW r \in Sessions
  PROVE  UpInStep(r)'
  <1>0. /\ TypeOK /\ UpInStep(r) /\ UNCHANGED <<protocol, unread, upGarbled>>
        /\ host[s] = "request" /\ host' = [host EXCEPT ![s] = "accept"]
    BY DEF IInv, UpInv, StdioInv, ConnectHandler, process, flags
  <1>1. PICK n \in 0 .. Len(up[s]) - 1 :
          /\ lost' = [lost EXCEPT ![s] = n > 0]
          /\ up' = [up EXCEPT ![s] = Drop(@, 1 + n)]
    BY DEF ConnectHandler
  <1>2. CASE r # s
    BY <1>0, <1>1, <1>2, StreamsKept DEF TypeOK
  <1>3. CASE r = s
    <2>1. /\ host'[r] = "accept" /\ up'[r] = Drop(up[r], 1 + n)
          /\ (lost'[r] <=> n > 0) /\ n \in Nat
      <3>1. Len(up[s]) \in Nat
        BY <1>0, LenProperties DEF TypeOK
      <3>2. n \in Nat
        BY <3>1
      <3>3. QED
        BY <1>0, <1>1, <1>3, <3>2 DEF TypeOK
    <2>2. CASE n > 0
      BY <2>1, <2>2 DEF UpInStep
    <2>3. CASE n = 0
      <3>1. up'[r] = Drop(up[r], 1)
        BY <2>1, <2>3
      <3>2. QED
        BY <1>0, <1>3, <2>1, <3>1 DEF UpInStep
    <2>4. QED
      BY <2>1, <2>2, <2>3
  <1>4. QED
    BY <1>2, <1>3

(* The switch reads the first of the frames that the guest has sent. *)
LEMMA rxStreamReads ==
  ASSUME IInv, NEW s \in Sessions, rxStream(s), protocol = "hyperkit", ~lost[s]
  PROVE  /\ ~wedged'
         /\ Matches(unread[s], Frame(protocol, up[s]))
         /\ InStep(Drop(up[s], End(protocol, up[s])), Drop(unread[s], 1))
  <1>1. /\ InStep(up[s], unread[s]) /\ Header("hyperkit", up[s])
        /\ up[s] \in Seq(Bytes \cup {Request}) /\ unread[s] \in Seq(GuestFrames)
    BY DEF IInv, TypeOK, UpInv, UpInStep, rxStream, Complete
  <1>2. GuestFrames \subseteq Seq(Bytes)
    BY GvForwarderAssumption
  <1>3. \A f \in GuestFrames : HeaderBytes <= Len(f) /\ Len(f) < SizeLimit("hyperkit")
    <2>1. ASSUME NEW f \in GuestFrames
          PROVE  HeaderBytes <= Len(f) /\ Len(f) < SizeLimit("hyperkit")
      <3>1. Len(f) \in Nat /\ SizeLimit("hyperkit") \in Nat
        BY <1>2, LenProperties, FramingAssumption, SMT DEF SizeLimit
      <3>2. QED
        BY <3>1, GvForwarderAssumption
    <2>2. QED
      BY <2>1
  <1>4. unread[s] # <<>> => Head(unread[s]) \in GuestFrames
    BY <1>1, HeadTailProperties
  <1>5. /\ unread[s] # <<>>
        /\ Size("hyperkit", up[s]) = Len(Head(unread[s]))
        /\ Frame("hyperkit", up[s]) = Head(unread[s])
        /\ InStep(Drop(up[s], End("hyperkit", up[s])), Drop(unread[s], 1))
    <2> DEFINE T == Bytes \cup {Request}
    <2>1. Bytes \subseteq T /\ up[s] \in Seq(T)
      BY <1>1
    <2> HIDE DEF T
    <2>2. QED
      BY <1>1, <1>2, <1>3, <1>4, <2>1, ReadInStep
  <1>6. ~(Size(protocol, up[s]) < HeaderBytes)
    <2>1. Len(Head(unread[s])) \in Nat /\ HeaderBytes <= Len(Head(unread[s]))
      BY <1>2, <1>3, <1>4, <1>5, LenProperties
    <2>2. QED
      BY <1>5, <2>1, GvForwarderAssumption
  <1>7. QED
    BY <1>5, <1>6 DEF rxStream, Matches

(* Every action preserves what is known of the stream to the host. *)
LEMMA UpStep ==
  ASSUME IInv, [Next]_vars
  PROVE  UpInv'
  <1> USE DEF flags, hostStreams, guestStreams, streams, process, goroutines, ends, dialled
  <1>0. TypeOK /\ UpInv /\ Untouched
    BY DEF IInv
  <1>1. ASSUME UNCHANGED <<protocol, host, hostStreams>>
        PROVE  UpInv'
    BY <1>1, StreamsKept DEF UpInv
  <1>2. ASSUME Dial \/ stdioDial, NEW r \in Sessions
        PROVE  UpInStep(r)'
    <2>0. UNCHANGED protocol /\ session' = session + 1 /\ UNCHANGED <<lost, unread, upGarbled>>
      BY <1>2 DEF Dial, stdioDial
    <2>1. CASE r # session'
      BY <1>0, <1>2, <2>1, StreamsKept DEF Dial, stdioDial, TypeOK
    <2>2. CASE r = session'
      <3>1. unread[r] = <<>> /\ up[r] = <<>> /\ ~lost[r] /\ ~upGarbled[r]
        <4>1. r > session
          BY <1>0, <2>0, <2>2 DEF TypeOK
        <4>2. QED
          BY <1>0, <4>1 DEF Untouched
      <3>2. CASE Dial
        <4>1. host'[r] = "request" /\ up'[r] = <<Request>>
          BY <1>0, <2>2, <3>2 DEF Dial, TypeOK
        <4>2. <<Request>> # <<>> /\ Drop(<<Request>>, 1) = <<>>
          BY DEF Drop
        <4>3. QED
          BY <2>0, <3>1, <4>1, <4>2, EmptyInStep DEF UpInStep
      <3>3. CASE stdioDial
        <4>1. host'[r] = "accept" /\ up'[r] = <<>>
          BY <1>0, <2>2, <3>1, <3>3 DEF stdioDial, TypeOK
        <4>2. QED
          BY <2>0, <3>1, <4>1, EmptyInStep DEF UpInStep
      <3>4. QED
        BY <1>2, <3>2, <3>3
    <2>3. QED
      BY <2>1, <2>2
  <1>3. CASE openTap \/ receiveError
    BY <1>1, <1>3, ClosingStreams DEF openTap, receiveError, runReturns
  <1>4. CASE hostExits
    BY <1>4, ClosingStreams DEF hostExits
  <1>5. CASE mainStart \/ DialFails \/ Sleep \/ UNCHANGED vars
    BY <1>1, <1>5 DEF mainStart, DialFails, Sleep, vars
  <1>6. ASSUME NEW s \in Sessions, Guest(s)
        PROVE  UpInv'
    <2>1. CASE rx(s)
      BY <2>1, rxUp DEF UpInv
    <2>2. QED
      BY <1>1, <1>6, <2>1 DEF Guest, Unblock, dhcp, rxFails, tx, txPanics, txFails
  <1>7. ASSUME NEW s \in Sessions, rxStream(s), NEW r \in Sessions
        PROVE  UpInStep(r)'
    <2>1. CASE r # s
      BY <1>0, <1>7, <2>1, StreamsKept DEF rxStream, TypeOK
    <2>2. CASE r = s
      <3>1. SUFFICES ASSUME protocol = "hyperkit", ~lost[r] PROVE UpInStep(r)'
        BY <1>0, <1>7, <2>2 DEF UpInStep, rxStream, TypeOK
      <3>2. ~upGarbled[r] /\ host[r] = "rx"
        BY <1>0, <1>7, <2>2, <3>1 DEF UpInv, UpInStep, rxStream
      <3>3. /\ host'[r] = "rx" /\ ~upGarbled'[r]
            /\ up'[r] = Drop(up[r], End(protocol, up[r])) /\ unread'[r] = Drop(unread[r], 1)
        BY <1>0, <1>7, <2>2, <3>1, <3>2, rxStreamReads DEF rxStream, TypeOK
      <3>4. InStep(up'[r], unread'[r])
        BY <1>7, <2>2, <3>1, <3>3, rxStreamReads
      <3>5. QED
        BY <3>3, <3>4 DEF UpInStep
    <2>3. QED
      BY <2>1, <2>2
  <1>8. ASSUME NEW s \in Sessions, Accept(s), NEW r \in Sessions
        PROVE  UpInStep(r)'
    <2>1. CASE r # s
      BY <1>0, <1>8, <2>1, StreamsKept DEF Accept, TypeOK
    <2>2. CASE r = s
      BY <1>0, <1>8, <2>2 DEF Accept, TypeOK, UpInv, UpInStep
    <2>3. QED
      BY <2>1, <2>2
  <1>9. ASSUME NEW s \in Sessions, Host(s)
        PROVE  UpInv'
    <2>1. CASE ConnectHandler(s)
      BY <2>1, ConnectHandlerUp DEF UpInv
    <2>2. CASE Accept(s) \/ rxStream(s)
      BY <1>7, <1>8, <2>2 DEF UpInv
    <2>3. CASE rxEnds(s) \/ txBufFails(s)
      BY <2>3, ClosingStreams DEF rxEnds, txBufFails
    <2>4. CASE txPkt(s)
      BY <1>1, <2>4 DEF txPkt
    <2>5. QED
      BY <1>9, <2>1, <2>2, <2>3, <2>4 DEF Host
  <1>10. CASE Dial \/ stdioDial
    BY <1>2, <1>10 DEF UpInv
  <1>11. QED
    BY <1>3, <1>4, <1>5, <1>6, <1>9, <1>10 DEF Next

(* What tx finds at the front of a stream whose frames' lengths fit. *)
LEMMA txReads ==
  ASSUME IInv, NEW s \in Sessions, Header("hyperkit", down[s]),
         protocol = "hyperkit", longest[s] < SizeLimit("hyperkit")
  PROVE  /\ Size("hyperkit", down[s]) <= longest[s]
         /\ Matches(untapped[s], Frame("hyperkit", down[s]))
         /\ InStep(Drop(down[s], End("hyperkit", down[s])), Drop(untapped[s], 1))
  <1>1. /\ InStep(down[s], untapped[s])
        /\ down[s] \in Seq(Bytes) /\ untapped[s] \in Seq(HostFrames) /\ longest[s] \in Nat
        /\ \A i \in 1 .. Len(untapped[s]) : Len(untapped[s][i]) <= longest[s]
    BY DEF IInv, TypeOK, DownInv, DownInStep
  <1>2. HostFrames \subseteq Seq(Bytes) /\ SizeLimit("hyperkit") \in Nat
    BY GvForwarderAssumption, FramingAssumption, SMT DEF SizeLimit
  <1>3. untapped[s] # <<>> =>
          /\ Len(Head(untapped[s])) <= longest[s]
          /\ Len(Head(untapped[s])) < SizeLimit("hyperkit")
    <2>1. SUFFICES ASSUME untapped[s] # <<>>
                   PROVE  /\ Len(Head(untapped[s])) <= longest[s]
                          /\ Len(Head(untapped[s])) < SizeLimit("hyperkit")
      OBVIOUS
    <2>2. Head(untapped[s]) = untapped[s][1] /\ 1 \in 1 .. Len(untapped[s])
      BY <1>1, <2>1, EmptySeq
    <2>3. Len(Head(untapped[s])) \in Nat
      BY <1>1, <1>2, <2>1, HeadTailProperties, LenProperties
    <2>4. QED
      BY <1>1, <1>2, <2>2, <2>3
  <1>4. /\ untapped[s] # <<>>
        /\ Size("hyperkit", down[s]) = Len(Head(untapped[s]))
        /\ Frame("hyperkit", down[s]) = Head(untapped[s])
        /\ InStep(Drop(down[s], End("hyperkit", down[s])), Drop(untapped[s], 1))
    BY <1>1, <1>2, <1>3, ReadInStep
  <1>5. QED
    BY <1>3, <1>4 DEF Matches

(* tx takes the first of the frames that the switch has sent. *)
LEMMA txDown ==
  ASSUME IInv, NEW s \in Sessions, tx(s), NEW r \in Sessions
  PROVE  DownInStep(r)'
  <1>0. TypeOK /\ DownInStep(r) /\ UNCHANGED <<protocol, longest>>
    BY DEF IInv, DownInv, tx, process, flags
  <1>1. CASE r # s
    BY <1>0, <1>1, StreamsKept DEF tx, TypeOK
  <1>2. CASE r = s
    <2>1. /\ down'[r] = Drop(down[r], End("hyperkit", down[r]))
          /\ untapped'[r] = Drop(untapped[r], 1)
          /\ downGarbled'[r] = (downGarbled[r] \/ ~Matches(untapped[r], Frame("hyperkit", down[r])))
      BY <1>0, <1>2 DEF tx, TypeOK
    <2>2. \A i \in 1 .. Len(untapped'[r]) : Len(untapped'[r][i]) <= longest[r]
      <3>1. /\ Len(untapped[r]) \in Nat
            /\ Len(untapped'[r]) = IF 1 <= Len(untapped[r]) THEN Len(untapped[r]) - 1 ELSE 0
            /\ \A i \in 1 .. Len(untapped[r]) - 1 : untapped'[r][i] = untapped[r][1 + i]
        <4>1. untapped[r] \in Seq(HostFrames)
          BY <1>0 DEF TypeOK
        <4>2. ASSUME NEW q \in Seq(HostFrames)
              PROVE  /\ Len(q) \in Nat
                     /\ Len(Drop(q, 1)) = IF 1 <= Len(q) THEN Len(q) - 1 ELSE 0
                     /\ \A i \in 1 .. Len(q) - 1 : Drop(q, 1)[i] = q[1 + i]
          BY DropProperties, LenProperties
        <4>3. untapped'[r] = Drop(untapped[r], 1)
          BY <2>1
        <4>4. QED
          BY <4>1, <4>2, <4>3
      <3>2. ASSUME NEW i \in 1 .. Len(untapped'[r])
            PROVE  Len(untapped'[r][i]) <= longest[r]
        <4>1. i \in 1 .. Len(untapped[r]) - 1 /\ 1 + i \in 1 .. Len(untapped[r])
          BY <3>1
        <4>2. QED
          BY <1>0, <3>1, <4>1 DEF DownInStep
      <3>3. QED
        BY <3>2
    <2>3. ASSUME protocol = "hyperkit", longest[r] < SizeLimit("hyperkit")
          PROVE  ~downGarbled'[r] /\ InStep(down'[r], untapped'[r])
      <3>1. Header("hyperkit", down[r]) /\ ~downGarbled[r]
        BY <1>0, <1>2, <2>3 DEF tx, Complete, DownInStep
      <3>2. QED
        BY <2>1, <2>3, <3>1, txReads
    <2>4. QED
      BY <1>0, <2>2, <2>3 DEF DownInStep
  <1>3. QED
    BY <1>1, <1>2

(* The switch writes behind what has not been read. *)
LEMMA txPktDown ==
  ASSUME IInv, NEW s \in Sessions, txPkt(s), NEW r \in Sessions
  PROVE  DownInStep(r)'
  <1>0. TypeOK /\ DownInStep(r) /\ UNCHANGED <<protocol, downGarbled>>
    BY DEF IInv, DownInv, txPkt, process, flags
  <1>1. PICK f \in HostFrames :
          /\ down' = [down EXCEPT ![s] = @ \o txBytes(f)]
          /\ untapped' = [untapped EXCEPT ![s] = Append(@, f)]
          /\ longest' = [longest EXCEPT ![s] = IF Len(f) > @ THEN Len(f) ELSE @]
    BY DEF txPkt
  <1>2. CASE r # s
    BY <1>0, <1>1, <1>2, StreamsKept DEF TypeOK
  <1>3. CASE r = s
    <2>1. /\ down[r] \in Seq(Bytes) /\ untapped[r] \in Seq(HostFrames) /\ longest[r] \in Nat
          /\ down'[r] = down[r] \o txBytes(f) /\ untapped'[r] = Append(untapped[r], f)
          /\ longest'[r] = IF Len(f) > longest[r] THEN Len(f) ELSE longest[r]
      BY <1>0, <1>1, <1>3 DEF TypeOK
    <2>2. HostFrames \subseteq Seq(Bytes)
      BY GvForwarderAssumption
    <2>3. Len(f) \in Nat
      BY <2>2, LenProperties
    <2>4. longest'[r] \in Nat /\ longest[r] <= longest'[r] /\ Len(f) <= longest'[r]
      BY <2>1, <2>3
    <2>5. \A i \in 1 .. Len(untapped'[r]) : Len(untapped'[r][i]) <= longest'[r]
      <3>1. /\ Len(untapped[r]) \in Nat /\ Len(untapped'[r]) = Len(untapped[r]) + 1
            /\ \A i \in 1 .. Len(untapped[r]) : untapped'[r][i] = untapped[r][i]
            /\ untapped'[r][Len(untapped[r]) + 1] = f
        BY <2>1, AppendProperties, LenProperties
      <3>2. \A i \in 1 .. Len(untapped[r]) : Len(untapped[r][i]) \in Nat
        BY <2>1, <2>2, ElementOfSeq, LenProperties
      <3>3. ASSUME NEW i \in 1 .. Len(untapped'[r])
            PROVE  Len(untapped'[r][i]) <= longest'[r]
        <4>1. CASE i = Len(untapped[r]) + 1
          BY <2>4, <3>1, <4>1
        <4>2. CASE i \in 1 .. Len(untapped[r])
          <5>1. Len(untapped'[r][i]) = Len(untapped[r][i]) /\ Len(untapped[r][i]) <= longest[r]
            BY <1>0, <3>1, <4>2 DEF DownInStep
          <5>2. QED
            BY <2>1, <2>4, <3>2, <4>2, <5>1
        <4>3. QED
          BY <3>1, <4>1, <4>2
      <3>4. QED
        BY <3>3
    <2>6. ASSUME protocol = "hyperkit", longest'[r] < SizeLimit("hyperkit")
          PROVE  ~downGarbled'[r] /\ InStep(down'[r], untapped'[r])
      <3>1. SizeLimit("hyperkit") \in Nat
        BY FramingAssumption, SMT DEF SizeLimit
      <3>2. longest[r] < SizeLimit("hyperkit")
        BY <2>1, <2>4, <2>6, <3>1
      <3>3. ~downGarbled[r] /\ InStep(down[r], untapped[r])
        BY <1>0, <2>6, <3>2 DEF DownInStep
      <3>4. txBytes(f) = rxBytes(f)
        BY <2>6 DEF txBytes, rxBytes
      <3>5. InStep(down[r] \o rxBytes(f), Append(untapped[r], f))
        BY <2>1, <2>2, <3>3, SendInStep
      <3>6. QED
        BY <1>0, <2>1, <3>3, <3>4, <3>5
    <2>7. QED
      BY <1>0, <2>5, <2>6 DEF DownInStep
  <1>4. QED
    BY <1>2, <1>3

(* Every action preserves what is known of the stream to the guest. *)
LEMMA DownStep ==
  ASSUME IInv, [Next]_vars
  PROVE  DownInv'
  <1> USE DEF flags, hostStreams, guestStreams, streams, process, goroutines, ends, dialled
  <1>1. ASSUME UNCHANGED <<protocol, guestStreams>>
        PROVE  DownInv'
    BY <1>1, StreamsKept DEF DownInv
  <1>2. CASE openTap \/ receiveError
    BY <1>1, <1>2, ClosingStreams DEF openTap, receiveError, runReturns
  <1>3. CASE \/ mainStart \/ Dial \/ stdioDial \/ DialFails \/ Sleep
             \/ hostExits \/ UNCHANGED vars
    BY <1>1, <1>3 DEF mainStart, Dial, stdioDial, DialFails, Sleep, hostExits, vars
  <1>4. ASSUME NEW s \in Sessions, Guest(s)
        PROVE  DownInv'
    <2>1. CASE tx(s)
      BY <2>1, txDown DEF DownInv
    <2>2. QED
      BY <1>1, <1>4, <2>1 DEF Guest, Unblock, dhcp, rx, rxFails, txPanics, txFails
  <1>5. ASSUME NEW s \in Sessions, Host(s)
        PROVE  DownInv'
    <2>1. CASE txPkt(s)
      BY <2>1, txPktDown DEF DownInv
    <2>2. QED
      BY <1>1, <1>5, <2>1 DEF Host, ConnectHandler, Accept, rxStream, rxEnds, txBufFails
  <1>6. QED
    BY <1>2, <1>3, <1>4, <1>5 DEF Next

-----------------------------------------------------------------------------
(* The switch and the process. *)

LEMMA StdioStep ==
  ASSUME IInv, [Next]_vars
  PROVE  StdioInv'
  <1> USE DEF flags, hostStreams, guestStreams, streams, process, goroutines, ends, dialled
  <1>0. TypeOK /\ StdioInv /\ UNCHANGED <<scheme, protocol>>
    BY DEF IInv, Next, vars, mainStart, Dial, stdioDial, DialFails, openTap, receiveError, Sleep,
       hostExits, Guest, Host, Unblock, dhcp, rx, rxFails, tx, txPanics, txFails, ConnectHandler,
       Accept, rxStream, rxEnds, txPkt, txBufFails
  <1>1. SUFFICES ASSUME scheme = "stdio", NEW r \in Sessions
                 PROVE  host'[r] # "request" /\ ~lost'[r]
    BY <1>0 DEF StdioInv
  <1>2. protocol = "hyperkit" /\ \A s \in Sessions : host[s] # "request" /\ ~lost[s]
    BY <1>0, <1>1 DEF StdioInv
  <1>3. ASSUME NEW S, hostCloses(S)
        PROVE  host'[r] # "request" /\ ~lost'[r]
    BY <1>2, <1>3 DEF hostCloses
  <1>4. ASSUME UNCHANGED <<host, lost>>
        PROVE  host'[r] # "request" /\ ~lost'[r]
    BY <1>2, <1>4
  <1>5. CASE stdioDial
    BY <1>0, <1>2, <1>5 DEF stdioDial, TypeOK
  <1>6. CASE openTap \/ receiveError \/ hostExits
    BY <1>3, <1>4, <1>6 DEF openTap, receiveError, runReturns, hostExits
  <1>7. CASE mainStart \/ Dial \/ DialFails \/ Sleep \/ UNCHANGED vars
    BY <1>1, <1>4, <1>7 DEF mainStart, Dial, DialFails, Sleep, vars
  <1>8. ASSUME NEW s \in Sessions, Guest(s)
        PROVE  host'[r] # "request" /\ ~lost'[r]
    BY <1>4, <1>8 DEF Guest, Unblock, dhcp, rx, rxFails, tx, txPanics, txFails
  <1>9. ASSUME NEW s \in Sessions, Host(s)
        PROVE  host'[r] # "request" /\ ~lost'[r]
    <2>1. CASE Accept(s) \/ rxStream(s)
      BY <1>0, <1>2, <2>1 DEF Accept, rxStream, TypeOK
    <2>2. CASE rxEnds(s) \/ txBufFails(s)
      BY <1>3, <2>2 DEF rxEnds, txBufFails
    <2>3. CASE ConnectHandler(s) \/ txPkt(s)
      BY <1>2, <1>4, <2>3 DEF ConnectHandler, txPkt
    <2>4. QED
      BY <1>9, <2>1, <2>2, <2>3 DEF Host
  <1>10. QED
    BY <1>5, <1>6, <1>7, <1>8, <1>9 DEF Next

(* No action wedges a reader that is in step. *)
LEMMA WedgedStep ==
  ASSUME IInv, [Next]_vars
  PROVE  WedgedOnlyOutOfStep'
  <1> USE DEF flags, hostStreams, guestStreams, streams, process, goroutines, ends, dialled
  <1>0. TypeOK /\ StdioInv /\ WedgedOnlyOutOfStep /\ Untouched
    BY DEF IInv
  <1>1. ASSUME UNCHANGED <<protocol, wedged, host, lost>>
        PROVE  WedgedOnlyOutOfStep'
    BY <1>0, <1>1 DEF WedgedOnlyOutOfStep
  <1>2. CASE Dial \/ stdioDial
    <2>1. UNCHANGED <<protocol, wedged, lost>>
      BY <1>2 DEF Dial, stdioDial
    <2>2. ASSUME NEW r \in Sessions, host[r] = "stuck"
          PROVE  host'[r] = "stuck"
      <3>1. r # session'
        <4>1. ~(r > session)
          BY <1>0, <2>2 DEF Untouched
        <4>2. session' = session + 1 /\ session \in Int
          BY <1>0, <1>2, GvForwarderAssumption DEF Dial, stdioDial, TypeOK
        <4>3. QED
          BY <4>1, <4>2
      <3>2. QED
        BY <1>0, <1>2, <2>2, <3>1 DEF Dial, stdioDial, TypeOK
    <2>3. QED
      BY <1>0, <2>1, <2>2 DEF WedgedOnlyOutOfStep
  <1>3. CASE openTap \/ receiveError
    <2>1. UNCHANGED <<protocol, scheme, wedged>>
      BY <1>3 DEF openTap, receiveError
    <2>2. UNCHANGED <<host, lost>> \/ hostCloses(IF scheme = "stdio" THEN {session} ELSE {})
      BY <1>3 DEF openTap, receiveError, runReturns
    <2>3. CASE scheme = "stdio"
      BY <1>0, <2>1, <2>3 DEF StdioInv, WedgedOnlyOutOfStep
    <2>4. CASE scheme # "stdio" /\ hostCloses({})
      <3>1. \A r \in Sessions : host'[r] = host[r] /\ (lost'[r] <=> lost[r])
        BY <2>4 DEF hostCloses
      <3>2. QED
        BY <1>0, <2>1, <3>1 DEF WedgedOnlyOutOfStep
    <2>5. QED
      BY <1>1, <2>1, <2>2, <2>3, <2>4
  <1>4. CASE hostExits
    BY <1>4 DEF hostExits, WedgedOnlyOutOfStep
  <1>5. CASE mainStart \/ DialFails \/ Sleep \/ UNCHANGED vars
    BY <1>1, <1>5 DEF mainStart, DialFails, Sleep, vars
  <1>6. ASSUME NEW s \in Sessions, Guest(s)
        PROVE  WedgedOnlyOutOfStep'
    BY <1>1, <1>6 DEF Guest, Unblock, dhcp, rx, rxFails, tx, txPanics, txFails
  <1>7. ASSUME NEW s \in Sessions, Host(s)
        PROVE  WedgedOnlyOutOfStep'
    <2>1. CASE ConnectHandler(s)
      <3>1. UNCHANGED <<protocol, wedged>> /\ host[s] = "request"
        BY <2>1 DEF ConnectHandler
      <3>2. \A r \in Sessions : r # s => host'[r] = host[r] /\ lost'[r] = lost[r]
        BY <1>0, <2>1 DEF ConnectHandler, TypeOK
      <3>3. QED
        BY <1>0, <3>1, <3>2 DEF WedgedOnlyOutOfStep
    <2>2. CASE rxStream(s)
      <3>1. UNCHANGED <<protocol, lost>>
        BY <2>2 DEF rxStream
      <3>2. CASE protocol = "hyperkit" /\ ~lost[s]
        BY <2>2, <3>2, rxStreamReads DEF WedgedOnlyOutOfStep
      <3>3. CASE protocol = "hyperkit" /\ lost[s] /\ wedged'
        BY <1>0, <2>2, <3>1, <3>3 DEF rxStream, TypeOK, WedgedOnlyOutOfStep
      <3>4. QED
        BY <1>0, <3>1, <3>2, <3>3 DEF TypeOK, StreamProtocols, WedgedOnlyOutOfStep
    <2>3. CASE Accept(s) \/ rxEnds(s) \/ txBufFails(s)
      BY <2>3 DEF Accept, rxEnds, txBufFails, WedgedOnlyOutOfStep
    <2>4. CASE txPkt(s)
      BY <1>1, <2>4 DEF txPkt
    <2>5. QED
      BY <1>7, <2>1, <2>2, <2>3, <2>4 DEF Host
  <1>8. QED
    BY <1>2, <1>3, <1>4, <1>5, <1>6, <1>7 DEF Next

(* No action panics unless a frame is larger than the buffer. *)
LEMMA PanicStep ==
  ASSUME IInv, [Next]_vars
  PROVE  PanicsOnlyOnOversize'
  <1> USE DEF flags, hostStreams, guestStreams, streams, process, goroutines, ends, dialled
  <1>0. TypeOK /\ MainInv /\ PanicsOnlyOnOversize
    BY DEF IInv
  <1>1. ASSUME UNCHANGED <<protocol, main, longest>>
        PROVE  PanicsOnlyOnOversize'
    BY <1>0, <1>1 DEF PanicsOnlyOnOversize
  <1>2. CASE mainStart \/ Dial \/ stdioDial \/ DialFails \/ openTap \/ receiveError \/ Sleep
    BY <1>2 DEF mainStart, Dial, stdioDial, DialFails, openTap, receiveError, runReturns, Sleep,
       PanicsOnlyOnOversize
  <1>3. CASE hostExits \/ UNCHANGED vars
    BY <1>1, <1>3 DEF hostExits, vars
  <1>4. ASSUME NEW s \in Sessions, Guest(s)
        PROVE  PanicsOnlyOnOversize'
    <2>1. CASE txPanics(s)
      <3>1. SUFFICES ASSUME protocol = "hyperkit" PROVE longest[s] > MTU + HeaderBytes
        BY <1>0, <2>1 DEF PanicsOnlyOnOversize, txPanics, TypeOK, StreamProtocols
      <3>2. /\ longest[s] \in Nat /\ MTU + HeaderBytes \in Nat /\ SizeLimit("hyperkit") \in Nat
            /\ MTU + HeaderBytes < SizeLimit("hyperkit")
        BY <1>0, GvForwarderAssumption, FramingAssumption, SMT DEF TypeOK, SizeLimit
      <3>3. Header("hyperkit", down[s]) /\ Size("hyperkit", down[s]) > MTU + HeaderBytes
        BY <2>1 DEF txPanics, txBuf
      <3>4. Size("hyperkit", down[s]) \in Nat
        BY <1>0, <3>3, SizeType, SeqMonotonic DEF TypeOK, StreamProtocols
      <3>5. CASE longest[s] < SizeLimit("hyperkit")
        <4>1. Size("hyperkit", down[s]) <= longest[s]
          BY <3>1, <3>3, <3>5, txReads
        <4>2. QED
          BY <3>2, <3>3, <3>4, <4>1
      <3>6. CASE longest[s] >= SizeLimit("hyperkit")
        BY <3>2, <3>6
      <3>7. QED
        BY <3>2, <3>5, <3>6
    <2>2. QED
      BY <1>1, <1>4, <2>1 DEF Guest, Unblock, dhcp, rx, rxFails, tx, txFails
  <1>5. ASSUME NEW s \in Sessions, Host(s)
        PROVE  PanicsOnlyOnOversize'
    <2>1. CASE txPkt(s)
      <3>1. PICK f \in HostFrames :
              longest' = [longest EXCEPT ![s] = IF Len(f) > @ THEN Len(f) ELSE @]
        BY <2>1 DEF txPkt
      <3>2. Len(f) \in Nat
        BY GvForwarderAssumption, LenProperties
      <3>3. \A r \in Sessions : longest[r] \in Nat /\ longest'[r] \in Nat /\ longest[r] <= longest'[r]
        BY <1>0, <3>1, <3>2 DEF TypeOK
      <3>4. MTU + HeaderBytes \in Nat
        BY GvForwarderAssumption
      <3>5. \A r \in Sessions : longest[r] > MTU + HeaderBytes => longest'[r] > MTU + HeaderBytes
        BY <3>3, <3>4
      <3>6. UNCHANGED <<protocol, main>>
        BY <2>1 DEF txPkt
      <3>7. QED
        BY <1>0, <3>5, <3>6 DEF PanicsOnlyOnOversize
    <2>2. QED
      BY <1>1, <1>5, <2>1 DEF Host, ConnectHandler, Accept, rxStream, rxEnds, txBufFails
  <1>6. QED
    BY <1>2, <1>3, <1>4, <1>5 DEF Next

-----------------------------------------------------------------------------
(* Theorems. *)

LEMMA NextIInv == IInv /\ [Next]_vars => IInv'
  <1> SUFFICES ASSUME IInv, [Next]_vars PROVE IInv'
    OBVIOUS
  <1>1. TypeOK'
    BY TypeStep DEF IInv
  <1>2. Untouched' /\ MainInv' /\ ReportInv' /\ StdioInv'
    BY UntouchedStep, MainStep, ReportStep, StdioStep
  <1>3. UpInv' /\ DownInv'
    BY UpStep, DownStep
  <1>4. WedgedOnlyOutOfStep' /\ PanicsOnlyOnOversize'
    BY WedgedStep, PanicStep
  <1>5. QED
    BY <1>1, <1>2, <1>3, <1>4 DEF IInv

(* The invariant holds in every reachable state. *)
LEMMA InvariantHolds == Spec => []IInv
  BY InitIInv, NextIInv, PTL DEF Spec

(* The type invariant: every variable of both processes and of the streams *)
(* between them keeps its type, in every session.                          *)
THEOREM TypeCorrect == Spec => []TypeOK
  <1>1. IInv => TypeOK
    BY DEF IInv
  <1>2. QED
    BY <1>1, InvariantHolds, PTL

(***************************************************************************)
(* Only a stream that is out of step blocks the switch: bytes were lost    *)
(* when the connection was taken over from the HTTP server, or gvproxy is  *)
(* configured for another header.                                          *)
(***************************************************************************)
THEOREM NeverWedgedInStep == Spec => []WedgedOnlyOutOfStep
  <1>1. IInv => WedgedOnlyOutOfStep
    BY DEF IInv
  <1>2. QED
    BY <1>1, InvariantHolds, PTL

(***************************************************************************)
(* gvforwarder's receive buffer is large enough for every frame that its   *)
(* MTU allows: buf[:size] panics only on a longer one.                     *)
(***************************************************************************)
THEOREM BufferSuffices == Spec => []PanicsOnlyOnOversize
  <1>1. IInv => PanicsOnlyOnOversize
    BY DEF IInv
  <1>2. QED
    BY <1>1, InvariantHolds, PTL

(***************************************************************************)
(* Frames arrive whole and in order, in both directions, for any length    *)
(* that the header can carry.                                              *)
(***************************************************************************)
THEOREM FramesIntact == Spec => []FramesArriveWhole
  <1>1. IInv => FramesArriveWhole
    <2> SUFFICES ASSUME IInv, NEW s \in Sessions
                 PROVE  /\ upGarbled[s] => protocol = "qemu" \/ lost[s]
                        /\ downGarbled[s] => protocol = "qemu" \/ longest[s] >= SizeLimit("hyperkit")
      BY DEF FramesArriveWhole
    <2>1. TypeOK /\ UpInStep(s) /\ DownInStep(s)
      BY DEF IInv, UpInv, DownInv
    <2>2. upGarbled[s] => protocol = "qemu" \/ lost[s]
      BY <2>1 DEF TypeOK, StreamProtocols, UpInStep
    <2>3. longest[s] \in Nat /\ SizeLimit("hyperkit") \in Nat
      BY <2>1, FramingAssumption, SMT DEF TypeOK, SizeLimit
    <2>4. downGarbled[s] => protocol = "qemu" \/ ~(longest[s] < SizeLimit("hyperkit"))
      BY <2>1 DEF TypeOK, StreamProtocols, DownInStep
    <2>5. QED
      BY <2>2, <2>3, <2>4
  <1>2. QED
    BY <1>1, InvariantHolds, PTL

(***************************************************************************)
(* The capacity of one of errCh is one too small for the three goroutines  *)
(* that report, and only one: a session that is over leaves at most one    *)
(* goroutine blocked for ever, and none without the DHCP client.           *)
(***************************************************************************)
THEOREM LeakBounded == Spec => []LeakBound
  <1>1. IInv => LeakBound
    <2> SUFFICES ASSUME IInv, NEW s \in Sessions
                 PROVE  /\ \A g, h \in Leaked(s) : g = h
                        /\ tapPreexists => Leaked(s) = {}
      BY DEF LeakBound
    <2>1. CASE main = "crashed"
      <3>1. Leaked(s) = {}
        BY <2>1 DEF IInv, MainInv, Leaked
      <3>2. QED
        BY <3>1
    <2>2. CASE ~(Over(s) /\ errCh[s] = 1)
      <3>1. Leaked(s) = {}
        BY <2>2 DEF Leaked
      <3>2. QED
        BY <3>1
    <2>3. CASE main # "crashed" /\ Over(s) /\ errCh[s] = 1
      <3>1. Reported(s)
        BY <2>3 DEF IInv, ReportInv
      <3>2. PICK q \in Reporters, r \in Reporters : q # r /\ go[s][q] = "done" /\ go[s][r] = "done"
        BY <2>3, <3>1 DEF Reported
      <3>3. tapPreexists => go[s]["dhcp"] = "done"
        BY <2>3, <3>1 DEF Reported
      <3>4. QED
        BY <3>2, <3>3 DEF Leaked, Reporters, Goroutines
    <2>4. QED
      BY <2>1, <2>2, <2>3
  <1>2. QED
    BY <1>1, InvariantHolds, PTL
=============================================================================
