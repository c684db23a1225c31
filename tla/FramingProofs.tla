--------------------------- MODULE FramingProofs ---------------------------
(***************************************************************************)
(* What the size headers of pkg/tap/protocols.go carry: of any length, the *)
(* part below SizeLimit.  So a length below it is read as it was written,  *)
(* by both stream protocols, and no other is.                              *)
(***************************************************************************)
EXTENDS Framing, TLAPS

-----------------------------------------------------------------------------
(* Arithmetic. *)

(* Division with remainder. *)
LEMMA DivMod ==
  ASSUME NEW n \in Nat, NEW b \in Nat, b > 0
  PROVE  /\ n \div b \in Nat
         /\ n % b \in 0 .. b - 1
         /\ n = b * (n \div b) + (n % b)
  <1>1. n % b \in 0 .. b - 1
    BY SMT
  <1>2. n = b * (n \div b) + (n % b)
    BY SMT
  <1>3. n \div b \in Nat
    BY SMT
  <1>4. QED
    BY <1>1, <1>2, <1>3

(* There is only one quotient and one remainder. *)
LEMMA DivModUnique ==
  ASSUME NEW b \in Nat, NEW q \in Nat, NEW r \in 0 .. b - 1, NEW n \in Nat, n = b * q + r
  PROVE  n \div b = q /\ n % b = r
  <1>1. PICK d \in Nat, m \in 0 .. b - 1 :
          /\ d = n \div b
          /\ m = n % b
          /\ n = b * d + m
    BY DivMod
  <1>2. d = q
    <2>1. CASE d < q
      <3>1. b * (d + 1) <= b * q
        BY <2>1, SMT
      <3>2. b * (d + 1) = b * d + b
        BY SMT
      <3>3. QED
        BY <1>1, <3>1, <3>2, SMT
    <2>2. CASE q < d
      <3>1. b * (q + 1) <= b * d
        BY <2>2, SMT
      <3>2. b * (q + 1) = b * q + b
        BY SMT
      <3>3. QED
        BY <1>1, <3>1, <3>2, SMT
    <2>3. QED
      BY <2>1, <2>2, SMT
  <1>3. QED
    BY <1>1, <1>2, SMT

(* Dividing twice. *)
LEMMA DivDiv ==
  ASSUME NEW n \in Nat, NEW b \in Nat \ {0}, NEW c \in Nat \ {0}
  PROVE  /\ n \div (b * c) = (n \div b) \div c
         /\ n % (b * c) = (n % b) + b * ((n \div b) % c)
  <1>1. PICK q \in Nat, r \in 0 .. b - 1 : q = n \div b /\ r = n % b /\ n = b * q + r
    BY DivMod
  <1>2. PICK d \in Nat, m \in 0 .. c - 1 : d = q \div c /\ m = q % c /\ q = c * d + m
    BY DivMod
  <1>3. n = (b * c) * d + (r + b * m)
    <2>1. b * (c * d + m) = b * (c * d) + b * m
      BY SMT
    <2>2. b * (c * d) = (b * c) * d
      BY SMT
    <2>3. b * m \in Nat /\ (b * c) * d \in Nat
      BY SMT
    <2>4. QED
      BY <1>1, <1>2, <2>1, <2>2, <2>3, SMT
  <1>4. r + b * m \in 0 .. b * c - 1
    <2>1. b * (m + 1) <= b * c
      BY SMT
    <2>2. b * (m + 1) = b * m + b
      BY SMT
    <2>3. b * m \in Nat /\ b * c \in Nat
      BY SMT
    <2>4. QED
      BY <2>1, <2>2, <2>3, SMT
  <1>5. b * c \in Nat
    BY SMT
  <1>6. n \div (b * c) = d /\ n % (b * c) = r + b * m
    BY <1>3, <1>4, <1>5, DivModUnique
  <1>7. QED
    BY <1>1, <1>2, <1>6
-----------------------------------------------------------------------------
(* Headers. *)

(* A header is as long as the reader of the stream expects, and consists   *)
(* of bytes.                                                               *)
LEMMA WriteType ==
  ASSUME NEW p \in StreamProtocols, NEW size \in Nat
  PROVE  Write(p, size) \in Seq(Bytes) /\ Len(Write(p, size)) = Buf(p)
  <1>0. Base \in Nat /\ Base > 0
    BY FramingAssumption
  <1>1. \A n \in Nat : n % Base \in Bytes
    BY <1>0, DivMod DEF Bytes
  <1>2. Base * Base \in Nat /\ Base * Base > 0
    BY <1>0, SMT
  <1>3. Base * Base * Base \in Nat /\ Base * Base * Base > 0
    BY <1>0, <1>2, SMT
  <1>4. /\ size \div Base \in Nat
        /\ size \div (Base * Base) \in Nat
        /\ size \div (Base * Base * Base) \in Nat
    BY <1>0, <1>2, <1>3, DivMod
  <1>5. /\ size % Base \in Bytes
        /\ (size \div Base) % Base \in Bytes
        /\ (size \div (Base * Base)) % Base \in Bytes
        /\ (size \div (Base * Base * Base)) % Base \in Bytes
    BY <1>1, <1>4
  <1>6. CASE p = "qemu"
    BY <1>5, <1>6 DEF Write, Buf
  <1>7. CASE p = "hyperkit"
    BY <1>5, <1>7 DEF Write, Buf
  <1>8. QED
    BY <1>6, <1>7 DEF StreamProtocols

(***************************************************************************)
(* What a reader gets from the header that protocols.go writes: the length *)
(* modulo SizeLimit, for the little-endian and the big-endian header.      *)
(***************************************************************************)
THEOREM HeaderCarries ==
  ASSUME NEW p \in StreamProtocols, NEW size \in Nat
  PROVE  Read(p, Write(p, size)) = size % SizeLimit(p)
  <1>0. Base \in Nat \ {0}
    BY FramingAssumption
  <1> DEFINE B2 == Base * Base
             B3 == Base * Base * Base
             B4 == Base * Base * Base * Base
  <1>1. B2 \in Nat \ {0}
    BY <1>0, SMT
  <1>2. B3 \in Nat \ {0}
    BY <1>0, <1>1, SMT
  <1>3. size % B2 = (size % Base) + Base * ((size \div Base) % Base)
    BY <1>0, DivDiv
  <1>4. size % B3 = (size % B2) + B2 * ((size \div B2) % Base)
    BY <1>0, <1>1, DivDiv
  <1>5. size % B4 = (size % B3) + B3 * ((size \div B3) % Base)
    BY <1>0, <1>2, DivDiv
  <1>6. CASE p = "hyperkit"
    BY <1>3, <1>6 DEF Read, Write, SizeLimit
  <1>7. CASE p = "qemu"
    <2>1. PICK a \in Nat, b \in Nat, c \in Nat, d \in Nat :
            /\ a = size % Base
            /\ b = (size \div Base) % Base
            /\ c = (size \div B2) % Base
            /\ d = (size \div B3) % Base
      BY <1>0, <1>1, <1>2, DivMod, SMT
    <2>2. Read(p, Write(p, size)) = Base * (Base * (Base * d + c) + b) + a
      BY <1>7, <2>1 DEF Read, Write
    <2>3. Base * (Base * (Base * d + c) + b) = B3 * d + (B2 * c + Base * b)
      <3>1. Base * (Base * d + c) = B2 * d + Base * c
        BY <1>0, SMT
      <3>2. Base * (B2 * d + Base * c + b) = B3 * d + (B2 * c + Base * b)
        BY <1>0, SMT
      <3>3. QED
        BY <3>1, <3>2
    <2>4. size % B4 = a + Base * b + B2 * c + B3 * d
      BY <1>3, <1>4, <1>5, <2>1
    <2>5. Base * b \in Nat /\ B2 * c \in Nat /\ B3 * d \in Nat
      BY <1>0, <1>1, <1>2, SMT
    <2>6. QED
      BY <1>7, <2>2, <2>3, <2>4, <2>5, SMT DEF SizeLimit
  <1>8. QED
    BY <1>6, <1>7 DEF StreamProtocols

(***************************************************************************)
(* A frame's length survives the header if, and only if, it is below       *)
(* SizeLimit: 65536 bytes with the two bytes of hyperkit.                  *)
(***************************************************************************)
THEOREM RoundTrip ==
  ASSUME NEW p \in StreamProtocols, NEW size \in Nat
  PROVE  Read(p, Write(p, size)) = size <=> size < SizeLimit(p)
  <1>1. SizeLimit(p) \in Nat \ {0}
    BY FramingAssumption, SMT DEF SizeLimit
  <1>2. size % SizeLimit(p) \in 0 .. SizeLimit(p) - 1
    BY <1>1, DivMod
  <1>3. ASSUME size < SizeLimit(p) PROVE size % SizeLimit(p) = size
    BY <1>1, <1>3, DivModUnique, SMT
  <1>4. QED
    BY <1>1, <1>2, <1>3, HeaderCarries, SMT
=============================================================================
