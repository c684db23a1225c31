------------------------------ MODULE Framing ------------------------------
(***************************************************************************)
(* The size headers of the stream protocols, pkg/tap/protocols.go: the     *)
(* length of a frame in a fixed number of bytes, little-endian (hyperkit)  *)
(* or big-endian (qemu).  A length that does not fit loses its upper part. *)
(* A byte is a number below Base, 256 in the code.                         *)
(***************************************************************************)
EXTENDS Integers, Sequences

CONSTANT Base

ASSUME FramingAssumption == Base \in Nat \ {0, 1}

Bytes == 0 .. Base - 1

StreamProtocols == {"hyperkit", "qemu"}

(* The number of bytes of a header. *)
Buf(p) == IF p = "qemu" THEN 4 ELSE 2

Write(p, size) ==
  IF p = "qemu"
  THEN <<(size \div (Base * Base * Base)) % Base, (size \div (Base * Base)) % Base,
         (size \div Base) % Base, size % Base>>
  ELSE <<size % Base, (size \div Base) % Base>>

Read(p, buf) ==
  IF p = "qemu"
  THEN Base * (Base * (Base * buf[1] + buf[2]) + buf[3]) + buf[4]
  ELSE buf[1] + Base * buf[2]

(* The first length that a header cannot carry. *)
SizeLimit(p) ==
  IF p = "qemu" THEN Base * Base * Base * Base ELSE Base * Base
=============================================================================
