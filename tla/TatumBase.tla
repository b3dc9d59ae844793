------------------------------ MODULE TatumBase ------------------------------
(***************************************************************************)
(* Ids, types and times.  An id is an integer; -1 is the INVALID() id of   *)
(* each kind.                                                              *)
(*                                                                         *)
(* The scalar Time of libtatum: an IEEE float that may be +inf, -inf or    *)
(* NaN.  Finite times are integers; the three special values are integers  *)
(* no finite time of a bounded model reaches, so that times stay           *)
(* comparable.  NaN ("no such constraint") is the invalid time: it         *)
(* compares false with everything and absorbs every sum.                   *)
(***************************************************************************)
EXTENDS Integers

NoNode   == -1   \* NodeId::INVALID()
NoEdge   == -1   \* EdgeId::INVALID()
NoDomain == -1   \* DomainId::INVALID()

NodeTypes == {"SOURCE", "SINK", "IPIN", "OPIN", "CPIN"}
EdgeTypes == {"PRIMITIVE_COMBINATIONAL", "PRIMITIVE_CLOCK_LAUNCH",
              "PRIMITIVE_CLOCK_CAPTURE", "INTERCONNECT"}

PosInf == 1000000000
NegInf == -1000000000
NaN    == 2000000000

IsValid(t) == t # NaN
IsInf(t)   == t \in {PosInf, NegInf}

Plus(a, b) ==
  IF NaN \in {a, b} \/ {a, b} = {PosInf, NegInf} THEN NaN
  ELSE IF PosInf \in {a, b} THEN PosInf
  ELSE IF NegInf \in {a, b} THEN NegInf
  ELSE a + b

Negate(a)   == IF a = NaN THEN NaN ELSE -a
Minus(a, b) == Plus(a, Negate(b))

Later(a, b)   == IsValid(a) /\ IsValid(b) /\ a > b
Earlier(a, b) == Later(b, a)
==============================================================================
