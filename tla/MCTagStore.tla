------------------------------ MODULE MCTagStore ------------------------------
(***************************************************************************)
(* A node that two launch domains or a constant generator reach, and its   *)
(* required times for two capture clocks.                                  *)
(***************************************************************************)
EXTENDS TagStore

ClockTags == {TimingTag(1, 0, NoDomain, 7, "CLOCK_LAUNCH")}

Arrivals ==
  {TimingTag(1, 0, NoDomain, 7, "DATA_ARRIVAL"),
   TimingTag(1, 1, NoDomain, 6, "DATA_ARRIVAL"),
   TimingTag(NegInf, NoDomain, NoDomain, NoNode, "DATA_ARRIVAL")}

Required == {TimingTag(4, 0, 1, NoNode, "DATA_REQUIRED")}

SomeNodeTags  == ClockTags \cup Arrivals \cup Required
SomeSlackTags == {TimingTag(time, launch, 0, 7, "SLACK") : time \in {0, 1}, launch \in {0, 1}}

TwoCaptures == <<0, 1>>
==============================================================================
