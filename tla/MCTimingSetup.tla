---------------------------- MODULE MCTimingSetup ----------------------------
(***************************************************************************)
(* A flip-flop d, its clock, a data input and a tied-off data input, and   *)
(* an output; the ids in the file follow none of the orders the library    *)
(* likes:                                                                  *)
(*                                                                         *)
(*   clk --net--> ck --capture--> d,   in --data--> d,   gen --tie--> d,   *)
(*   in --pass--> out                                                      *)
(***************************************************************************)
EXTENDS TimingSetup, FullAnalysis

Pins == [d |-> "SINK", gen |-> "OPIN", out |-> "SINK", ck |-> "CPIN", in |-> "SOURCE",
         clk |-> "SOURCE"]

Arc(type, src, sink) == [type |-> type, src |-> src, sink |-> sink]

Arcs == [pass    |-> Arc("INTERCONNECT", "in", "out"),
         tie     |-> Arc("INTERCONNECT", "gen", "d"),
         capture |-> Arc("PRIMITIVE_CLOCK_CAPTURE", "ck", "d"),
         data    |-> Arc("INTERCONNECT", "in", "d"),
         net     |-> Arc("INTERCONNECT", "clk", "ck")]

AllPins == DOMAIN Pins
AllArcs == DOMAIN Arcs

PinOrder == <<"d", "gen", "out", "ck", "in", "clk">>
ArcOrder == <<"pass", "tie", "capture", "data", "net">>

Id(pin) == Positions(PinOrder)[pin]

FileConstraints ==
  << Statement("CLOCK", NoNode, 0, NoDomain, "a"),
     Statement("CLOCK", NoNode, 1, NoDomain, "b"),
     Statement("CLOCK_SOURCE", Id("clk"), 0, NoDomain, NaN),
     Statement("CONSTANT_GENERATOR", Id("gen"), NoDomain, NoDomain, NaN),
     Statement("MAX_INPUT_CONSTRAINT", Id("in"), 0, NoDomain, 2),
     Statement("MIN_INPUT_CONSTRAINT", Id("in"), 0, NoDomain, 1),
     Statement("MAX_OUTPUT_CONSTRAINT", Id("out"), 1, NoDomain, 3),
     Statement("MIN_OUTPUT_CONSTRAINT", Id("out"), 1, NoDomain, 1),
     Statement("SETUP_CONSTRAINT", NoNode, 0, 0, 20),
     Statement("HOLD_CONSTRAINT", NoNode, 0, 0, 0),
     Statement("SETUP_UNCERTAINTY", NoNode, 0, 0, 1),
     Statement("HOLD_UNCERTAINTY", NoNode, 0, 0, 2),
     Statement("EARLY_SOURCE_LATENCY", NoNode, 0, NoDomain, 1),
     Statement("LATE_SOURCE_LATENCY", NoNode, 0, NoDomain, 2) >>

EchoedFile ==
  [graph |-> [nodes |-> [i \in DOMAIN PinOrder |-> Pins[PinOrder[i]]],
              edges |-> [i \in DOMAIN ArcOrder |->
                           [type |-> Arcs[ArcOrder[i]].type, src |-> Id(Arcs[ArcOrder[i]].src),
                            sink |-> Id(Arcs[ArcOrder[i]].sink), disabled |-> FALSE]]],
   constraints |-> FileConstraints,
   delays |-> [e \in 0 .. 4 |-> IF e = 2 THEN Delay(NaN, NaN, 1, 3)
                                ELSE Delay(<<1000007, 7, 0, 5, 2>>[e + 1], <<8, 6, 0, 4, 1>>[e + 1], NaN, NaN)],
   results |-> {}]

(***************************************************************************)
(* A third clock; a setup but no hold constraint between the other two, so *)
(* that the output has a hold required time that is NaN; new values; and a *)
(* clock source that is no SOURCE.                                         *)
(***************************************************************************)
SomeSettings ==
  { Statement("CLOCK", "none", 2, NoDomain, "c"),
    Statement("CLOCK_SOURCE", "gen", 1, NoDomain, NaN),
    Statement("SETUP_CONSTRAINT", "none", 0, 1, 25),
    Statement("MAX_INPUT_CONSTRAINT", "in", 0, NoDomain, 5),
    Statement("MIN_OUTPUT_CONSTRAINT", "out", 1, NoDomain, 2),
    Statement("SETUP_CONSTRAINT", "none", 0, 0, 1234565),
    Statement("HOLD_UNCERTAINTY", "none", 0, 0, 1) }

ASSUME SomeSettingsFollow == CanFollow(SomeSettings)

NodeSettings == {Statement("SETUP_CONSTRAINT", "d", 0, 0, 30)}
==============================================================================
