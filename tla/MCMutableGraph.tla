---------------------------- MODULE MCMutableGraph ----------------------------
(***************************************************************************)
(* An output pin o and an input pin i in a loop, and an output k:          *)
(*                                                                         *)
(*   o --net--> i,   i --back--> o,   i --arc--> k                         *)
(***************************************************************************)
EXTENDS MutableTimingGraph

Pins == [o |-> "OPIN", i |-> "IPIN", k |-> "SINK"]

Arcs == [net  |-> [type |-> "INTERCONNECT", src |-> "o", sink |-> "i"],
         back |-> [type |-> "PRIMITIVE_COMBINATIONAL", src |-> "i", sink |-> "o"],
         arc  |-> [type |-> "PRIMITIVE_COMBINATIONAL", src |-> "i", sink |-> "k"]]

AllPins == DOMAIN Pins
AllArcs == DOMAIN Arcs
==============================================================================
