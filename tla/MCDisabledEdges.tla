---------------------------- MODULE MCDisabledEdges ---------------------------
(***************************************************************************)
(* A combinational arc disabled for timing (~~>) between two nodes that    *)
(* then have the same level:                                               *)
(*                                                                         *)
(*   in(0) -e0-> i0(2) -e1-> o1(3) -e2-> out(4)                            *)
(*   in2(1) -e3-> o3(5) -e4-> i3(6) ~~e5~~> o1(3)                          *)
(***************************************************************************)
EXTENDS IncrTimingAnalysis, Levelization

FalsePath == Levelized(
  [nodes |-> 0 .. 6,
   edges |-> 0 .. 5,
   node_type |-> [n \in 0 .. 6 |-> <<"SOURCE", "SOURCE", "IPIN", "OPIN", "SINK", "OPIN", "IPIN">>[n + 1]],
   edge_type |-> [e \in 0 .. 5 |-> IF e \in {1, 3, 5} THEN "PRIMITIVE_COMBINATIONAL"
                                                     ELSE "INTERCONNECT"],
   src   |-> [e \in 0 .. 5 |-> <<0, 2, 3, 1, 5, 6>>[e + 1]],
   sink  |-> [e \in 0 .. 5 |-> <<2, 3, 4, 5, 6, 3>>[e + 1]],
   edge_order |-> <<0, 1, 2, 3, 4, 5>>,
   disabled |-> {5},
   level |-> << >>,
   last_level |-> 0])

Map(keys, value) == [k \in keys |-> value]
Empty == Map({}, 0)

(***************************************************************************)
(* A virtual clock constrains the inputs and the output.                   *)
(***************************************************************************)
IO(nodes, t) == [i \in DOMAIN nodes |-> [node |-> nodes[i], domain |-> 0, time |-> t]]

Constraints ==
  [domains |-> <<0>>,
   source |-> [d \in {0} |-> NoNode],
   setup |-> Map({<<0, 0, NoNode>>}, 10),
   hold  |-> Map({<<0, 0, NoNode>>}, 0),
   setup_uncertainty |-> Empty,
   hold_uncertainty  |-> Empty,
   input  |-> [MAX |-> IO(<<0, 1>>, 0), MIN |-> IO(<<0, 1>>, 0)],
   output |-> [MAX |-> IO(<<4>>, 1), MIN |-> IO(<<4>>, 1)],
   latency |-> [EARLY |-> Empty, LATE |-> Empty],
   const_gens |-> {}]

Delay(d) == [max |-> d, min |-> d, setup |-> d, hold |-> d]

BaseDelay == [e \in 0 .. 5 |-> Delay(1)]

(***************************************************************************)
(* The delay of the edge that leads to the disabled arc changes.           *)
(***************************************************************************)
VaryingDelays == [e \in 0 .. 5 |-> IF e = 4 THEN {Delay(1), Delay(3)} ELSE {Delay(1)}]

SetupOnly == {"setup"}
==============================================================================
