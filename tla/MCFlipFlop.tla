------------------------------ MODULE MCFlipFlop ------------------------------
(***************************************************************************)
(* One flip-flop in a feedback loop with a primary input, and a primary    *)
(* output:                                                                 *)
(*                                                                         *)
(*   clk(0) --e0--> ck(2) --e1 launch---> q(3) --e3--> o(4) --e5--> d(5)   *)
(*                    \------e2 capture---------------------------> d(5)   *)
(*   in(1) ------------------------e4----------------> o(4) --e6--> out(6) *)
(*                                                                         *)
(* Arrivals reconverge at o, so that the dominant edge can change; d has   *)
(* its capture edge before its data edge; the deadlines of out and d are   *)
(* close, so that either can dominate the required time at o.              *)
(***************************************************************************)
EXTENDS TimingPaths, Levelization

Graph ==
  [nodes |-> 0 .. 6,
   edges |-> 0 .. 6,
   node_type |-> [n \in 0 .. 6 |-> CASE n \in {0, 1, 3} -> "SOURCE" [] n = 2 -> "CPIN"
                                     [] n = 4 -> "OPIN" [] OTHER -> "SINK"],
   edge_type |-> [e \in 0 .. 6 |-> CASE e = 1 -> "PRIMITIVE_CLOCK_LAUNCH"
                                     [] e = 2 -> "PRIMITIVE_CLOCK_CAPTURE"
                                     [] e \in {3, 4} -> "PRIMITIVE_COMBINATIONAL"
                                     [] OTHER -> "INTERCONNECT"],
   src   |-> [e \in 0 .. 6 |-> <<0, 2, 2, 3, 1, 4, 4>>[e + 1]],
   sink  |-> [e \in 0 .. 6 |-> <<2, 3, 5, 4, 4, 5, 6>>[e + 1]],
   edge_order |-> <<0, 1, 2, 3, 4, 5, 6>>,
   disabled |-> {},
   level |-> [n \in 0 .. 6 |-> <<0, 0, 1, 2, 3, 4, 4>>[n + 1]],
   last_level |-> 4]

Map(keys, value) == [k \in keys |-> value]
Empty == Map({}, 0)

Constraints ==
  [domains |-> <<0>>,
   source |-> [d \in {0} |-> 0],
   setup |-> Map({<<0, 0, NoNode>>}, 10),
   hold  |-> Map({<<0, 0, NoNode>>}, 0),
   setup_uncertainty |-> Map({<<0, 0>>}, 1),
   hold_uncertainty  |-> Empty,
   input  |-> [MAX |-> <<[node |-> 1, domain |-> 0, time |-> 2]>>,
               MIN |-> <<[node |-> 1, domain |-> 0, time |-> 1]>>],
   output |-> [MAX |-> <<[node |-> 6, domain |-> 0, time |-> 1]>>,
               MIN |-> <<[node |-> 6, domain |-> 0, time |-> 0]>>],
   latency |-> [EARLY |-> Empty, LATE |-> Empty],
   const_gens |-> {}]

Delay(d) == [max |-> d, min |-> d, setup |-> d, hold |-> d]

BaseDelay == [e \in 0 .. 6 |-> Delay(IF e = 4 THEN 2 ELSE 1)]

(***************************************************************************)
(* The edges that change, each between two delays: the clock net, which    *)
(* moves the launch and the capture, and the edge that decides the arrival *)
(* at o.                                                                   *)
(***************************************************************************)
VaryingDelays == [e \in 0 .. 6 |-> IF e \in {0, 3} THEN {Delay(1), Delay(3)} ELSE {BaseDelay[e]}]

Both == {"setup", "hold"}

(***************************************************************************)
(* The levels above are those of the levelization, and every edge leads to *)
(* a later one.                                                            *)
(***************************************************************************)
ASSUME TG = Levelized(TG) /\ LevelsIncrease
==============================================================================
