------------------------------ MODULE MCTwoClocks -----------------------------
(***************************************************************************)
(* Two clocks, a flip-flop of each, a constant generator, a primary input  *)
(* and a primary output:                                                   *)
(*                                                                         *)
(*   clkA(0) --e0--> ckA(3) --e2 launch--> qA(5) --e6--> o(8) --e8--> d(9) *)
(*   clkB(1) --e1--> ckB(4) --e3 launch--> qB(6) --e7--> o(8)              *)
(*                          \~~e9 capture~~~~~~~~~~~~~~~~~~~~~~~~> d(9)    *)
(*   tie(2)  --e4--> i(7) ------------------------e5---> o(8)              *)
(*                                        qA(5) ~~e10~~~~~~~~~~~~> d(9)    *)
(*   in(10)  ------------------------------------e11---> o(8) --e12-> out(11) *)
(*                    i(7) <~~~~~~~~~~~~~~~~~~~~~~~~e13~ o(8)              *)
(*                                                                         *)
(* o gets the constant generator's tag first, then the arrivals of two     *)
(* launch domains, one of them from the flip-flop and from the input.  d   *)
(* has a setup constraint of its own from domain A.  Disabled edges (~~>): *)
(* the capture edge of d, which still decides its required times, a false  *)
(* path, and the arc e13 back to an earlier level that breaks a loop.      *)
(***************************************************************************)
EXTENDS TimingPaths, Levelization

Graph ==
  [nodes |-> 0 .. 11,
   edges |-> 0 .. 13,
   node_type |-> [n \in 0 .. 11 |-> CASE n \in {0, 1, 5, 6, 10} -> "SOURCE" [] n \in {3, 4} -> "CPIN"
                                      [] n \in {2, 8} -> "OPIN" [] n = 7 -> "IPIN"
                                      [] OTHER -> "SINK"],
   edge_type |-> [e \in 0 .. 13 |-> CASE e \in {2, 3} -> "PRIMITIVE_CLOCK_LAUNCH"
                                      [] e = 9 -> "PRIMITIVE_CLOCK_CAPTURE"
                                      [] e \in {5, 6, 7, 11} -> "PRIMITIVE_COMBINATIONAL"
                                      [] OTHER -> "INTERCONNECT"],
   src   |-> [e \in 0 .. 13 |-> <<0, 1, 3, 4, 2, 7, 5, 6, 8, 4, 5, 10, 8, 8>>[e + 1]],
   sink  |-> [e \in 0 .. 13 |-> <<3, 4, 5, 6, 7, 8, 8, 8, 9, 9, 9, 8, 11, 7>>[e + 1]],
   edge_order |-> <<0, 1, 2, 3, 4, 5, 6, 7, 8, 9, 10, 11, 12, 13>>,
   disabled |-> {9, 10, 13},
   level |-> [n \in 0 .. 11 |-> <<0, 0, 0, 1, 1, 2, 2, 1, 3, 4, 0, 4>>[n + 1]],
   last_level |-> 4]

Map(keys, value) == [k \in keys |-> value]

IO(node, domain, time) == <<[node |-> node, domain |-> domain, time |-> time]>>

Constraints ==
  [domains |-> <<0, 1>>,
   source |-> [d \in {0, 1} |-> d],
   setup |-> [k \in {<<0, 0, NoNode>>, <<0, 1, NoNode>>, <<1, 1, NoNode>>, <<0, 1, 9>>} |->
                CASE k = <<0, 1, 9>> -> 6 [] k = <<0, 1, NoNode>> -> 8 [] OTHER -> 10],
   hold  |-> Map({<<0, 0, NoNode>>, <<0, 1, NoNode>>, <<1, 1, NoNode>>}, 0),
   setup_uncertainty |-> Map({<<0, 0>>}, 1),
   hold_uncertainty  |-> Map({<<1, 1>>}, 1),
   input  |-> [MAX |-> IO(10, 0, 4), MIN |-> IO(10, 0, 3)],
   output |-> [MAX |-> IO(11, 0, 1), MIN |-> IO(11, 0, 0)],
   latency |-> [EARLY |-> Map({1}, 1), LATE |-> Map({1}, 2)],
   const_gens |-> {2}]

(***************************************************************************)
(* The same with the output in domain B, whose clock has a latency.        *)
(***************************************************************************)
LatentOutput == [Constraints EXCEPT !.output = [MAX |-> IO(11, 1, 1), MIN |-> IO(11, 1, 0)]]

Delay(d) == [max |-> d, min |-> d, setup |-> d, hold |-> d]

BaseDelay == [e \in 0 .. 13 |-> Delay(1)]

(***************************************************************************)
(* The edges that change: the clock net of B, which moves both the launch  *)
(* of qB and the capture of d, the data edge of A, and the setup and hold  *)
(* time of d.  OneVaryingDelay keeps the second.                           *)
(***************************************************************************)
VaryingDelays == [e \in 0 .. 13 |-> IF e \in {1, 6, 9} THEN {Delay(1), Delay(4)} ELSE {Delay(1)}]

OneVaryingDelay == [e \in 0 .. 13 |-> IF e = 6 THEN VaryingDelays[e] ELSE {Delay(1)}]

SetupOnly == {"setup"}
Both      == {"setup", "hold"}

(***************************************************************************)
(* The levels above are those of the levelization.                         *)
(***************************************************************************)
ASSUME TG = Levelized(TG)
==============================================================================
