------------------------------ MODULE MCParallel ------------------------------
(***************************************************************************)
(* A clock, a flip-flop q with two capturing SINKs, two gates on one level *)
(* with the same fan-in, an unconstrained input and two unconstrained      *)
(* outputs:                                                                *)
(*                                                                         *)
(*   clk(0) -e0-> ck(2) -e1 launch-> q(3) -e4-> o(4) -e8-> d(6)            *)
(*                 |  |                 \-e5-> p(5) -e9-> d2(7)            *)
(*                 |  \-e2 capture------------------------> d(6)           *)
(*                 \~~~~e3 capture, disabled~~~~~~~~~~~~~~> d2(7)          *)
(*   in(1) -e6-> o(4), in(1) -e7-> p(5)          o(4) -e10-> out(8)        *)
(*                                             p(5) -e11-> out2(9)         *)
(***************************************************************************)
EXTENDS ParallelTimingAnalysis, Levelization

Graph ==
  [nodes |-> 0 .. 9,
   edges |-> 0 .. 11,
   node_type |-> [n \in 0 .. 9 |-> CASE n \in {0, 1, 3} -> "SOURCE" [] n = 2 -> "CPIN"
                                     [] n \in {4, 5} -> "OPIN" [] OTHER -> "SINK"],
   edge_type |-> [e \in 0 .. 11 |-> CASE e = 1 -> "PRIMITIVE_CLOCK_LAUNCH"
                                      [] e \in {2, 3} -> "PRIMITIVE_CLOCK_CAPTURE"
                                      [] e \in 4 .. 7 -> "PRIMITIVE_COMBINATIONAL"
                                      [] OTHER -> "INTERCONNECT"],
   src   |-> [e \in 0 .. 11 |-> <<0, 2, 2, 2, 3, 3, 1, 1, 4, 5, 4, 5>>[e + 1]],
   sink  |-> [e \in 0 .. 11 |-> <<2, 3, 6, 7, 4, 5, 4, 5, 6, 7, 8, 9>>[e + 1]],
   edge_order |-> <<0, 1, 2, 3, 4, 5, 6, 7, 8, 9, 10, 11>>,
   disabled |-> {3},
   level |-> [n \in 0 .. 9 |-> <<0, 0, 1, 2, 3, 3, 4, 4, 4, 4>>[n + 1]],
   last_level |-> 4]

Empty == [k \in {} |-> 0]

Constraints ==
  [domains |-> <<0>>,
   source |-> [d \in {0} |-> 0],
   setup |-> [k \in {<<0, 0, NoNode>>} |-> 10],
   hold  |-> [k \in {<<0, 0, NoNode>>} |-> 0],
   setup_uncertainty |-> Empty,
   hold_uncertainty  |-> Empty,
   input  |-> [MAX |-> <<>>, MIN |-> <<>>],
   output |-> [MAX |-> <<>>, MIN |-> <<>>],
   latency |-> [EARLY |-> Empty, LATE |-> Empty],
   const_gens |-> {}]

Delay(d) == [max |-> d, min |-> d, setup |-> d, hold |-> d]

TwoDelays == {[e \in 0 .. 11 |-> Delay(1)],
              [e \in 0 .. 11 |-> Delay(IF e \in {0, 4, 9} THEN 3 ELSE 1)]}

Symmetry == Permutations(Workers)

ASSUME TG = Levelized(TG)
==============================================================================
