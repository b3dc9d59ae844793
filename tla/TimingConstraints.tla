-------------------------- MODULE TimingConstraints --------------------------
(***************************************************************************)
(* The queries the analysis makes of the timing constraints.  TC is the    *)
(* record of constraints set before the analysis; an entry that was never  *)
(* set is absent from the domain of its map, as in the std::maps of the    *)
(* code.                                                                   *)
(***************************************************************************)
EXTENDS TatumBase, Sequences, SequencesExt

CONSTANT TC

clock_domains == TC.domains   \* the domain ids in creation order

(***************************************************************************)
(* The first domain, in creation order, defined at node n.                 *)
(***************************************************************************)
find_node_source_clock_domain(n) ==
  LET s == SelectSeq(clock_domains, LAMBDA d : TC.source[d] = n)
  IN  IF s = <<>> THEN NoDomain ELSE Head(s)

node_is_clock_source(n)       == find_node_source_clock_domain(n) # NoDomain
node_is_constant_generator(n) == n \in TC.const_gens

(***************************************************************************)
(* I/O constraints are multimaps from nodes to (domain, time) entries, one *)
(* per delay type ("MAX" or "MIN").                                        *)
(***************************************************************************)
input_constraints(n, dt)  == SelectSeq(TC.input[dt],  LAMBDA c : c.node = n)
output_constraints(n, dt) == SelectSeq(TC.output[dt], LAMBDA c : c.node = n)

find_io_constraint(entries, domain) ==
  LET s == SelectSeq(entries, LAMBDA c : c.domain = domain)
  IN  IF s = <<>> THEN NaN ELSE Head(s).time

input_constraint(n, d, dt)  == find_io_constraint(input_constraints(n, dt), d)
output_constraint(n, d, dt) == find_io_constraint(output_constraints(n, dt), d)

(***************************************************************************)
(* The clock domain of a node: as a clock source, then from its input,     *)
(* then from its output constraints, MAX before MIN.                       *)
(***************************************************************************)
node_clock_domain(n) ==
  LET io == input_constraints(n, "MAX") \o input_constraints(n, "MIN")
            \o output_constraints(n, "MAX") \o output_constraints(n, "MIN")
  IN  CASE node_is_clock_source(n) -> find_node_source_clock_domain(n)
        [] ~node_is_clock_source(n) /\ io # <<>> -> Head(io).domain
        [] OTHER -> NoDomain

(***************************************************************************)
(* Clock constraints: the one of the capture node, else the one of the     *)
(* domain pair, else none.                                                 *)
(***************************************************************************)
PairConstraint(map, launch, capture, n) ==
  CASE <<launch, capture, n>> \in DOMAIN map -> map[<<launch, capture, n>>]
    [] /\ <<launch, capture, n>> \notin DOMAIN map
       /\ <<launch, capture, NoNode>> \in DOMAIN map
         -> map[<<launch, capture, NoNode>>]
    [] OTHER -> NaN

setup_constraint(l, c, n) == PairConstraint(TC.setup, l, c, n)
hold_constraint(l, c, n)  == PairConstraint(TC.hold, l, c, n)

should_analyze(l, c, n) ==
  \E map \in {TC.setup, TC.hold} :
     {<<l, c, n>>, <<l, c, NoNode>>} \cap DOMAIN map # {}

DefaultZero(map, key) == IF key \in DOMAIN map THEN map[key] ELSE 0

setup_clock_uncertainty(l, c) == DefaultZero(TC.setup_uncertainty, <<l, c>>)
hold_clock_uncertainty(l, c)  == DefaultZero(TC.hold_uncertainty, <<l, c>>)
source_latency(d, arrival)    == DefaultZero(TC.latency[arrival], d)
==============================================================================
