----------------------- MODULE MutableTimingConstraints -----------------------
(***************************************************************************)
(* TimingConstraints as a client fills it in and renumbers it: every       *)
(* operator returns the record of constraints c as the member function of  *)
(* that name leaves it.  TimingConstraints has the queries.                *)
(***************************************************************************)
EXTENDS TatumBase, Sequences, SequencesExt

DelayTypes   == {"MAX", "MIN"}
ArrivalKinds == {"EARLY", "LATE"}

NoConstraints ==
  [names |-> <<>>, domains |-> <<>>, source |-> << >>, const_gens |-> {},
   input  |-> [dt \in DelayTypes |-> <<>>],
   output |-> [dt \in DelayTypes |-> <<>>],
   setup |-> << >>, hold |-> << >>,
   setup_uncertainty |-> << >>, hold_uncertainty |-> << >>,
   latency |-> [a \in ArrivalKinds |-> << >>]]

Put(map, key, value) ==
  [k \in DOMAIN map \cup {key} |-> IF k = key THEN value ELSE map[k]]

(***************************************************************************)
(* Clock domains: an id is the position of the domain's name.              *)
(***************************************************************************)
find_clock_domain(c, name) ==
  LET i == SelectInSeq(c.names, LAMBDA x : x = name)
  IN  IF i = 0 THEN NoDomain ELSE i - 1

create_clock_domain(c, name) ==
  LET id == Len(c.domains)
  IN  IF find_clock_domain(c, name) # NoDomain THEN c
      ELSE [c EXCEPT !.names   = Append(@, name),
                     !.domains = Append(@, id),
                     !.source  = Put(@, id, NoNode)]

set_clock_domain_source(c, node, d) == [c EXCEPT !.source = Put(@, d, node)]

set_constant_generator(c, node, is) ==
  [c EXCEPT !.const_gens = IF is THEN @ \cup {node} ELSE @ \ {node}]

(***************************************************************************)
(* The entry of a node and domain is updated, else one is added.           *)
(***************************************************************************)
SetIoConstraint(entries, node, d, time) ==
  LET i == SelectInSeq(entries, LAMBDA x : x.node = node /\ x.domain = d)
  IN  IF i = 0 THEN Append(entries, [node |-> node, domain |-> d, time |-> time])
      ELSE [entries EXCEPT ![i].time = time]

set_input_constraint(c, node, d, dt, time) ==
  [c EXCEPT !.input[dt] = SetIoConstraint(@, node, d, time)]

set_output_constraint(c, node, d, dt, time) ==
  [c EXCEPT !.output[dt] = SetIoConstraint(@, node, d, time)]

set_setup_constraint(c, l, d, node, time) == [c EXCEPT !.setup = Put(@, <<l, d, node>>, time)]
set_hold_constraint(c, l, d, node, time)  == [c EXCEPT !.hold  = Put(@, <<l, d, node>>, time)]

set_setup_clock_uncertainty(c, l, d, time) ==
  [c EXCEPT !.setup_uncertainty = Put(@, <<l, d>>, time)]
set_hold_clock_uncertainty(c, l, d, time) ==
  [c EXCEPT !.hold_uncertainty = Put(@, <<l, d>>, time)]

set_source_latency(c, d, arrival, time) == [c EXCEPT !.latency[arrival] = Put(@, d, time)]

(***************************************************************************)
(* remap_nodes: sources, constant generators and I/O constraints follow    *)
(* the map.  The capture nodes of setup and hold constraints do not.       *)
(***************************************************************************)
Moved(node, node_map) == IF node = NoNode THEN NoNode ELSE node_map[node]

MovedEntries(entries, node_map) ==
  [i \in DOMAIN entries |-> [entries[i] EXCEPT !.node = node_map[@]]]

\* Mutant: output constraints are forgotten.
remap_nodes_InputsOnly(c, node_map) ==
  [c EXCEPT !.source     = [d \in DOMAIN @ |-> Moved(@[d], node_map)],
            !.const_gens = {node_map[n] : n \in @},
            !.input      = [dt \in DelayTypes |-> MovedEntries(@[dt], node_map)]]

remap_nodes(c, node_map) ==
  [c EXCEPT !.source     = [d \in DOMAIN @ |-> Moved(@[d], node_map)],
            !.const_gens = {node_map[n] : n \in @},
            !.input      = [dt \in DelayTypes |-> MovedEntries(@[dt], node_map)],
            !.output     = [dt \in DelayTypes |-> MovedEntries(@[dt], node_map)]]
==============================================================================
