------------------------------- MODULE EchoFile -------------------------------
(***************************************************************************)
(* The echo file: what the writer puts in it, and what EchoLoader makes of *)
(* it through the parser's callbacks.  A file has the nodes' types and the *)
(* edges in the order of their ids, one statement per constraint, and a    *)
(* line per edge delay and per analysis tag.  The lists of in- and         *)
(* out-edges it also has are ignored when it is read.                      *)
(***************************************************************************)
EXTENDS MutableTimingGraph

Constraints == INSTANCE MutableTimingConstraints

(***************************************************************************)
(* A time in the file.  It is printed by a stream with its default         *)
(* precision, six significant digits, and read as the number that these    *)
(* are: a time of seven digits comes back as the nearest multiple of ten,  *)
(* of eight digits of a hundred (of two that are as near, the even one).   *)
(* "inf" and "nan" are read as what they were.                             *)
(***************************************************************************)
LastPlace(size) ==
  CHOOSE u \in {1, 10, 100, 1000} : size < 1000000 * u /\ (u = 1 \/ size >= 100000 * u)

Rounded(size) ==
  LET unit == LastPlace(size)
      down == size \div unit
      rest == size % unit
  IN  unit * IF 2 * rest > unit \/ (2 * rest = unit /\ down % 2 = 1) THEN down + 1 ELSE down

Printed(time) ==
  IF ~IsValid(time) \/ IsInf(time) THEN time
  ELSE IF time < 0 THEN -Rounded(-time) ELSE Rounded(time)

(***************************************************************************)
(* Constraint statements.  A field a kind of statement does not have is    *)
(* INVALID().                                                              *)
(***************************************************************************)
Statement(kind, node, launch, capture, value) ==
  [kind |-> kind, node |-> node, launch |-> launch, capture |-> capture, value |-> value]

ClockStatements(kind, map) ==   \* keys are <<launch, capture, node>>
  LET keys == SetToSeq({k \in DOMAIN map : IsValid(map[k])})
  IN  [i \in DOMAIN keys |->
         Statement(kind, keys[i][3], keys[i][1], keys[i][2], Printed(map[keys[i]]))]

IoStatements(kind, entries) ==
  LET valid == Kept(entries, {x \in ToSet(entries) : IsValid(x.time)})
  IN  [i \in DOMAIN valid |->
         Statement(kind, valid[i].node, valid[i].domain, NoDomain, Printed(valid[i].time))]

LatencyStatements(kind, map) ==
  LET keys == SetToSeq(DOMAIN map)
  IN  [i \in DOMAIN keys |->
         Statement(kind, NoNode, keys[i], NoDomain, Printed(map[keys[i]]))]

UncertaintyStatements(kind, map) ==
  LET keys == SetToSeq(DOMAIN map)
  IN  [i \in DOMAIN keys |->
         Statement(kind, NoNode, keys[i][1], keys[i][2], Printed(map[keys[i]]))]

write_timing_constraints(c) ==
  LET sourced == Kept(c.domains, {d \in ToSet(c.domains) : c.source[d] # NoNode})
      gens    == SetToSeq(c.const_gens)
  IN     [i \in DOMAIN c.domains |->
            Statement("CLOCK", NoNode, c.domains[i], NoDomain, c.names[i])]
      \o [i \in DOMAIN sourced |->
            Statement("CLOCK_SOURCE", c.source[sourced[i]], sourced[i], NoDomain, NaN)]
      \o [i \in DOMAIN gens |->
            Statement("CONSTANT_GENERATOR", gens[i], NoDomain, NoDomain, NaN)]
      \o IoStatements("MAX_INPUT_CONSTRAINT",  c.input["MAX"])
      \o IoStatements("MIN_INPUT_CONSTRAINT",  c.input["MIN"])
      \o IoStatements("MAX_OUTPUT_CONSTRAINT", c.output["MAX"])
      \o IoStatements("MIN_OUTPUT_CONSTRAINT", c.output["MIN"])
      \o ClockStatements("SETUP_CONSTRAINT", c.setup)
      \o ClockStatements("HOLD_CONSTRAINT",  c.hold)
      \o UncertaintyStatements("SETUP_UNCERTAINTY", c.setup_uncertainty)
      \o UncertaintyStatements("HOLD_UNCERTAINTY",  c.hold_uncertainty)
      \o LatencyStatements("EARLY_SOURCE_LATENCY", c.latency["EARLY"])
      \o LatencyStatements("LATE_SOURCE_LATENCY",  c.latency["LATE"])

(***************************************************************************)
(* The parser's callback for a statement, and the setter it calls.         *)
(***************************************************************************)
Read(c, s) ==
  CASE s.kind = "CLOCK"                 -> Constraints!create_clock_domain(c, s.value)
    [] s.kind = "CLOCK_SOURCE"          -> Constraints!set_clock_domain_source(c, s.node, s.launch)
    [] s.kind = "CONSTANT_GENERATOR"    -> Constraints!set_constant_generator(c, s.node, TRUE)
    [] s.kind = "MAX_INPUT_CONSTRAINT"  -> Constraints!set_input_constraint(c, s.node, s.launch, "MAX", s.value)
    [] s.kind = "MIN_INPUT_CONSTRAINT"  -> Constraints!set_input_constraint(c, s.node, s.launch, "MIN", s.value)
    [] s.kind = "MAX_OUTPUT_CONSTRAINT" -> Constraints!set_output_constraint(c, s.node, s.launch, "MAX", s.value)
    [] s.kind = "MIN_OUTPUT_CONSTRAINT" -> Constraints!set_output_constraint(c, s.node, s.launch, "MIN", s.value)
    [] s.kind = "SETUP_CONSTRAINT"      -> Constraints!set_setup_constraint(c, s.launch, s.capture, s.node, s.value)
    [] s.kind = "HOLD_CONSTRAINT"       -> Constraints!set_hold_constraint(c, s.launch, s.capture, s.node, s.value)
    [] s.kind = "SETUP_UNCERTAINTY"     -> Constraints!set_setup_clock_uncertainty(c, s.launch, s.capture, s.value)
    [] s.kind = "HOLD_UNCERTAINTY"      -> Constraints!set_hold_clock_uncertainty(c, s.launch, s.capture, s.value)
    [] s.kind = "EARLY_SOURCE_LATENCY"  -> Constraints!set_source_latency(c, s.launch, "EARLY", s.value)
    [] s.kind = "LATE_SOURCE_LATENCY"   -> Constraints!set_source_latency(c, s.launch, "LATE", s.value)

constraints_of(statements) == FoldLeft(Read, Constraints!NoConstraints, statements)

(***************************************************************************)
(* The graph                                                               *)
(***************************************************************************)
write_timing_graph(g) ==
  [nodes |-> [i \in 1 .. Cardinality(DOMAIN g.nodes) |-> g.nodes[i - 1].type],
   edges |-> [i \in 1 .. Cardinality(DOMAIN g.edges) |-> g.edges[i - 1]]]

EmptyGraph == [nodes |-> EmptyMap, edges |-> EmptyMap]

AddEchoEdge(g, e) ==
  [AddEdge(g, e.type, e.src, e.sink) EXCEPT !.edges[Cardinality(DOMAIN g.edges)].disabled = e.disabled]

graph_of(file) ==
  FoldLeft(AddEchoEdge, FoldLeft(AddNode, EmptyGraph, file.graph.nodes), file.graph.edges)

(***************************************************************************)
(* The delay model.  A clock capture edge has its setup and hold times in  *)
(* the file, any other edge its delays; the rest is read as Time(), NaN.   *)
(***************************************************************************)
Delay(max, min, setup, hold) == [max |-> max, min |-> min, setup |-> setup, hold |-> hold]

HasSetupHold(g, e) ==
  g.nodes[g.edges[e].src].type = "CPIN" /\ g.nodes[g.edges[e].sink].type = "SINK"

write_delay_model(g, delay) ==
  [e \in DOMAIN g.edges |->
     IF HasSetupHold(g, e)
     THEN Delay(NaN, NaN, Printed(delay[e].setup), Printed(delay[e].hold))
     ELSE Delay(Printed(delay[e].max), Printed(delay[e].min), NaN, NaN)]

(***************************************************************************)
(* The analysis result: the tags with a time, of each mode.  The parser    *)
(* passes on NaN as the time of each of them, whatever is printed, and     *)
(* ignores the slacks.  What is read is the set of results GoldenReference *)
(* maps nodes and tag types to.                                            *)
(***************************************************************************)
TagResult(node, mode, type, launch, capture, time) ==
  [node |-> node, mode |-> mode, type |-> type, launch |-> launch, capture |-> capture,
   time |-> time]

write_tags(node, mode, type, tags) ==
  {TagResult(node, mode, type, t[1], t[2], t[3]) : t \in {u \in tags : IsValid(u[3])}}

write_analysis_result(result) ==
  LET of_node(m, n) == UNION {write_tags(n, m, type, result[m][n].tags[type]) :
                                type \in DOMAIN result[m][n].tags}
  IN  UNION {UNION {of_node(m, n) : n \in DOMAIN result[m]} : m \in {"setup", "hold"}}

add_node_tag(results) == {[r EXCEPT !.time = NaN] : r \in results}
==============================================================================
