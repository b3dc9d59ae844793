------------------------------ MODULE TimingSetup -----------------------------
(***************************************************************************)
(* Setting up an analysis, as tatum_test and other clients do: an echo     *)
(* file is loaded; the graph, the constraints and the delays are changed;  *)
(* the graph is compressed or its layout optimized, and everything that    *)
(* refers to it by id renumbered along; the setup is analysed, written to  *)
(* an echo file and loaded again, and an analysis verified against the     *)
(* results in that file.                                                   *)
(***************************************************************************)
EXTENDS EchoFile, Levelization

CONSTANTS File,                  \* the echo file the client starts from,
          NodeOrder, EdgeOrder,  \* whose ids are positions in these names,
          Settings,              \* the statements the client may add, by name
          MaxChanges,            \* bound: changes a client makes to its setup
          AnalysisOf(_, _, _)    \* a full analysis: of a graph, constraints and delays

\* The file is that of the client's circuit: a node or an edge for each of its parts.
ListsOnce(order, Names) ==
  order \in Seq(Names) /\ \A x \in Names : Occurrences(order, x) = 1

ASSUME FileAssumption ==
  /\ ListsOnce(NodeOrder, NodeNames) /\ ListsOnce(EdgeOrder, EdgeNames)
  /\ File.graph.nodes = [i \in 1 .. Len(NodeOrder) |-> NodeType[NodeOrder[i]]]
  /\ File.graph.edges \in Seq([type : EdgeTypes, disabled : BOOLEAN,
                               src : 0 .. Len(NodeOrder) - 1, sink : 0 .. Len(NodeOrder) - 1])
  /\ Len(File.graph.edges) = Len(EdgeOrder)
  /\ \A i \in 1 .. Len(EdgeOrder) :
       LET e == File.graph.edges[i]
       IN  EdgeDef[EdgeOrder[i]] =
             [type |-> e.type, src |-> NodeOrder[e.src + 1], sink |-> NodeOrder[e.sink + 1]]

VARIABLES tc,       \* the constraints, a record of MutableTimingConstraints
          delays,   \* the delay calculator, by edge id
          golden,   \* the golden reference: a set of TagResults
          changes,
          before    \* history: what the parts' timing was before the setup
                    \* was last renumbered, or by the times in its last file,
                    \* since the last change

setup_vars == <<vars, tc, delays, golden, changes, before>>

(***************************************************************************)
(* Loading.  The file's graph is not levelized.                            *)
(***************************************************************************)
Positions(order) == [x \in ToSet(order) |-> (CHOOSE i \in DOMAIN order : order[i] = x) - 1]

NotAnalysed == << >>

SetupInit ==
  /\ nodes = graph_of(File).nodes
  /\ edges = graph_of(File).edges
  /\ is_levelized = FALSE
  /\ levelization = NotLevelized
  /\ node_of = Positions(NodeOrder)
  /\ edge_of = Positions(EdgeOrder)
  /\ tc = constraints_of(File.constraints)
  /\ delays = File.delays
  /\ golden = File.results
  /\ changes = 0
  /\ before = NotAnalysed

(***************************************************************************)
(* What the constructor of an analyzer checks.                             *)
(***************************************************************************)
\* Mutant: OPINs without fan-in are not looked at.
validate_timing_graph_constraints_SourcesOnly(g, c) ==
  \A d \in ToSet(c.domains) : c.source[d] # NoNode => g.nodes[c.source[d]].type = "SOURCE"

validate_timing_graph_constraints(g, c) ==
  /\ \A d \in ToSet(c.domains) : c.source[d] # NoNode => g.nodes[c.source[d]].type = "SOURCE"
  /\ \A n \in DOMAIN g.nodes : g.nodes[n].type = "OPIN" /\ g.nodes[n].in = <<>> => n \in c.const_gens

Validated ==
  /\ NoHoles
  /\ is_levelized
  /\ validate_structure(graph, levelization)
  /\ validate_timing_graph_constraints(graph, tc)

(***************************************************************************)
(* The pre-traversal asserts that a start point is one of these.           *)
(***************************************************************************)
IsStartpoint(n) == nodes[n].type = "SOURCE" \/ n \in tc.const_gens

Analysable ==
  Validated /\ \A n \in ToSet(levelization.level_nodes[0]) : IsStartpoint(n)

(***************************************************************************)
(* A full analysis of the graph as it is left, removed parts aside, by the *)
(* current constraints and delays.                                         *)
(***************************************************************************)
FollowsLists(order) ==
  \A n \in ValidIds(nodes) :
    /\ SelectSeq(order, LAMBDA e : edges[e].sink = n) = SelectSeq(nodes[n].in,  LAMBDA e : e # NoEdge)
    /\ SelectSeq(order, LAMBDA e : edges[e].src = n)  = SelectSeq(nodes[n].out, LAMBDA e : e # NoEdge)

Left ==
  LET es == ValidIds(edges)
      ns == ValidIds(nodes)
  IN  Levelized(
        [nodes |-> ns, edges |-> es,
         node_type  |-> [n \in ns |-> nodes[n].type],
         edge_type  |-> [e \in es |-> edges[e].type],
         src        |-> [e \in es |-> edges[e].src],
         sink       |-> [e \in es |-> edges[e].sink],
         disabled   |-> {e \in es : edges[e].disabled},
         edge_order |-> CHOOSE order \in SetToSeqs(es) : FollowsLists(order),
         level |-> << >>, last_level |-> 0])

Only(set) == CHOOSE x \in set : TRUE   \* of a set with one member

Analysis == Only({AnalysisOf(tg, tc, delays) : tg \in {Left}})

ByName(analysis) ==
  [m \in DOMAIN analysis |-> [name \in Known(node_of) |-> analysis[m][node_of[name]]]]

NamedAnalysis == Only({ByName(analysis) : analysis \in {Analysis}})

(***************************************************************************)
(* Changes to the setup, after which the golden reference is of no use.    *)
(***************************************************************************)
Change ==
  /\ changes < MaxChanges
  /\ changes' = changes + 1
  /\ golden' = {}
  /\ before' = NotAnalysed

\* Of a new clock, the statement has the id the client is given.
AddStatement(s) ==
  LET named == s.node \in NodeNames
      node  == IF named THEN node_of[s.node] ELSE NoNode
  IN  /\ Change
      /\ named => node # NoNode
      /\ \E c \in {Read(tc, [s EXCEPT !.node = node])} :
          /\ s.kind = "CLOCK" => Constraints!find_clock_domain(c, s.value) = s.launch
          /\ tc' = c
      /\ UNCHANGED <<vars, delays>>

UnmarkConstantGenerator(name) ==
  /\ Change
  /\ node_of[name] \in tc.const_gens
  /\ tc' = Constraints!set_constant_generator(tc, node_of[name], FALSE)
  /\ UNCHANGED <<vars, delays>>

ChangeEdge(name) ==
  /\ Change
  /\ remove_edge(name) \/ \E disable \in BOOLEAN : disable_edge(name, disable)
  /\ UNCHANGED <<tc, delays>>

(***************************************************************************)
(* A client removes no node that a constraint is set for: remap_nodes would*)
(* keep the constraint, for INVALID().  The source of a clock may go.      *)
(***************************************************************************)
ConstrainedNodes ==
  tc.const_gens \cup {k[3] : k \in DOMAIN tc.setup \cup DOMAIN tc.hold}
    \cup UNION {{x.node : x \in ToSet(tc.input[dt] \o tc.output[dt])} : dt \in {"MAX", "MIN"}}

RemoveNode(name) ==
  /\ Change
  /\ remove_node(name)
  /\ node_of[name] \notin ConstrainedNodes
  /\ UNCHANGED <<tc, delays>>

(***************************************************************************)
(* Renumbering                                                             *)
(***************************************************************************)
\* Mutant: delays stay with the old ids.
remap_delay_calculator_Kept(delay, edge_map) == delay

remap_delay_calculator(delay, edge_map) ==
  [new \in {edge_map[old] : old \in DOMAIN edge_map} |->
     delay[CHOOSE old \in DOMAIN edge_map : edge_map[old] = new]]

(***************************************************************************)
(* It indexes with every new id, so that it serves optimize_layout() only: *)
(* compress() gives the edges that were removed an invalid one.  A client  *)
(* that compresses keeps the delays of the edges that are left.            *)
(***************************************************************************)
compressed_delays(delay, edge_map) == clean_and_reorder_values(delay, edge_map)

\* Mutant: results stay with the old ids.
remap_golden_Kept(results, node_map) == results

remap_golden(results, node_map) == {[r EXCEPT !.node = node_map[@]] : r \in results}

Renumbered(node_map) ==
  /\ tc'     = Constraints!remap_nodes(tc, node_map)
  /\ golden' = remap_golden(golden, node_map)
  /\ before' = NamedAnalysis
  /\ UNCHANGED changes

CompressAll ==
  /\ compress
  /\ Renumbered(compress_ids(nodes))
  /\ delays' = compressed_delays(delays, compress_ids(edges))

OptimizeAll ==
  /\ optimize_layout
  /\ \E maps \in {OptimizedMaps} :
       /\ Renumbered(maps.node)
       /\ delays' = remap_delay_calculator(delays, maps.edge)

Levelize == levelize /\ UNCHANGED <<tc, delays, golden, changes, before>>

(***************************************************************************)
(* compress() throws: the client loads its file again.                     *)
(***************************************************************************)
StartOver ==
  /\ ~validate_structure(Compressed, force_levelize(Compressed))
  /\ nodes' = graph_of(File).nodes
  /\ edges' = graph_of(File).edges
  /\ InvalidateLevels
  /\ node_of' = Positions(NodeOrder)
  /\ edge_of' = Positions(EdgeOrder)
  /\ tc' = constraints_of(File.constraints)
  /\ delays' = File.delays
  /\ golden' = File.results
  /\ changes' = 0
  /\ before' = NotAnalysed

(***************************************************************************)
(* The constraints and delays as they are printed.                         *)
(***************************************************************************)
PrintedConstraints(c) ==
  LET times(map)  == [k \in DOMAIN map |-> Printed(map[k])]
      io(entries) == [i \in DOMAIN entries |-> [entries[i] EXCEPT !.time = Printed(@)]]
  IN  [c EXCEPT !.input  = [type \in DOMAIN c.input  |-> io(c.input[type])],
                !.output = [type \in DOMAIN c.output |-> io(c.output[type])],
                !.setup = times(@), !.setup_uncertainty = times(@),
                !.hold  = times(@), !.hold_uncertainty  = times(@),
                !.latency = [type \in DOMAIN c.latency |-> times(c.latency[type])]]

PrintedDelays == [e \in DOMAIN delays |-> [what \in DOMAIN delays[e] |-> Printed(delays[e][what])]]

(***************************************************************************)
(* The analysed setup is written to an echo file, which is loaded.         *)
(***************************************************************************)
Written(analysis) ==
  [graph       |-> write_timing_graph(graph),
   constraints |-> write_timing_constraints(tc),
   delays      |-> write_delay_model(graph, delays),
   results     |-> write_analysis_result(analysis)]

Echo ==
  /\ Analysable
  /\ InvalidateLevels
  /\ UNCHANGED <<handles, changes>>
  /\ \E analysis \in {Analysis} : \E file \in {Written(analysis)} :
       /\ nodes' = graph_of(file).nodes
       /\ edges' = graph_of(file).edges
       /\ tc' = constraints_of(file.constraints)
       /\ delays' = file.delays
       /\ golden' = add_node_tag(file.results)
  /\ \E analysis \in {AnalysisOf(Left, PrintedConstraints(tc), PrintedDelays)} :
       before' = ByName(analysis)

SetupNext ==
  \/ \E s \in Settings  : AddStatement(s)
  \/ \E n \in NodeNames : UnmarkConstantGenerator(n) \/ RemoveNode(n)
  \/ \E e \in EdgeNames : ChangeEdge(e)
  \/ Levelize \/ CompressAll \/ OptimizeAll \/ StartOver \/ Echo

SetupSpec == SetupInit /\ [][SetupNext]_setup_vars

(***************************************************************************)
(* Verification of an analysis against the golden reference                *)
(***************************************************************************)
verify_time(time, reference) ==
  IF IsValid(time) THEN IsValid(reference) => time = reference ELSE ~IsValid(reference)

verify_node_tags(tags, results) ==
  /\ \A t \in tags : \E r \in results :
       r.launch = t[1] /\ r.capture = t[2] /\ verify_time(t[3], r.time)
  /\ Cardinality(tags) = Cardinality(results)

verify_analyzer(result, reference) ==
  \A m \in DOMAIN result, n \in DOMAIN nodes :
  \A type \in DOMAIN result[m][n].tags :
    verify_node_tags(result[m][n].tags[type],
                     {r \in reference : r.node = n /\ r.mode = m /\ r.type = type})

(***************************************************************************)
(* Properties                                                              *)
(***************************************************************************)

(***************************************************************************)
(* The statements in force: what the constraints c say, by id.             *)
(***************************************************************************)
Kinds == {"CLOCK", "CLOCK_SOURCE", "CONSTANT_GENERATOR",
          "MAX_INPUT_CONSTRAINT", "MIN_INPUT_CONSTRAINT",
          "MAX_OUTPUT_CONSTRAINT", "MIN_OUTPUT_CONSTRAINT",
          "SETUP_CONSTRAINT", "HOLD_CONSTRAINT", "SETUP_UNCERTAINTY", "HOLD_UNCERTAINTY",
          "EARLY_SOURCE_LATENCY", "LATE_SOURCE_LATENCY"}

Section(c, kind) ==
  LET io(entries) == {Statement(kind, x.node, x.domain, NoDomain, x.time) : x \in ToSet(entries)}
      clock(map)  == {Statement(kind, k[3], k[1], k[2], map[k]) : k \in DOMAIN map}
      pair(map)   == {Statement(kind, NoNode, k[1], k[2], map[k]) : k \in DOMAIN map}
      single(map) == {Statement(kind, NoNode, d, NoDomain, map[d]) : d \in DOMAIN map}
  IN  CASE kind = "CLOCK" ->
             {Statement(kind, NoNode, d, NoDomain, c.names[d + 1]) : d \in ToSet(c.domains)}
        [] kind = "CLOCK_SOURCE" ->
             {Statement(kind, c.source[d], d, NoDomain, NaN) :
                d \in {x \in ToSet(c.domains) : c.source[x] # NoNode}}
        [] kind = "CONSTANT_GENERATOR" ->
             {Statement(kind, n, NoDomain, NoDomain, NaN) : n \in c.const_gens}
        [] kind = "MAX_INPUT_CONSTRAINT"  -> io(c.input["MAX"])
        [] kind = "MIN_INPUT_CONSTRAINT"  -> io(c.input["MIN"])
        [] kind = "MAX_OUTPUT_CONSTRAINT" -> io(c.output["MAX"])
        [] kind = "MIN_OUTPUT_CONSTRAINT" -> io(c.output["MIN"])
        [] kind = "SETUP_CONSTRAINT"      -> clock(c.setup)
        [] kind = "HOLD_CONSTRAINT"       -> clock(c.hold)
        [] kind = "SETUP_UNCERTAINTY"     -> pair(c.setup_uncertainty)
        [] kind = "HOLD_UNCERTAINTY"      -> pair(c.hold_uncertainty)
        [] kind = "EARLY_SOURCE_LATENCY"  -> single(c.latency["EARLY"])
        [] kind = "LATE_SOURCE_LATENCY"   -> single(c.latency["LATE"])

InForce(c) == UNION {Section(c, kind) : kind \in Kinds}

(***************************************************************************)
(* Statements the library can follow: of one of the kinds, about parts (or *)
(* none), with the fields of their kind; the times of the constraints the  *)
(* writer drops if they are invalid are valid, and no clock constraint has *)
(* a capture node, which remap_nodes would not move.                       *)
(***************************************************************************)
IoKinds == {"MAX_INPUT_CONSTRAINT", "MIN_INPUT_CONSTRAINT",
            "MAX_OUTPUT_CONSTRAINT", "MIN_OUTPUT_CONSTRAINT"}

PairKinds == {"SETUP_CONSTRAINT", "HOLD_CONSTRAINT", "SETUP_UNCERTAINTY", "HOLD_UNCERTAINTY"}

IsTime(value) == value \in Int /\ NegInf <= value /\ value <= PosInf   \* and not NaN

WellFormed(s, about, none) ==
  /\ s = Statement(s.kind, s.node, s.launch, s.capture, s.value)
  /\ s.kind \in Kinds
  /\ s.kind \in IoKinds \cup {"CLOCK_SOURCE", "CONSTANT_GENERATOR"} => s.node \in about
  /\ s.kind \notin IoKinds \cup {"CLOCK_SOURCE", "CONSTANT_GENERATOR"} => s.node = none
  /\ s.kind \notin PairKinds => s.capture = NoDomain
  /\ s.kind = "CONSTANT_GENERATOR" => s.launch = NoDomain
  /\ s.kind \in {"CLOCK_SOURCE", "CONSTANT_GENERATOR"} => s.value = NaN
  /\ s.kind \in IoKinds \cup {"SETUP_CONSTRAINT", "HOLD_CONSTRAINT"} => IsTime(s.value)

CanFollow(settings) ==
  /\ {"none", "lost"} \cap NodeNames = {}
  /\ \A s \in settings : WellFormed(s, NodeNames, "none")
  /\ \A i \in DOMAIN File.constraints :
       WellFormed(File.constraints[i], 0 .. Len(NodeOrder) - 1, NoNode)
  /\ File.constraints \in Seq(ToSet(File.constraints))

(***************************************************************************)
(* What the client reads of the constraints: entries that name the part    *)
(* they are about, "none" where there is none.  A clock whose source was   *)
(* removed is one without a source.                                        *)
(***************************************************************************)
Entry(kind, part, launch, capture, value) == <<<<kind, part, launch, capture>>, value>>

EntryOf(s) ==
  IF s.kind = "CLOCK_SOURCE" THEN Entry(s.kind, "none", s.launch, NoDomain, s.node)
  ELSE Entry(s.kind, s.node, s.launch, s.capture, s.value)

InNames(s, handle) ==
  [s EXCEPT !.node = IF @ = NoNode THEN "none" ELSE NameIn(handle, @)]

Readable(s) == ~(s.kind = "CLOCK_SOURCE" /\ s.node = "lost")

BookOf(c, handle) ==
  {EntryOf(s) : s \in {x \in {InNames(s, handle) : s \in InForce(c)} : Readable(x)}}

(***************************************************************************)
(* A time that was written and loaded has the digits that were printed.    *)
(***************************************************************************)
TimedKinds == IoKinds \cup PairKinds \cup {"EARLY_SOURCE_LATENCY", "LATE_SOURCE_LATENCY"}

Transcribed(entry) ==
  IF entry[1][1] \in TimedKinds THEN <<entry[1], Printed(entry[2])>> ELSE entry

(***************************************************************************)
(* The refinement: the constraints the client reads are those it set, the  *)
(* last value of each, whatever is renumbered, compressed, written and     *)
(* loaded in between; and only what is written to a file and loaded is     *)
(* rounded to the digits printed there.                                    *)
(***************************************************************************)
Book == INSTANCE ConstraintBook WITH
          Entries <- {EntryOf(s) : s \in Settings},
          Marks   <- {Entry("CONSTANT_GENERATOR", n, NoDomain, NoDomain, NaN) : n \in NodeNames},
          Initial <- BookOf(constraints_of(File.constraints), Positions(NodeOrder)),
          Parts   <- NodeNames,
          Transcribed <- Transcribed,
          book    <- BookOf(tc, node_of)

ClientSeesConstraints ==
  /\ Book!Spec
  /\ [][IF Echo THEN Book!Transcribe ELSE [Book!Amend]_(BookOf(tc, node_of))]_setup_vars

(***************************************************************************)
(* The per-node clock constraints of the client stay where it set them     *)
(* ("Update node IDs if they have changed", TimingConstraints.hpp).        *)
(***************************************************************************)
NodeConstraints ==
  {<<NameIn(node_of, k[3]), tc.setup[k]>> : k \in {x \in DOMAIN tc.setup : x[3] # NoNode}}

NodeConstraintsFollow ==
  [][CompressAll \/ OptimizeAll => NodeConstraints' = NodeConstraints]_setup_vars

(***************************************************************************)
(* Renumbering the graph and everything that refers to it changes no       *)
(* result of the analysis of any part; writing and loading the setup change*)
(* none but by the digits of the times that are printed.                   *)
(***************************************************************************)
RenumberingKeepsAnalysis ==
  before # NotAnalysed /\ Analysable => NamedAnalysis = before

(***************************************************************************)
(* The analysis a setup was written with is verified after the setup has   *)
(* been loaded, levelized and its layout optimized, unless a tag has no    *)
(* time: such a tag is not written, and missed.  (The times themselves are *)
(* not compared: the parser passes on none.)                               *)
(***************************************************************************)
AllTagsTimed(analysis) ==
  \A m \in DOMAIN analysis, n \in DOMAIN nodes :
  \A type \in DOMAIN analysis[m][n].tags :
  \A t \in analysis[m][n].tags[type] : IsValid(t[3])

EchoVerifies ==
  golden # {} /\ Analysable =>
    \A analysis \in {Analysis} : verify_analyzer(analysis, golden) <=> AllTagsTimed(analysis)

(***************************************************************************)
(* What the analyzers' constructors check leaves the pre-traversal these   *)
(* kinds of nodes in level 0: the start points it expects, a node whose    *)
(* fan-in is all disabled, an undriven SINK and, where dangling nodes are  *)
(* allowed, an undriven IPIN.                                              *)
(***************************************************************************)
ValidatedStartpoints ==
  Validated =>
    \A n \in ToSet(levelization.level_nodes[0]) :
      \/ IsStartpoint(n)
      \/ nodes[n].in # <<>> /\ ActiveIn(graph, n) = {}
      \/ /\ nodes[n].in = <<>>
         /\ nodes[n].type = "SINK" \/ (AllowDangling /\ nodes[n].type = "IPIN")
==============================================================================
