--------------------------- MODULE AnalysisVisitor ---------------------------
(***************************************************************************)
(* What one visit of a node computes: CommonAnalysisVisitor instantiated   *)
(* with SetupAnalysisOps (m = "setup") or HoldAnalysisOps (m = "hold").    *)
(* A visit pulls tags over the edges of the node; every value it folds in  *)
(* is a merge request [time, origin, base], and a visit is the fold of its *)
(* requests in the order the code issues them.                             *)
(*                                                                         *)
(* delay[e] is what the delay calculator answers for edge e: the fields    *)
(* max and min (max_edge_delay, min_edge_delay), setup and hold            *)
(* (setup_time, hold_time).  tags is the analysis state of one mode: a     *)
(* container per node.                                                     *)
(***************************************************************************)
EXTENDS TimingGraph, TimingConstraints, TimingTags

AnalysisModes == {"setup", "hold"}

(***************************************************************************)
(* SetupAnalysisOps and HoldAnalysisOps                                    *)
(***************************************************************************)
IsSetup(m) == m = "setup"

invalid_arrival_time(m)  == IF IsSetup(m) THEN NegInf ELSE PosInf
invalid_required_time(m) == IF IsSetup(m) THEN PosInf ELSE NegInf
invalid_slack_time == PosInf

ArrivalSide(m)  == IF IsSetup(m) THEN "max" ELSE "min"
RequiredSide(m) == IF IsSetup(m) THEN "min" ELSE "max"

const_gen_tag(m) ==
  TimingTag(invalid_arrival_time(m), NoDomain, NoDomain, NoNode, "DATA_ARRIVAL")

clock_constraint(m, l, c, n) ==
  IF IsSetup(m) THEN setup_constraint(l, c, n) ELSE hold_constraint(l, c, n)
clock_uncertainty(m, l, c) ==
  IF IsSetup(m) THEN Negate(setup_clock_uncertainty(l, c))
                ELSE hold_clock_uncertainty(l, c)
launch_source_latency(m, d)  == source_latency(d, IF IsSetup(m) THEN "LATE" ELSE "EARLY")
capture_source_latency(m, d) == source_latency(d, IF IsSetup(m) THEN "EARLY" ELSE "LATE")
io_delay_type(m) == IF IsSetup(m) THEN "MAX" ELSE "MIN"

is_clock_data_launch_edge(e) ==
  node_type(edge_src_node(e)) = "CPIN" /\ node_type(edge_sink_node(e)) = "SOURCE"
is_clock_data_capture_edge(e) ==
  node_type(edge_src_node(e)) = "CPIN" /\ node_type(edge_sink_node(e)) = "SINK"

data_edge_delay(m, delay, e) == IF IsSetup(m) THEN delay[e].max ELSE delay[e].min
capture_clock_edge_delay(m, delay, e) ==
  IF is_clock_data_capture_edge(e)
  THEN IF IsSetup(m) THEN Negate(delay[e].setup) ELSE delay[e].hold
  ELSE data_edge_delay(m, delay, e)

calculate_slack(m, required, arrival) ==
  IF IsSetup(m) THEN Minus(required, arrival) ELSE Minus(arrival, required)

(***************************************************************************)
(* Merging requests into the container of one node.                        *)
(***************************************************************************)
Request(time, origin, base) == [time |-> time, origin |-> origin, base |-> base]
Unmodified(tags) == [tags |-> tags, modified |-> FALSE]

\* What a visit has done (acc), and then one more part of it.
Then(acc, part) == [tags |-> part.tags, modified |-> acc.modified \/ part.modified]

MergeOne(acc, side, r) ==
  LET type   == r.base.type
      merged == MergeInto(acc.tags[type], side, r.time, r.origin, r.base)
  IN  [tags     |-> [acc.tags EXCEPT ![type] = merged.seq],
       modified |-> acc.modified \/ merged.modified]

merge_arr_tags(m, acc, r) == MergeOne(acc, ArrivalSide(m), r)
merge_req_tags(m, acc, r) == MergeOne(acc, RequiredSide(m), r)

(***************************************************************************)
(* Resets                                                                  *)
(***************************************************************************)
AnyOrigin == Nodes \cup {NoNode}

do_reset_node_arrival_tags(m, tags) ==
  ResetFrom(tags, ArrivalTypes, AnyOrigin, invalid_arrival_time(m))

do_reset_node_arrival_tags_from_origin(m, tags, origins) ==
  ResetFrom(tags, ArrivalTypes, origins, invalid_arrival_time(m))
do_reset_node_required_tags(m, tags) ==
  ResetFrom(tags, {"DATA_REQUIRED"}, AnyOrigin, invalid_required_time(m))
do_reset_node_required_tags_from_origin(m, tags, origins) ==
  ResetFrom(tags, {"DATA_REQUIRED"}, origins, invalid_required_time(m))

\* Mutant: slacks are merged into, never reset.
do_reset_node_slack_tags_None(slacks) == slacks

do_reset_node_slack_tags(slacks) ==
  [i \in DOMAIN slacks |->
     [slacks[i] EXCEPT !.time = invalid_slack_time, !.origin = NoNode]]

(***************************************************************************)
(* Pre-traversals.  The arrival one seeds the start points: a constant     *)
(* generator, the launch and capture tags of a clock source, or the data   *)
(* arrival of a constrained primary input.  It is defined for constant     *)
(* generators and SOURCEs; the code asserts that there is no other node.   *)
(***************************************************************************)
CaptureTags(m, n) ==
  LET d        == find_node_source_clock_domain(n)
      launches == SelectSeq(clock_domains, LAMBDA l : should_analyze(l, d, NoNode))
  IN  [i \in DOMAIN launches |->
         TimingTag(Plus(capture_source_latency(m, d),
                        clock_constraint(m, launches[i], d, NoNode)),
                   launches[i], d, NoNode, "CLOCK_CAPTURE")]

InputTag(m, n) ==
  LET d == node_clock_domain(n)
  IN  TimingTag(Plus(launch_source_latency(m, d),
                     input_constraint(n, d, io_delay_type(m))),
                d, NoDomain, NoNode, "DATA_ARRIVAL")

do_arrival_pre_traverse_node(m, tags, n) ==
  IF node_is_constant_generator(n)
  THEN [tags |-> set_tag(tags, const_gen_tag(m)), constrained |-> TRUE]
  ELSE IF node_is_clock_source(n)
  THEN LET d        == find_node_source_clock_domain(n)
           captures == CaptureTags(m, n)
           launch   == TimingTag(launch_source_latency(m, d), d, NoDomain, NoNode,
                                 "CLOCK_LAUNCH")
       IN  [tags        |-> FoldLeft(set_tag, set_tag(tags, launch), captures),
            constrained |-> captures # <<>>]
  ELSE IF input_constraints(n, io_delay_type(m)) # <<>>
  THEN LET t == InputTag(m, n)
       IN  [tags |-> merge_arr_tags(m, Unmodified(tags),
                                    Request(t.time, t.origin, t)).tags,
            constrained |-> TRUE]
  ELSE [tags |-> tags, constrained |-> FALSE]

HasTag(tags, type) == tags[type] # <<>>

is_constrained(n, tags) ==
  CASE node_type(n) = "SINK" ->
         HasTag(tags, "DATA_REQUIRED") \/ HasTag(tags, "CLOCK_LAUNCH")
    [] node_type(n) = "SOURCE" ->
         \/ HasTag(tags, "DATA_REQUIRED")
         \/ HasTag(tags, "CLOCK_LAUNCH") /\ HasTag(tags, "CLOCK_CAPTURE")
    [] node_type(n) \in {"IPIN", "OPIN"} -> HasTag(tags, "DATA_REQUIRED")
    [] node_type(n) = "CPIN" ->
         HasTag(tags, "CLOCK_LAUNCH") /\ HasTag(tags, "CLOCK_CAPTURE")

do_required_pre_traverse_node(n, tags) == is_constrained(n, tags)

(***************************************************************************)
(* The arrival traversal of an edge, as merge requests on its sink.  Clock *)
(* tags go everywhere but into a SOURCE (launch tags not over a capture    *)
(* edge, capture tags not into a SINK); at a launch edge they turn into    *)
(* data arrivals that name no origin; data goes everywhere but out of a    *)
(* CPIN.                                                                   *)
(***************************************************************************)
Pulled(seq, d, origin) ==
  [i \in DOMAIN seq |-> Request(Plus(seq[i].time, d), origin, seq[i])]

AsDataArrival(requests) ==
  [i \in DOMAIN requests |->
     [requests[i] EXCEPT !.base.type = "DATA_ARRIVAL", !.origin = NoNode]]

should_propagate_clocks(e) == node_type(edge_sink_node(e)) # "SOURCE"

ArrivalRequests(m, delay, tags, e) ==
  LET src    == edge_src_node(e)
      launch == Pulled(tags[src]["CLOCK_LAUNCH"], data_edge_delay(m, delay, e), src)
  IN  (IF should_propagate_clocks(e) /\ ~is_clock_data_capture_edge(e)
       THEN launch ELSE <<>>)
      \o
      (IF should_propagate_clocks(e) /\ node_type(edge_sink_node(e)) # "SINK"
       THEN Pulled(tags[src]["CLOCK_CAPTURE"],
                   capture_clock_edge_delay(m, delay, e), src)
       ELSE <<>>)
      \o
      (IF is_clock_data_launch_edge(e) THEN AsDataArrival(launch) ELSE <<>>)
      \o
      (IF node_type(src) # "CPIN"
       THEN Pulled(tags[src]["DATA_ARRIVAL"], data_edge_delay(m, delay, e), src)
       ELSE <<>>)

(***************************************************************************)
(* The required times a SINK generates once its arrivals are known: one    *)
(* per capture clock tag and data arrival of the same launch domain at a   *)
(* flip-flop, one per analysed data arrival at a constrained output.       *)
(***************************************************************************)
LaunchDomain(arr, otherwise) == IF is_const_gen_tag(arr) THEN otherwise ELSE arr.launch

RequiredTag(time, launch, capture) ==
  LET t == TimingTag(time, launch, capture, NoNode, "DATA_REQUIRED")
  IN  Request(time, NoNode, t)

FlipFlopRequest(m, delay, n, e, cap, arr) ==
  LET l == LaunchDomain(arr, cap.capture)
      c == cap.capture
      offset == Minus(clock_constraint(m, l, c, n), clock_constraint(m, l, c, NoNode))
  IN  IF l = cap.launch /\ should_analyze(l, c, n)
      THEN <<RequiredTag(Plus(Plus(cap.time, offset),
                              Plus(capture_clock_edge_delay(m, delay, e),
                                   clock_uncertainty(m, l, c))), l, c)>>
      ELSE <<>>

OutputRequest(m, n, c, arr) ==
  LET l == LaunchDomain(arr, c)
  IN  IF should_analyze(l, c, n)
      THEN <<RequiredTag(Plus(Plus(clock_constraint(m, l, c, n),
                                   capture_source_latency(m, c)),
                              Minus(clock_uncertainty(m, l, c),
                                    output_constraint(n, c, io_delay_type(m)))), l, c)>>
      ELSE <<>>

SinkRequests(m, delay, tags, n, arrivals) ==
  LET e        == node_clock_capture_edge(n)
      captures == tags[edge_src_node(e)]["CLOCK_CAPTURE"]
      c        == node_clock_domain(n)
  IN  IF e # NoEdge
      THEN FlattenSeq([i \in DOMAIN captures |->
             FlattenSeq([j \in DOMAIN arrivals |->
               FlipFlopRequest(m, delay, n, e, captures[i], arrivals[j])])])
      ELSE IF c # NoDomain /\ IsValid(output_constraint(n, c, io_delay_type(m)))
      THEN FlattenSeq([j \in DOMAIN arrivals |-> OutputRequest(m, n, c, arrivals[j])])
      ELSE <<>>

\* Mutant: the changes it makes are not reported as modifications.
mark_sink_required_times_Unreported(m, delay, tags, n, own) ==
  Unmodified(FoldLeft(LAMBDA acc, r : merge_req_tags(m, acc, r), Unmodified(own),
                      SinkRequests(m, delay, tags, n, own["DATA_ARRIVAL"])).tags)

mark_sink_required_times(m, delay, tags, n, own) ==
  FoldLeft(LAMBDA acc, r : merge_req_tags(m, acc, r), Unmodified(own),
           SinkRequests(m, delay, tags, n, own["DATA_ARRIVAL"]))

(***************************************************************************)
(* The arrival traversal of node n, whose container holds own: its active  *)
(* in-edges in turn, then its required times if it is a SINK.  The         *)
(* containers of the other nodes are in tags.                              *)
(***************************************************************************)
do_arrival_traverse_edge(m, delay, tags, e, own) ==
  FoldLeft(LAMBDA acc, r : merge_arr_tags(m, acc, r), Unmodified(own),
           ArrivalRequests(m, delay, tags, e))

do_arrival_traverse_node(m, delay, tags, n, own) ==
  LET Pull(acc, e) ==
        IF edge_disabled(e) THEN acc
        ELSE Then(acc, do_arrival_traverse_edge(m, delay, tags, e, acc.tags))
      arrived == FoldLeft(Pull, Unmodified(own), node_in_edges(n))
  IN  IF node_type(n) = "SINK"
      THEN Then(arrived, mark_sink_required_times(m, delay, tags, n, arrived.tags))
      ELSE arrived

(***************************************************************************)
(* The required traversal: none for a CPIN; else every required time of an *)
(* active out-edge's sink for whose launch domain n has a valid arrival.   *)
(***************************************************************************)
RequiredRequests(m, delay, tags, e) ==
  LET snk == edge_sink_node(e)
  IN  Pulled(tags[snk]["DATA_REQUIRED"], Negate(data_edge_delay(m, delay, e)), snk)

merge_matched_req_tags(m, acc, r) ==
  IF HasValidArrival(acc.tags, r.base.launch) THEN merge_req_tags(m, acc, r) ELSE acc

do_required_traverse_edge(m, delay, tags, e, own) ==
  FoldLeft(LAMBDA acc, r : merge_matched_req_tags(m, acc, r), Unmodified(own),
           RequiredRequests(m, delay, tags, e))

\* Mutant: the modified flag of the last edge replaces those before it.
do_required_traverse_node_LastOnly(m, delay, tags, n, own) ==
  LET Pull(acc, e) == IF edge_disabled(e) THEN acc
                      ELSE do_required_traverse_edge(m, delay, tags, e, acc.tags)
  IN  IF node_type(n) = "CPIN" THEN Unmodified(own)
      ELSE FoldLeft(Pull, Unmodified(own), node_out_edges(n))

do_required_traverse_node(m, delay, tags, n, own) ==
  LET Pull(acc, e) ==
        IF edge_disabled(e) THEN acc
        ELSE Then(acc, do_required_traverse_edge(m, delay, tags, e, acc.tags))
  IN  IF node_type(n) = "CPIN" THEN Unmodified(own)
      ELSE FoldLeft(Pull, Unmodified(own), node_out_edges(n))

(***************************************************************************)
(* The slacks of a node whose container is own: the smallest slack of each *)
(* required tag over the arrivals of its launch domain.                    *)
(***************************************************************************)
do_slack_traverse_node(m, own, slacks) ==
  LET arrs  == own["DATA_ARRIVAL"]
      reqs  == own["DATA_REQUIRED"]
      found == FlattenSeq([i \in DOMAIN arrs |->
                 FlattenSeq([j \in DOMAIN reqs |->
                   IF arrs[i].launch = reqs[j].launch
                   THEN <<Request(calculate_slack(m, reqs[j].time, arrs[i].time),
                                  reqs[j].origin, [reqs[j] EXCEPT !.type = "SLACK"])>>
                   ELSE <<>>])])
  IN  FoldLeft(LAMBDA s, r : MergeInto(s, "min", r.time, r.origin, r.base).seq,
               slacks, found)

SlackView(slacks) == {<<t.launch, t.capture, t.time>> : t \in ToSet(slacks)}
==============================================================================
