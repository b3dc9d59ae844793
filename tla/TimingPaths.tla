------------------------------ MODULE TimingPaths ------------------------------
(***************************************************************************)
(* What is read out of an analysis: paths traced back along the origins of *)
(* the tags, the worst of them collected, clock skews, critical path       *)
(* delays, and the report, which adds every path up again and compares.    *)
(* All of it is a function of the analyzer's state; m is the mode that the *)
(* TagRetriever selects.                                                   *)
(***************************************************************************)
EXTENDS IncrTimingAnalysis

(***************************************************************************)
(* find_tag: the exact domains, no wildcards.  What the lookups of a trace *)
(* try in turn: the domains of the path, any capture domain, a constant    *)
(* generator.  The code asserts that one succeeds; NoTag stands for the    *)
(* failed assertion.                                                       *)
(***************************************************************************)
NoTag == TimingTag(NaN, NoDomain, NoDomain, NoNode, "UNKNOWN")

find_tag(seq, launch, capture) ==
  LET i == SelectInSeq(seq, LAMBDA t : t.launch = launch /\ t.capture = capture)
  IN  IF i = 0 THEN NoTag ELSE seq[i]

\* Mutant: no capture domain but the path's.
Lookups_Exact(type, l, c) == IF type = "CLOCK_LAUNCH" THEN << <<l, NoDomain>> >> ELSE << <<l, c>> >>

Lookups(type, l, c) ==
  CASE type = "CLOCK_CAPTURE" -> << <<l, c>> >>
    [] type = "CLOCK_LAUNCH"  -> << <<l, c>>, <<l, NoDomain>> >>
    [] type = "DATA_ARRIVAL"  -> << <<l, c>>, <<l, NoDomain>>, <<NoDomain, NoDomain>> >>
    [] OTHER                  -> << <<l, c>> >>

LookedUp(seq, lookups) ==
  LET found == [i \in DOMAIN lookups |-> find_tag(seq, lookups[i][1], lookups[i][2])]
  IN  Head(SelectSeq(found, LAMBDA t : t # NoTag) \o <<NoTag>>)

(***************************************************************************)
(* The loop of the three traces: from a node back along origins, to a tag  *)
(* that names none; a data path ends before a CPIN.  An element is a node, *)
(* its tag and the edge the tag came over.                                 *)
(***************************************************************************)
back_trace(ts, type, l, c, last) ==
  LET path[n \in Nodes \cup {NoNode}] ==
        LET through(t) ==
              Append(path[t.origin],
                     [node |-> n, tag |-> t,
                      edge |-> IF t.origin = NoNode THEN NoEdge ELSE find_edge(t.origin, n)])
        IN  IF n = NoNode \/ (type = "DATA_ARRIVAL" /\ node_type(n) = "CPIN") THEN <<>>
            ELSE through(LookedUp(ts[n][type], Lookups(type, l, c)))
  IN  path[last]

trace_clock_launch_path(ts, l, c, n) ==
  LET e == node_clock_launch_edge(n)
  IN  IF e = NoEdge THEN <<>> ELSE back_trace(ts, "CLOCK_LAUNCH", l, c, edge_src_node(e))

trace_data_arrival_path(ts, l, c, n) ==
  LET launched(el) ==
        LET e == node_clock_launch_edge(el.node)
        IN  IF e = NoEdge THEN el ELSE [el EXCEPT !.edge = e]
  IN  [back_trace(ts, "DATA_ARRIVAL", l, c, n) EXCEPT ![1] = launched(@)]

trace_clock_capture_path(ts, l, c, n) ==
  LET e == node_clock_capture_edge(n)
  IN  IF e = NoEdge THEN <<>> ELSE back_trace(ts, "CLOCK_CAPTURE", l, c, edge_src_node(e))

(***************************************************************************)
(* trace_path of the slack tag of a SINK.                                  *)
(***************************************************************************)
calc_path_delay(path) == Minus(Last(path).tag.time, Head(path).tag.time)

trace_path(m, n, slack) ==
  LET l == slack.launch
      c == slack.capture
      along(data) ==
        [launch_domain |-> l, capture_domain |-> c, slack |-> slack.time,
         delay         |-> calc_path_delay(data),
         startpoint    |-> Head(data).node,
         endpoint      |-> n,
         clock_launch  |-> trace_clock_launch_path(tags[m], l, c, Head(data).node),
         data_arrival  |-> data,
         clock_capture |-> trace_clock_capture_path(tags[m], l, c, n),
         data_required |-> [node |-> n,
                            tag  |-> LookedUp(tags[m][n]["DATA_REQUIRED"],
                                              Lookups("DATA_REQUIRED", l, c)),
                            edge |-> node_clock_capture_edge(n)]]
  IN  along(trace_data_arrival_path(tags[m], l, c, n))

(***************************************************************************)
(* The traces of the worst slacks of the logical outputs, worst first.     *)
(***************************************************************************)
EndpointSlacks(m) ==
  LET outputs == SetToSortSeq(logical_outputs, <)
  IN  FlattenSeq([i \in DOMAIN outputs |->
        LET n == outputs[i]
        IN  [j \in DOMAIN slacks[m][n] |-> [node |-> n, tag |-> slacks[m][n][j]]]])

Smallest(a, b) == IF a < b THEN a ELSE b
Largest(a, b)  == IF a > b THEN a ELSE b

collect_worst_timing_paths(m, npaths) ==
  LET worst == SortSeq(EndpointSlacks(m), LAMBDA a, b : Earlier(a.tag.time, b.tag.time))
  IN  [i \in 1 .. Smallest(Len(worst), Largest(npaths, 1)) |->
         trace_path(m, worst[i].node, worst[i].tag)]

(***************************************************************************)
(* The skew of each required time of each SINK, constant generators aside: *)
(* where there is no clock path, its end is the I/O time without the I/O   *)
(* delay.  A setup check is hurt by negative skew, a hold check by positive*)
(* skew.                                                                   *)
(***************************************************************************)
ClockArrival(path, otherwise) == IF path = <<>> THEN otherwise ELSE Last(path).tag.time

SkewPath(m, n, required) ==
  LET l == required.launch
      c == required.capture
      leaves(start, launch) ==
        ClockArrival(launch, Minus(start.tag.time, input_constraint(start.node, l, io_delay_type(m))))
      arrives(capture) ==
        IF capture = <<>> THEN Plus(required.time, output_constraint(n, c, io_delay_type(m)))
        ELSE Plus(Last(capture).tag.time, clock_uncertainty(m, l, c))
      timed(start, launch, capture, left, arrived) ==
        [launch_domain |-> l, capture_domain |-> c,
         data_launch_node |-> start.node, data_capture_node |-> n, start_tag |-> start.tag,
         clock_launch_path |-> launch, clock_capture_path |-> capture,
         clock_launch_arrival |-> left, clock_capture_arrival |-> arrived,
         clock_skew |-> Minus(Minus(arrived, left), clock_constraint(m, l, c, NoNode))]
      between(start, launch, capture) ==
        timed(start, launch, capture, leaves(start, launch), arrives(capture))
      from(start) == between(start, trace_clock_launch_path(tags[m], l, c, start.node),
                                    trace_clock_capture_path(tags[m], l, c, n))
  IN  from(Head(trace_data_arrival_path(tags[m], l, c, n)))

WorseSkew(m, p, q) == IF IsSetup(m) THEN Earlier(p.clock_skew, q.clock_skew)
                                    ELSE Later(p.clock_skew, q.clock_skew)

collect_worst_skew_paths(m, npaths) ==
  LET sinks == SetToSortSeq({n \in Nodes : node_type(n) = "SINK"}, <)
      all   == FlattenSeq([i \in DOMAIN sinks |->
                 LET reqs == tags[m][sinks[i]]["DATA_REQUIRED"]
                 IN  [j \in DOMAIN reqs |-> SkewPath(m, sinks[i], reqs[j])]])
      paths == SelectSeq(all, LAMBDA p : ~is_const_gen_tag(p.start_tag))
      worst == SortSeq(paths, LAMBDA p, q : WorseSkew(m, p, q))
  IN  SubSeq(worst, 1, Smallest(Len(worst), npaths))

(***************************************************************************)
(* The report adds up the parts of a path.  A sub-path goes on from time   *)
(* path; where the client's name resolver breaks an edge's delay down (it  *)
(* answers what the delay calculator does), the sum must be the tag's      *)
(* time.  agrees is FALSE where the code would have thrown or asserted.    *)
(***************************************************************************)
nearly_equal(a, b) == IsValid(a) /\ a = b

Sum(path, agrees) == [path |-> path, agrees |-> agrees]

edge_delay_breakdown(m, e) == data_edge_delay(m, delay, e)

AddElements(m, sum, elements) ==
  FoldLeft(LAMBDA acc, el :
             Sum(el.tag.time,
                 /\ acc.agrees
                 /\ \/ el.edge = NoEdge
                    \/ nearly_equal(Plus(acc.path, edge_delay_breakdown(m, el.edge)), el.tag.time)),
           sum, elements)

\* The latency of a launch, for the launch and the capture clock alike.
report_timing_clock_subpath(m, path, d, elements) ==
  AddElements(m, Sum(Plus(path, launch_source_latency(m, d)), TRUE), elements)

report_timing_clock_launch_subpath(m, l, elements) ==
  report_timing_clock_subpath(m, 0, l, elements)

report_timing_clock_capture_subpath(m, l, c, n, elements) ==
  LET uncertain(sum) == Sum(Plus(sum.path, clock_uncertainty(m, l, c)), sum.agrees)
  IN  uncertain(report_timing_clock_subpath(m, clock_constraint(m, l, c, n), c, elements))

report_timing_data_arrival_subpath(m, sum, l, elements) ==
  LET external == input_constraint(Head(elements).node, l, io_delay_type(m))
  IN  AddElements(m, IF IsValid(external) THEN Sum(Plus(sum.path, external), sum.agrees) ELSE sum,
                  elements)

\* Mutant: the output delay is left out.
report_timing_data_required_element_NoOutput(m, sum, c, el) ==
  Sum(IF el.edge # NoEdge THEN el.tag.time ELSE sum.path, sum.agrees)

report_timing_data_required_element(m, sum, c, el) ==
  LET external == output_constraint(el.node, c, io_delay_type(m))
      captured == IF el.edge # NoEdge THEN el.tag.time ELSE sum.path
  IN  Sum(IF IsValid(external) THEN Minus(captured, external) ELSE captured, sum.agrees)

report_timing_path(m, p) ==
  LET agree(arrived, required) ==
        /\ arrived.agrees /\ required.agrees
        /\ nearly_equal(Last(p.data_arrival).tag.time, arrived.path)
        /\ nearly_equal(p.data_required.tag.time, required.path)
        /\ nearly_equal(p.slack, calculate_slack(m, required.path, arrived.path))
  IN  agree(report_timing_data_arrival_subpath(
              m, report_timing_clock_launch_subpath(m, p.launch_domain, p.clock_launch),
              p.launch_domain, p.data_arrival),
            report_timing_data_required_element(
              m, report_timing_clock_capture_subpath(m, p.launch_domain, p.capture_domain,
                                                     p.endpoint, p.clock_capture),
              p.capture_domain, p.data_required))

report_skew_path(m, p) ==
  LET agree(launched, captured, period) ==
        /\ launched.agrees /\ captured.agrees
        /\ nearly_equal(launched.path, p.clock_launch_arrival)
        /\ nearly_equal(captured.path, p.clock_capture_arrival)
        /\ nearly_equal(Minus(Minus(captured.path, period), launched.path), p.clock_skew)
  IN  agree(report_timing_clock_launch_subpath(m, p.launch_domain, p.clock_launch_path),
            report_timing_clock_capture_subpath(m, p.launch_domain, p.capture_domain,
                                                p.data_capture_node, p.clock_capture_path),
            clock_constraint(m, p.launch_domain, p.capture_domain, NoNode))

(***************************************************************************)
(* find_critical_paths: per domain pair the largest constraint - slack     *)
(* over the logical outputs.                                               *)
(***************************************************************************)
CriticalPathDelay(slack) ==
  Minus(setup_constraint(slack.launch, slack.capture, NoNode), slack.time)

find_critical_paths ==
  LET all     == {x.tag : x \in ToSet(EndpointSlacks("setup"))}
      pairs   == {<<t.launch, t.capture>> : t \in all}
      cpds(p) == {CriticalPathDelay(t) : t \in {u \in all : <<u.launch, u.capture>> = p}}
  IN  [p \in pairs |-> Max(cpds(p))]

(***************************************************************************)
(* Properties, of every state in which the client may trust what it reads: *)
(* between updates, with nothing invalidated since the last.               *)
(***************************************************************************)
UpToDate == phase = "idle" /\ ~never_updated /\ invalidated = {}

AllPaths(m) == ToSet(collect_worst_timing_paths(m, Len(EndpointSlacks(m))))

AllSkewPaths(m) ==
  ToSet(collect_worst_skew_paths(m, Cardinality(Nodes) * Len(clock_domains) * Len(clock_domains)))

(***************************************************************************)
(* No trace fails: every tag it looks for is there and every origin is at  *)
(* the other end of an edge.  A path is launched by its launch clock or at *)
(* a constrained input, and captured by its capture clock or at a          *)
(* constrained output: the clock paths begin at the sources of the path's  *)
(* domains and end at the clock pins of its ends.                          *)
(***************************************************************************)
Connected(elements) ==
  \A i \in DOMAIN elements :
     /\ elements[i].tag # NoTag
     /\ i > 1 => elements[i].edge # NoEdge /\ edge_src_node(elements[i].edge) = elements[i - 1].node

FromClock(elements, d) == elements # <<>> /\ Head(elements).node = TC.source[d]

PathsRunFromClockToClock ==
  UpToDate => \A m \in Modes : \A p \in AllPaths(m) :
    LET l == p.launch_domain
        c == p.capture_domain
    IN  /\ Connected(p.clock_launch) /\ Connected(p.data_arrival) /\ Connected(p.clock_capture)
        /\ p.data_required.tag # NoTag
        /\ node_type(p.startpoint) = "SOURCE"
        /\ \/ FromClock(p.clock_launch, l)
           \/ IsValid(input_constraint(p.startpoint, l, io_delay_type(m)))
        /\ \/ FromClock(p.clock_capture, c)
           \/ IsValid(output_constraint(p.endpoint, c, io_delay_type(m)))

(***************************************************************************)
(* "Sanity check the arrival time calculated by this timing report and the *)
(* one calculated by the analyzer agree", and so for required times,       *)
(* slacks, delay breakdowns and skews: no report throws or asserts.        *)
(***************************************************************************)
ReportsAgree ==
  UpToDate => \A m \in Modes :
    /\ \A p \in AllPaths(m) : report_timing_path(m, p)
    /\ \A p \in AllSkewPaths(m) : report_skew_path(m, p)

(***************************************************************************)
(* A node of a traced data path is as critical as the path or more; the    *)
(* nodes of the worst path of two domains have that path's slack, the      *)
(* smallest of any node.                                                   *)
(***************************************************************************)
SlacksAt(m, n, l, c) ==
  {t.time : t \in {u \in ToSet(slacks[m][n]) : u.launch = l /\ u.capture = c}}

CriticalPathIsCritical ==
  UpToDate => \A m \in Modes : \A paths \in {AllPaths(m)} : \A p \in paths :
    LET at(n)  == SlacksAt(m, n, p.launch_domain, p.capture_domain)
        worst  == Min(UNION {at(n) : n \in Nodes})
        alike  == {q \in paths : q.launch_domain = p.launch_domain
                                  /\ q.capture_domain = p.capture_domain}
    IN  \A i \in DOMAIN p.data_arrival :
        \A here \in {at(p.data_arrival[i].node)} :
          /\ here # {} /\ worst <= Min(here) /\ Min(here) <= p.slack
          /\ p.slack = Min({q.slack : q \in alike}) => Min(here) = worst /\ worst = p.slack

(***************************************************************************)
(* "Intuitively, CPD is the smallest period we can run the launch clock at *)
(* while not violating the constraint": an analysis with the critical path *)
(* delay of two domains as their constraint finds a worst slack of 0.      *)
(***************************************************************************)
Constrained(tc) == INSTANCE SerialWalker WITH TC <- tc

WorstSlackAt(period, l, c) ==
  LET r == Constrained([TC EXCEPT !.setup[<<l, c, NoNode>>] = period])!full_update_timing("setup", delay)
  IN  Min({s[3] : s \in {t \in UNION {r[n].slacks : n \in logical_outputs} :
                         t[1] = l /\ t[2] = c}})

CriticalPathDelayIsTight ==
  UpToDate /\ "setup" \in Modes =>
    \A p \in DOMAIN find_critical_paths :
       WorstSlackAt(find_critical_paths[p], p[1], p[2]) = 0
==============================================================================
