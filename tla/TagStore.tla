------------------------------- MODULE TagStore -------------------------------
(***************************************************************************)
(* The storage of a tag container: one array sorted by type, and counters  *)
(* of a few bits that say where the tags of a type end and the next begin. *)
(* The array grows by being moved: what pointed into it is then dangling.  *)
(***************************************************************************)
EXTENDS TimingTags

CONSTANTS DEFAULT_TAGS_TO_RESERVE, GROWTH_FACTOR,
          ArrivalSide, RequiredSide,   \* "max" and "min" in setup analysis
          CounterLimit,     \* 2^8: the per-type counters are unsigned char,
          SizeLimit,        \* 2^16: size and capacity unsigned short
          NodeTags,         \* the tags visitors put in a node's container,
          SlackTags,        \* and in its container of slacks
          CaptureDomains,   \* the capture clocks of a SINK, in order,
          RequiredTimes,    \* and what they may ask of its data
          MaxTags           \* bound on the tags in the container

ASSUME LimitsAssumption ==
  /\ DEFAULT_TAGS_TO_RESERVE \in Nat /\ GROWTH_FACTOR \in Nat \ {0, 1}
  /\ CounterLimit \in Nat \ {0} /\ SizeLimit \in Nat \ {0, 1}
  /\ DEFAULT_TAGS_TO_RESERVE < SizeLimit
  /\ {ArrivalSide, RequiredSide} \subseteq {"max", "min"}

IsTag(t) == t = TimingTag(t.time, t.launch, t.capture, t.origin, t.type)

\* Only the arrivals of constant generators have no launch domain; a required
\* time has both, and a SINK that is marked a capture clock.
ASSUME TagsAssumption ==
  /\ \A t \in NodeTags \cup SlackTags : IsTag(t)
  /\ \A t \in SlackTags : t.type = "SLACK"
  /\ \A t \in NodeTags : t.type = "DATA_ARRIVAL" => t.launch # NoDomain \/ is_const_gen_tag(t)
  /\ \A t \in NodeTags : t.type = "DATA_REQUIRED" => NoDomain \notin {t.launch, t.capture}
  /\ CaptureDomains \in Seq(Int) /\ CaptureDomains # <<>>
  /\ NoDomain \notin ToSet(CaptureDomains)

VARIABLES member,   \* which container of the node it is
          store,    \* the container
          marking   \* the arrivals mark_sink_required_times goes through

store_vars == <<member, store, marking>>

(***************************************************************************)
(* Segments.  Slacks are not counted: they are what is left.               *)
(***************************************************************************)
begin(s, type) ==
  CASE type = "CLOCK_LAUNCH"  -> 0
    [] type = "CLOCK_CAPTURE" -> s.num["CLOCK_LAUNCH"]
    [] type = "DATA_ARRIVAL"  -> s.num["CLOCK_LAUNCH"] + s.num["CLOCK_CAPTURE"]
    [] type = "DATA_REQUIRED" -> s.num["CLOCK_LAUNCH"] + s.num["CLOCK_CAPTURE"] + s.num["DATA_ARRIVAL"]
    [] type = "SLACK"         -> s.num["CLOCK_LAUNCH"] + s.num["CLOCK_CAPTURE"] + s.num["DATA_ARRIVAL"]
                                   + s.num["DATA_REQUIRED"]

end(s, type) == IF type = "SLACK" THEN s.size ELSE begin(s, type) + s.num[type]

tags_of(s, type) == [i \in 1 .. end(s, type) - begin(s, type) |-> s.tags[begin(s, type) + i - 1]]

(***************************************************************************)
(* A new container; its array holds default tags.                          *)
(***************************************************************************)
DefaultTag == TimingTag(NaN, NoDomain, NoDomain, NoNode, "UNKOWN")

NewStore(capacity) ==
  [size |-> 0, capacity |-> capacity, num |-> [type \in TagTypes |-> 0],
   tags |-> [i \in 0 .. capacity - 1 |-> DefaultTag]]

\* What lies behind the size is never read before it is written: it is default.
clear(s) == NewStore(s.capacity)

(***************************************************************************)
(* Insertion at an index, into the array or into a larger one it is moved  *)
(* to.                                                                     *)
(***************************************************************************)
Counted(num, type) ==
  IF type \in TagTypes THEN [num EXCEPT ![type] = (@ + 1) % CounterLimit] ELSE num

\* Mutant: required tags are counted as arrivals.
increment_size_Arrival(s, type) ==
  [s EXCEPT !.size = (@ + 1) % SizeLimit,
            !.num  = IF type \in TagTypes THEN Counted(@, "DATA_ARRIVAL") ELSE @]

increment_size(s, type) ==
  [s EXCEPT !.size = (@ + 1) % SizeLimit, !.num = Counted(@, type)]

Full(s) == s.capacity = 0 \/ s.capacity = s.size

GrownCapacity(s) == IF s.capacity = 0 THEN 1 ELSE (GROWTH_FACTOR * s.capacity) % SizeLimit

\* Mutant: what is behind the index is not moved.
grow_insert_NoTail(s, index, tag) ==
  LET new == NewStore(GrownCapacity(s))
  IN  increment_size(
        [new EXCEPT !.size = s.size, !.num = s.num,
                    !.tags = [i \in DOMAIN @ |-> IF i < index THEN s.tags[i]
                                                 ELSE IF i = index THEN tag ELSE @[i]]], tag.type)

grow_insert(s, index, tag) ==
  LET new == NewStore(GrownCapacity(s))
  IN  increment_size(
        [new EXCEPT !.size = s.size, !.num = s.num,
                    !.tags = [i \in DOMAIN @ |-> IF i < index THEN s.tags[i]
                                                 ELSE IF i = index THEN tag
                                                 ELSE IF i <= s.size THEN s.tags[i - 1]
                                                 ELSE @[i]]], tag.type)

insert(s, index, tag) ==
  IF Full(s) THEN grow_insert(s, index, tag)
  ELSE increment_size(
         [s EXCEPT !.tags = [i \in DOMAIN @ |-> IF index < i /\ i <= s.size THEN @[i - 1]
                                                ELSE IF i = index THEN tag ELSE @[i]]], tag.type)

add_tag(s, tag) == insert(s, end(s, tag.type), tag)

(***************************************************************************)
(* The linear search of a segment; its end when nothing matches.           *)
(***************************************************************************)
find_in_segment(s, type, launch, capture) ==
  LET hits == {i \in begin(s, type) .. end(s, type) - 1 :
                 Agrees(launch, s.tags[i].launch) /\ Agrees(capture, s.tags[i].capture)}
  IN  IF hits = {} THEN end(s, type) ELSE Min(hits)

store_set_tag(s, tag) ==
  LET i == find_in_segment(s, tag.type, tag.launch, tag.capture)
  IN  IF i = end(s, tag.type) THEN add_tag(s, tag)
      ELSE IF s.tags[i].time # tag.time \/ s.tags[i].origin # tag.origin
           THEN [s EXCEPT !.tags[i] = tag] ELSE s

store_merge(s, side, tag) ==
  LET i == find_in_segment(s, tag.type, tag.launch, tag.capture)
  IN  IF i = end(s, tag.type) THEN add_tag(s, tag)
      ELSE IF ~IsValid(s.tags[i].time) \/ Improves(side, tag.time, s.tags[i].time)
           THEN [s EXCEPT !.tags[i] = update(@, tag.time, tag.origin, tag)] ELSE s

HasArrival(s, launch) ==
  LET i == find_in_segment(s, "DATA_ARRIVAL", launch, NoDomain)
  IN  i # end(s, "DATA_ARRIVAL") /\ IsValid(s.tags[i].time)

(***************************************************************************)
(* Visits.  A tag is only added where the counters have room: the code does*)
(* not check, and 255 tags of a type fit, not the 256 of its comment.  An  *)
(* array is known by its capacity, which changes whenever it is moved.     *)
(***************************************************************************)
Origins == {NoNode} \cup {t.origin : t \in NodeTags \cup SlackTags}

NotMarking == [array |-> -1, arrivals |-> <<>>, next |-> 1, captures |-> <<>>]
OwnCopy    == -2

Init ==
  /\ member \in {"node_tags_", "node_slacks_"}
  /\ store = NewStore(DEFAULT_TAGS_TO_RESERVE)
  /\ marking = NotMarking

HasRoom(tag) ==
  find_in_segment(store, tag.type, tag.launch, tag.capture) = end(store, tag.type) =>
    /\ store.size < MaxTags
    /\ tag.type \in TagTypes => store.num[tag.type] + 1 < CounterLimit
    /\ Full(store) => GROWTH_FACTOR * store.capacity < SizeLimit

Visit(container) ==
  /\ member = container
  /\ marking = NotMarking
  /\ UNCHANGED <<member, marking>>

set_node_tag(tag) ==
  /\ Visit("node_tags_")
  /\ tag.type \in ArrivalTypes
  /\ HasRoom(tag)
  /\ store' = store_set_tag(store, tag)

merge_arr_tags(tag) ==
  /\ Visit("node_tags_")
  /\ HasRoom(tag)
  /\ tag.type \in ArrivalTypes
  /\ store' = store_merge(store, ArrivalSide, tag)

merge_req_tags(tag) ==
  /\ Visit("node_tags_")
  /\ HasRoom(tag)
  /\ tag.type = "DATA_REQUIRED"
  /\ HasArrival(store, tag.launch)
  /\ store' = store_merge(store, RequiredSide, tag)

merge_slack_tags(tag) ==
  /\ Visit("node_slacks_")
  /\ HasRoom(tag)
  /\ store' = store_merge(store, "min", tag)

\* A reset of the tags of some types, all of them or those from an origin.
do_reset(types, time) ==
  /\ marking = NotMarking
  /\ \E origins \in {Origins} \cup {{n} : n \in Origins \ {NoNode}} :
       store' = [store EXCEPT !.tags =
                   [i \in DOMAIN @ |->
                      IF /\ @[i].origin \in origins
                         /\ \E type \in types : i \in begin(store, type) .. end(store, type) - 1
                      THEN [@[i] EXCEPT !.time = time, !.origin = NoNode] ELSE @[i]]]
  /\ UNCHANGED <<member, marking>>

do_reset_node_arrival_tags  == do_reset(ArrivalTypes, IF ArrivalSide = "max" THEN NegInf ELSE PosInf)

do_reset_node_required_tags == do_reset({"DATA_REQUIRED"}, IF RequiredSide = "max" THEN NegInf ELSE PosInf)

do_reset_node_slack_tags    == do_reset({"SLACK"}, PosInf)

reset_node == marking = NotMarking /\ store' = clear(store) /\ UNCHANGED <<member, marking>>

(***************************************************************************)
(* mark_sink_required_times: for every capture clock and every arrival of  *)
(* the copy made first, a required time.  Dangling stands for what is read *)
(* through a pointer into an array that has been moved.                    *)
(***************************************************************************)
\* Mutant: the arrivals are iterated where they are.
node_data_arr_tags_InPlace(s) ==
  [array |-> s.capacity, arrivals |-> tags_of(s, "DATA_ARRIVAL"), next |-> 1,
   captures |-> CaptureDomains]

node_data_arr_tags(s) ==
  [array |-> OwnCopy, arrivals |-> tags_of(s, "DATA_ARRIVAL"), next |-> 1,
   captures |-> CaptureDomains]

mark_sink_required_times ==
  /\ member = "node_tags_"
  /\ marking = NotMarking
  /\ store.num["DATA_ARRIVAL"] > 0
  /\ marking' = node_data_arr_tags(store)
  /\ UNCHANGED <<member, store>>

Dangling == DefaultTag

Read(range) == IF range.array \in {OwnCopy, store.capacity} THEN range.arrivals[range.next]
               ELSE Dangling

Advanced(range) ==
  IF range.next < Len(range.arrivals) THEN [range EXCEPT !.next = @ + 1]
  ELSE IF Len(range.captures) > 1 THEN [range EXCEPT !.next = 1, !.captures = Tail(@)]
  ELSE NotMarking

RequiredPair(arrival, capture) ==
  <<IF is_const_gen_tag(arrival) THEN capture ELSE arrival.launch, capture>>

MarkNext ==
  /\ marking # NotMarking
  /\ \E time \in RequiredTimes :
       LET pair == RequiredPair(Read(marking), Head(marking.captures))
           tag  == TimingTag(time, pair[1], pair[2], NoNode, "DATA_REQUIRED")
       IN  /\ HasRoom(tag)
           /\ store' = store_merge(store, RequiredSide, tag)
  /\ marking' = Advanced(marking)
  /\ UNCHANGED member

Next ==
  \/ \E tag \in NodeTags  : set_node_tag(tag) \/ merge_arr_tags(tag) \/ merge_req_tags(tag)
  \/ \E tag \in SlackTags : merge_slack_tags(tag)
  \/ do_reset_node_arrival_tags \/ do_reset_node_required_tags \/ do_reset_node_slack_tags
  \/ reset_node
  \/ mark_sink_required_times \/ MarkNext

Spec == Init /\ [][Next]_store_vars

(***************************************************************************)
(* Properties                                                              *)
(***************************************************************************)

(***************************************************************************)
(* The array is sorted by type, the segments are where the counters say    *)
(* and fill it up to its size.                                             *)
(***************************************************************************)
AllTypes == TagTypes \cup {"SLACK"}

SegmentsHoldTypes ==
  /\ begin(store, "SLACK") <= store.size /\ store.size <= store.capacity
  /\ DOMAIN store.tags = 0 .. store.capacity - 1
  /\ \A type \in AllTypes : \A i \in begin(store, type) .. end(store, type) - 1 :
       store.tags[i].type = type

(***************************************************************************)
(* The refinement: whatever is inserted, moved and reset, visitors find the*)
(* tags of every type, in order.                                           *)
(***************************************************************************)
MarkedTags == {TimingTag(time, launch, capture, NoNode, "DATA_REQUIRED") :
                 time \in RequiredTimes,
                 launch \in {t.launch : t \in NodeTags} \cup ToSet(CaptureDomains),
                 capture \in ToSet(CaptureDomains)}

Puts == NodeTags \cup SlackTags \cup MarkedTags

Container == INSTANCE TagContainer WITH
               Arguments <- Puts, tags <- [type \in AllTypes |-> tags_of(store, type)]

VisitorSeesContainer == Container!Spec

(***************************************************************************)
(* When a SINK has been marked, every arrival has a required time for every*)
(* capture clock.                                                          *)
(***************************************************************************)
EveryArrivalRequired ==
  [][marking # NotMarking /\ marking' = NotMarking =>
       \A arrival \in ToSet(tags_of(store, "DATA_ARRIVAL")), c \in ToSet(CaptureDomains) :
         \E r \in ToSet(tags_of(store', "DATA_REQUIRED")) :
            <<r.launch, r.capture>> = RequiredPair(arrival, c)]_store_vars
==============================================================================
