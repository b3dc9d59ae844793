------------------------------ MODULE TimingTags -----------------------------
(***************************************************************************)
(* Timing tags, and the tag container of one node.  The container keeps    *)
(* the tags of each type together and in insertion order: it is a          *)
(* sequence per type.  Lookup is by clock domains, where an invalid domain *)
(* matches every domain, on either side; the first match in order wins.    *)
(***************************************************************************)
EXTENDS TatumBase, Sequences, SequencesExt

ArrivalTypes == {"CLOCK_LAUNCH", "CLOCK_CAPTURE", "DATA_ARRIVAL"}
TagTypes     == ArrivalTypes \cup {"DATA_REQUIRED"}

TimingTag(time, launch, capture, origin, type) ==
  [time |-> time, launch |-> launch, capture |-> capture,
   origin |-> origin, type |-> type]

NoTags == [type \in TagTypes |-> <<>>]

is_const_gen_tag(tag) ==
  tag.launch = NoDomain /\ tag.capture = NoDomain /\ IsInf(tag.time)

(***************************************************************************)
(* The position in seq of the first tag that matches the domains, 0 when   *)
(* there is none.                                                          *)
(***************************************************************************)
Agrees(d1, d2) == d1 = NoDomain \/ d2 = NoDomain \/ d1 = d2

find_matching_tag(seq, launch, capture) ==
  SelectInSeq(seq, LAMBDA t : Agrees(launch, t.launch) /\ Agrees(capture, t.capture))

set_tag(tags, tag) ==
  LET seq == tags[tag.type]
      i   == find_matching_tag(seq, tag.launch, tag.capture)
  IN  [tags EXCEPT ![tag.type] =
         IF i = 0 THEN Append(seq, tag)
         ELSE IF seq[i].time # tag.time \/ seq[i].origin # tag.origin
              THEN [seq EXCEPT ![i] = tag]
              ELSE seq]

(***************************************************************************)
(* TimingTag::update: a constant generator's tag takes the domains of the  *)
(* tag that replaces it.                                                   *)
(***************************************************************************)
update(tag, time, origin, base) ==
  IF is_const_gen_tag(tag)
  THEN TimingTag(time, base.launch, base.capture, origin, tag.type)
  ELSE [tag EXCEPT !.time = time, !.origin = origin]

(***************************************************************************)
(* TimingTags::max and ::min, which differ in the comparison alone: fold   *)
(* one value into the matching tag, or add it as a tag of its own.         *)
(* modified is their return value.                                         *)
(***************************************************************************)
Improves(side, a, b) == IF side = "max" THEN Later(a, b) ELSE Earlier(a, b)

MergeInto(seq, side, time, origin, base) ==
  LET i == find_matching_tag(seq, base.launch, base.capture)
  IN  IF i = 0
      THEN [seq |-> Append(seq, [base EXCEPT !.time = time, !.origin = origin]),
            modified |-> TRUE]
      ELSE IF ~IsValid(seq[i].time) \/ Improves(side, time, seq[i].time)
           THEN [seq |-> [seq EXCEPT ![i] = update(@, time, origin, base)],
                 modified |-> TRUE]
           ELSE [seq |-> seq, modified |-> FALSE]

(***************************************************************************)
(* A required time is merged only where a valid arrival of the same launch *)
(* domain exists.                                                          *)
(***************************************************************************)
HasValidArrival(tags, launch) ==
  LET i == find_matching_tag(tags["DATA_ARRIVAL"], launch, NoDomain)
  IN  i # 0 /\ IsValid(tags["DATA_ARRIVAL"][i].time)

(***************************************************************************)
(* Resetting the tags that came from some origins keeps them, with an      *)
(* invalid origin and a time every merge replaces.                         *)
(***************************************************************************)
ResetTags(seq, origins, time) ==
  [i \in DOMAIN seq |-> IF seq[i].origin \in origins
                        THEN [seq[i] EXCEPT !.time = time, !.origin = NoNode]
                        ELSE seq[i]]

ResetFrom(tags, types, origins, time) ==
  [type \in TagTypes |-> IF type \in types THEN ResetTags(tags[type], origins, time)
                                           ELSE tags[type]]

(***************************************************************************)
(* The timing a client reads from a container: the domains and times of    *)
(* its tags, by type.                                                      *)
(***************************************************************************)
View(tags) ==
  [type \in TagTypes |->
     {<<t.launch, t.capture, t.time>> : t \in ToSet(tags[type])}]
==============================================================================
