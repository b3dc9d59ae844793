---------------------------- MODULE TagStore_proofs ----------------------------
(***************************************************************************)
(* The segments of the tag array, for every growth factor, every initial   *)
(* reserve, every width of the counters and every tag.                     *)
(***************************************************************************)
EXTENDS TagStore, TatumLemmas, SequenceTheorems

Sorted(s) ==
  \A type \in AllTypes : \A i \in begin(s, type) .. end(s, type) - 1 : s.tags[i].type = type

StoreOK(s) ==
  /\ DOMAIN s = {"size", "capacity", "num", "tags"}
  /\ s.size \in Nat /\ s.capacity \in Nat /\ s.capacity < SizeLimit
  /\ s.num \in [TagTypes -> Nat]
  /\ DOMAIN s.tags = 0 .. s.capacity - 1
  /\ \A i \in 0 .. s.capacity - 1 : IsTag(s.tags[i])
  /\ begin(s, "SLACK") <= s.size /\ s.size <= s.capacity
  /\ Sorted(s)

(***************************************************************************)
(* The segments follow each other, from 0 to the size.                     *)
(***************************************************************************)
LEMMA TypesListed ==
  \A type \in AllTypes : type \in {"CLOCK_LAUNCH", "CLOCK_CAPTURE", "DATA_ARRIVAL",
                                   "DATA_REQUIRED", "SLACK"}
BY DEF AllTypes, TagTypes, ArrivalTypes

LEMMA CountersAreNat ==
  ASSUME NEW s, s.num \in [TagTypes -> Nat]
  PROVE  /\ s.num["CLOCK_LAUNCH"] \in Nat /\ s.num["CLOCK_CAPTURE"] \in Nat
         /\ s.num["DATA_ARRIVAL"] \in Nat /\ s.num["DATA_REQUIRED"] \in Nat
BY DEF TagTypes, ArrivalTypes

LEMMA Begins ==
  ASSUME NEW s
  PROVE  /\ begin(s, "CLOCK_LAUNCH") = 0
         /\ begin(s, "CLOCK_CAPTURE") = s.num["CLOCK_LAUNCH"]
         /\ begin(s, "DATA_ARRIVAL") = s.num["CLOCK_LAUNCH"] + s.num["CLOCK_CAPTURE"]
         /\ begin(s, "DATA_REQUIRED") =
              s.num["CLOCK_LAUNCH"] + s.num["CLOCK_CAPTURE"] + s.num["DATA_ARRIVAL"]
         /\ begin(s, "SLACK") =
              s.num["CLOCK_LAUNCH"] + s.num["CLOCK_CAPTURE"] + s.num["DATA_ARRIVAL"]
                + s.num["DATA_REQUIRED"]
<1>1. begin(s, "CLOCK_LAUNCH") = 0
  BY Zenon DEF begin
<1>2. begin(s, "CLOCK_CAPTURE") = s.num["CLOCK_LAUNCH"]
  BY Zenon DEF begin
<1>3. begin(s, "DATA_ARRIVAL") = s.num["CLOCK_LAUNCH"] + s.num["CLOCK_CAPTURE"]
  BY Zenon DEF begin
<1>4. begin(s, "DATA_REQUIRED") =
        s.num["CLOCK_LAUNCH"] + s.num["CLOCK_CAPTURE"] + s.num["DATA_ARRIVAL"]
  BY Zenon DEF begin
<1>5. begin(s, "SLACK") =
        s.num["CLOCK_LAUNCH"] + s.num["CLOCK_CAPTURE"] + s.num["DATA_ARRIVAL"]
          + s.num["DATA_REQUIRED"]
  BY Zenon DEF begin
<1>. QED
  BY <1>1, <1>2, <1>3, <1>4, <1>5

LEMMA SegmentBounds ==
  ASSUME NEW s, StoreOK(s), NEW type \in AllTypes
  PROVE  /\ begin(s, type) \in Nat /\ end(s, type) \in Nat
         /\ begin(s, type) <= end(s, type) /\ end(s, type) <= s.size
<1>1. /\ s.num["CLOCK_LAUNCH"] \in Nat /\ s.num["CLOCK_CAPTURE"] \in Nat
      /\ s.num["DATA_ARRIVAL"] \in Nat /\ s.num["DATA_REQUIRED"] \in Nat
  BY CountersAreNat DEF StoreOK
<1>2. s.size \in Nat /\ begin(s, "SLACK") <= s.size
  BY DEF StoreOK
<1>. QED
  BY <1>1, <1>2, Begins, TypesListed DEF end

LEMMA NewStoreOK ==
  ASSUME NEW capacity \in Nat, capacity < SizeLimit
  PROVE  StoreOK(NewStore(capacity))
<1>. DEFINE s == NewStore(capacity)
<1>1. /\ DOMAIN s = {"size", "capacity", "num", "tags"}
      /\ s.size = 0 /\ s.capacity = capacity
      /\ s.tags = [i \in 0 .. capacity - 1 |-> DefaultTag]
      /\ s.num = [type \in TagTypes |-> 0]
  BY DEF NewStore
<1>2. IsTag(DefaultTag)
  BY DEF IsTag, DefaultTag, TimingTag
<1>3. /\ s.num["CLOCK_LAUNCH"] = 0 /\ s.num["CLOCK_CAPTURE"] = 0
      /\ s.num["DATA_ARRIVAL"] = 0 /\ s.num["DATA_REQUIRED"] = 0
  BY <1>1 DEF TagTypes, ArrivalTypes
<1>. HIDE DEF s
<1>4. \A type \in AllTypes : begin(s, type) = 0 /\ end(s, type) = 0
  BY <1>1, <1>3, TypesListed, Begins DEF end
<1>5. Sorted(s)
  BY <1>4 DEF Sorted
<1>6. begin(s, "SLACK") = 0
  BY <1>4 DEF AllTypes
<1>7. StoreOK(s)
  BY <1>1, <1>2, <1>5, <1>6 DEF StoreOK
<1>. QED
  BY <1>7 DEF s

(***************************************************************************)
(* An insertion at the end of a segment: the segments before it stay where *)
(* they are, those behind it move by one.                                  *)
(***************************************************************************)
OneMore(num, type) == IF type \in TagTypes THEN [num EXCEPT ![type] = @ + 1] ELSE num

LEMMA SegmentsShift ==
  ASSUME NEW s, StoreOK(s), NEW r, NEW type \in AllTypes, NEW t \in AllTypes,
         r.size = s.size + 1, r.num = OneMore(s.num, type)
  PROVE  \/ t = type /\ begin(r, t) = begin(s, t) /\ end(r, t) = end(s, t) + 1
         \/ /\ t # type /\ end(s, t) <= end(s, type)
            /\ begin(r, t) = begin(s, t) /\ end(r, t) = end(s, t)
         \/ /\ t # type /\ begin(s, t) >= end(s, type)
            /\ begin(r, t) = begin(s, t) + 1 /\ end(r, t) = end(s, t) + 1
<1>1. /\ s.num["CLOCK_LAUNCH"] \in Nat /\ s.num["CLOCK_CAPTURE"] \in Nat
      /\ s.num["DATA_ARRIVAL"] \in Nat /\ s.num["DATA_REQUIRED"] \in Nat
  BY CountersAreNat DEF StoreOK
<1>2. s.size \in Nat /\ begin(s, "SLACK") <= s.size
  BY DEF StoreOK
<1>3. \A x \in TagTypes : r.num[x] = IF x = type THEN s.num[x] + 1 ELSE s.num[x]
  BY DEF OneMore, StoreOK
<1>4. {"CLOCK_LAUNCH", "CLOCK_CAPTURE", "DATA_ARRIVAL", "DATA_REQUIRED"} \subseteq TagTypes
  BY DEF TagTypes, ArrivalTypes
<1>5. CASE type = "CLOCK_LAUNCH"
  <2>1. CASE t = "CLOCK_LAUNCH"
    BY <1>1, <1>2, <1>3, <1>4, <1>5, <2>1, Begins DEF end
  <2>2. CASE t # "CLOCK_LAUNCH"
    BY <1>1, <1>2, <1>3, <1>4, <1>5, <2>2, Begins, TypesListed DEF end
  <2>. QED
    BY <2>1, <2>2
<1>6. CASE type = "CLOCK_CAPTURE"
  BY <1>1, <1>2, <1>3, <1>4, <1>6, Begins, TypesListed DEF end
<1>7. CASE type = "DATA_ARRIVAL"
  BY <1>1, <1>2, <1>3, <1>4, <1>7, Begins, TypesListed DEF end
<1>8. CASE type = "DATA_REQUIRED"
  BY <1>1, <1>2, <1>3, <1>4, <1>8, Begins, TypesListed DEF end
<1>9. CASE type = "SLACK"
  BY <1>1, <1>2, <1>3, <1>4, <1>9, Begins, TypesListed DEF end
<1>. QED
  BY <1>5, <1>6, <1>7, <1>8, <1>9, TypesListed

\* The tag is put behind its segment, and what follows it moves.
Moved(s, tag, r) ==
  /\ r.size = s.size + 1 /\ r.num = OneMore(s.num, tag.type)
  /\ \A i \in 0 .. s.size : r.tags[i] = IF i < end(s, tag.type) THEN s.tags[i]
                                        ELSE IF i = end(s, tag.type) THEN tag
                                        ELSE s.tags[i - 1]

LEMMA InsertSorted ==
  ASSUME NEW s, StoreOK(s), NEW r, NEW tag, tag.type \in AllTypes,
         Moved(s, tag, r)
  PROVE  begin(r, "SLACK") <= r.size /\ Sorted(r)
<1>. USE DEF Moved
<1>1. s.size \in Nat /\ Sorted(s)
  BY DEF StoreOK
<1>2. begin(r, "SLACK") <= r.size
  <2>1. "SLACK" \in AllTypes
    BY DEF AllTypes
  <2>2. end(s, "SLACK") = s.size /\ end(r, "SLACK") = r.size
    BY DEF end
  <2>. QED
    BY <1>1, <2>1, <2>2, SegmentsShift, SegmentBounds
<1>3. SUFFICES ASSUME NEW t \in AllTypes, NEW i \in begin(r, t) .. end(r, t) - 1
               PROVE  r.tags[i].type = t
  BY <1>2 DEF Sorted
<1>4. /\ begin(s, t) \in Nat /\ end(s, t) \in Nat /\ end(s, t) <= s.size
      /\ end(s, tag.type) \in Nat /\ end(s, tag.type) <= s.size
  BY SegmentBounds
<1>5. \A j \in begin(s, t) .. end(s, t) - 1 : s.tags[j].type = t
  BY <1>1 DEF Sorted
<1>6. \/ t = tag.type /\ begin(r, t) = begin(s, t) /\ end(r, t) = end(s, t) + 1
      \/ begin(r, t) = begin(s, t) /\ end(r, t) = end(s, t) /\ end(s, t) <= end(s, tag.type)
      \/ begin(r, t) = begin(s, t) + 1 /\ end(r, t) = end(s, t) + 1
           /\ begin(s, t) >= end(s, tag.type)
  BY SegmentsShift
<1>7. i \in 0 .. s.size
  BY <1>1, <1>4, <1>6
<1>. QED
  BY <1>1, <1>4, <1>5, <1>6, <1>7

LEMMA RemainderOfSmaller ==
  ASSUME NEW x \in Nat, NEW n \in Nat, x < n
  PROVE  x % n = x
OBVIOUS

LEMMA TwiceAtLeast ==
  ASSUME NEW factor \in Nat \ {0, 1}, NEW x \in Nat
  PROVE  factor * x \in Nat /\ factor * x >= 2 * x
<1>1. (factor - 2) * x \in Nat
  OBVIOUS
<1>. QED
  BY <1>1

(***************************************************************************)
(* The counters' arithmetic does not wrap where there is room.             *)
(***************************************************************************)
Room(s, type) ==
  /\ type \in TagTypes => s.num[type] + 1 < CounterLimit
  /\ Full(s) => GROWTH_FACTOR * s.capacity < SizeLimit

LEMMA GrownCapacityOK ==
  ASSUME NEW s, StoreOK(s), Full(s), GROWTH_FACTOR * s.capacity < SizeLimit
  PROVE  /\ GrownCapacity(s) \in Nat
         /\ s.size + 1 <= GrownCapacity(s) /\ GrownCapacity(s) < SizeLimit
<1>1. /\ s.size \in Nat /\ s.capacity \in Nat /\ s.size <= s.capacity
      /\ GROWTH_FACTOR \in Nat \ {0, 1} /\ SizeLimit \in Nat /\ 1 < SizeLimit
  BY LimitsAssumption DEF StoreOK
<1>2. CASE s.capacity = 0
  BY <1>1, <1>2 DEF GrownCapacity
<1>3. CASE s.capacity # 0
  <2>1. GROWTH_FACTOR * s.capacity \in Nat /\ GROWTH_FACTOR * s.capacity >= 2 * s.capacity
    BY <1>1, TwiceAtLeast
  <2>2. GrownCapacity(s) = GROWTH_FACTOR * s.capacity
    BY <1>1, <1>3, <2>1, RemainderOfSmaller DEF GrownCapacity
  <2>. QED
    BY <1>1, <1>3, <2>1, <2>2
<1>. QED
  BY <1>2, <1>3

LEMMA IncrementSize ==
  ASSUME NEW s, NEW type, s.size \in Nat, s.num \in [TagTypes -> Nat],
         DOMAIN s = {"size", "capacity", "num", "tags"},
         s.size + 1 < SizeLimit, type \in TagTypes => s.num[type] + 1 < CounterLimit
  PROVE  /\ DOMAIN increment_size(s, type) = DOMAIN s
         /\ increment_size(s, type).size = s.size + 1
         /\ increment_size(s, type).capacity = s.capacity
         /\ increment_size(s, type).num = OneMore(s.num, type)
         /\ increment_size(s, type).tags = s.tags
<1>1. SizeLimit \in Nat /\ CounterLimit \in Nat
  BY LimitsAssumption
<1>2. (s.size + 1) % SizeLimit = s.size + 1
  <2>1. s.size + 1 \in Nat
    OBVIOUS
  <2>. QED
    BY <1>1, <2>1, RemainderOfSmaller
<1>3. Counted(s.num, type) = OneMore(s.num, type)
  <2>1. CASE type \in TagTypes
    <3>1. s.num[type] + 1 \in Nat /\ s.num[type] + 1 < CounterLimit
      BY <2>1
    <3>2. (s.num[type] + 1) % CounterLimit = s.num[type] + 1
      BY <1>1, <3>1, RemainderOfSmaller
    <3>. QED
      BY <2>1, <3>2 DEF Counted, OneMore
  <2>2. CASE type \notin TagTypes
    BY <2>2 DEF Counted, OneMore
  <2>. QED
    BY <2>1, <2>2
<1>. QED
  BY <1>2, <1>3 DEF increment_size

(***************************************************************************)
(* Adding a tag keeps the array sorted, moved or not.                      *)
(***************************************************************************)
LEMMA AddTagMoves ==
  ASSUME NEW s, StoreOK(s), NEW tag, tag.type \in AllTypes, Room(s, tag.type),
         NEW r, r = add_tag(s, tag)
  PROVE  /\ r.capacity \in Nat /\ s.size + 1 <= r.capacity /\ r.capacity < SizeLimit
         /\ DOMAIN r = {"size", "capacity", "num", "tags"} /\ DOMAIN r.tags = 0 .. r.capacity - 1
         /\ Moved(s, tag, r)
         /\ \A i \in s.size + 1 .. r.capacity - 1 : IsTag(r.tags[i])
<1>. DEFINE index == end(s, tag.type)
<1>1. /\ s.size \in Nat /\ s.capacity \in Nat /\ s.size <= s.capacity /\ s.capacity < SizeLimit
      /\ s.num \in [TagTypes -> Nat] /\ SizeLimit \in Nat
      /\ DOMAIN s = {"size", "capacity", "num", "tags"} /\ DOMAIN s.tags = 0 .. s.capacity - 1
      /\ \A i \in 0 .. s.capacity - 1 : IsTag(s.tags[i])
  BY LimitsAssumption DEF StoreOK
<1>2. index \in Nat /\ index <= s.size
  BY SegmentBounds
<1>3. IsTag(DefaultTag)
  BY DEF IsTag, DefaultTag, TimingTag
<1>4. CASE Full(s)
  <2>. DEFINE capacity == GrownCapacity(s)
              moved == [i \in 0 .. capacity - 1 |->
                          IF i < index THEN s.tags[i] ELSE IF i = index THEN tag
                          ELSE IF i <= s.size THEN s.tags[i - 1] ELSE DefaultTag]
              new == [NewStore(capacity) EXCEPT !.size = s.size, !.num = s.num,
                        !.tags = [i \in DOMAIN @ |->
                                    IF i < index THEN s.tags[i] ELSE IF i = index THEN tag
                                    ELSE IF i <= s.size THEN s.tags[i - 1] ELSE @[i]]]
  <2>1. capacity \in Nat /\ s.size + 1 <= capacity /\ capacity < SizeLimit
    BY <1>4, GrownCapacityOK DEF Room
  <2>2. r = increment_size(new, tag.type)
    BY <1>4 DEF add_tag, insert, grow_insert
  <2>3. /\ DOMAIN NewStore(capacity) = {"size", "capacity", "num", "tags"}
        /\ NewStore(capacity).capacity = capacity
        /\ NewStore(capacity).tags = [i \in 0 .. capacity - 1 |-> DefaultTag]
    BY DEF NewStore
  <2>4. /\ DOMAIN new = {"size", "capacity", "num", "tags"}
        /\ new.size = s.size /\ new.capacity = capacity /\ new.num = s.num
        /\ new.tags = moved
    BY <2>3
  <2>. HIDE DEF new, moved, capacity
  <2>5. /\ DOMAIN r = {"size", "capacity", "num", "tags"}
        /\ r.size = s.size + 1 /\ r.capacity = capacity /\ r.num = OneMore(s.num, tag.type)
        /\ r.tags = moved
    BY <1>1, <2>1, <2>2, <2>4, IncrementSize DEF Room
  <2>6. DOMAIN r.tags = 0 .. capacity - 1
    BY <2>5 DEF moved
  <2>7. \A i \in 0 .. s.size : r.tags[i] = IF i < index THEN s.tags[i]
                                           ELSE IF i = index THEN tag
                                           ELSE s.tags[i - 1]
    BY <1>1, <2>1, <2>5 DEF moved
  <2>8. \A i \in s.size + 1 .. capacity - 1 : r.tags[i] = DefaultTag
    BY <1>1, <1>2, <2>1, <2>5 DEF moved
  <2>. QED
    BY <1>3, <2>1, <2>5, <2>6, <2>7, <2>8 DEF Moved
<1>5. CASE ~Full(s)
  <2>. DEFINE moved == [i \in 0 .. s.capacity - 1 |->
                          IF index < i /\ i <= s.size THEN s.tags[i - 1]
                          ELSE IF i = index THEN tag ELSE s.tags[i]]
              new == [s EXCEPT !.tags = [i \in DOMAIN @ |->
                                           IF index < i /\ i <= s.size THEN @[i - 1]
                                           ELSE IF i = index THEN tag ELSE @[i]]]
  <2>1. s.size + 1 <= s.capacity
    BY <1>1, <1>5 DEF Full
  <2>2. r = increment_size(new, tag.type)
    BY <1>5 DEF add_tag, insert
  <2>4. /\ DOMAIN new = {"size", "capacity", "num", "tags"}
        /\ new.size = s.size /\ new.capacity = s.capacity /\ new.num = s.num
        /\ new.tags = moved
    BY <1>1
  <2>. HIDE DEF new, moved
  <2>5. /\ DOMAIN r = {"size", "capacity", "num", "tags"}
        /\ r.size = s.size + 1 /\ r.capacity = s.capacity /\ r.num = OneMore(s.num, tag.type)
        /\ r.tags = moved
    BY <1>1, <2>1, <2>2, <2>4, IncrementSize DEF Room
  <2>6. DOMAIN r.tags = 0 .. s.capacity - 1
    BY <2>5 DEF moved
  <2>7. \A i \in 0 .. s.size : r.tags[i] = IF i < index THEN s.tags[i]
                                           ELSE IF i = index THEN tag
                                           ELSE s.tags[i - 1]
    BY <1>1, <1>2, <2>1, <2>5 DEF moved
  <2>8. \A i \in s.size + 1 .. s.capacity - 1 : r.tags[i] = s.tags[i] /\ i \in 0 .. s.capacity - 1
    BY <1>1, <1>2, <2>1, <2>5 DEF moved
  <2>. QED
    BY <1>1, <2>1, <2>5, <2>6, <2>7, <2>8 DEF Moved
<1>. QED
  BY <1>4, <1>5

LEMMA AddTagOK ==
  ASSUME NEW s, StoreOK(s), NEW tag, IsTag(tag), tag.type \in AllTypes, Room(s, tag.type)
  PROVE  StoreOK(add_tag(s, tag))
<1>. DEFINE index == end(s, tag.type)
            r     == add_tag(s, tag)
<1>1. /\ s.size \in Nat /\ s.capacity \in Nat /\ s.size <= s.capacity /\ s.capacity < SizeLimit
      /\ s.num \in [TagTypes -> Nat] /\ SizeLimit \in Nat
      /\ DOMAIN s = {"size", "capacity", "num", "tags"} /\ DOMAIN s.tags = 0 .. s.capacity - 1
      /\ \A i \in 0 .. s.capacity - 1 : IsTag(s.tags[i])
  BY LimitsAssumption DEF StoreOK
<1>2. index \in Nat /\ index <= s.size
  BY SegmentBounds
<1>4. /\ r.capacity \in Nat /\ s.size + 1 <= r.capacity /\ r.capacity < SizeLimit
      /\ DOMAIN r = {"size", "capacity", "num", "tags"} /\ DOMAIN r.tags = 0 .. r.capacity - 1
      /\ Moved(s, tag, r)
      /\ \A i \in s.size + 1 .. r.capacity - 1 : IsTag(r.tags[i])
  BY AddTagMoves
<1>. HIDE DEF index, r
<1>5. begin(r, "SLACK") <= r.size /\ Sorted(r)
  BY <1>4, InsertSorted
<1>6. \A i \in 0 .. r.capacity - 1 : IsTag(r.tags[i])
  <2>1. SUFFICES ASSUME NEW i \in 0 .. r.capacity - 1, i \in 0 .. s.size PROVE IsTag(r.tags[i])
    BY <1>1, <1>4 DEF Moved
  <2>2. \/ i < index /\ r.tags[i] = s.tags[i] /\ i \in 0 .. s.capacity - 1
        \/ r.tags[i] = tag
        \/ r.tags[i] = s.tags[i - 1] /\ i - 1 \in 0 .. s.capacity - 1
    BY <1>1, <1>2, <1>4, <2>1 DEF Moved, index
  <2>. QED
    BY <1>1, <2>2
<1>7. r.num \in [TagTypes -> Nat]
  BY <1>1, <1>4 DEF OneMore, Moved
<1>8. StoreOK(r)
  BY <1>1, <1>4, <1>5, <1>6, <1>7 DEF StoreOK, Moved
<1>. QED
  BY <1>8 DEF r

(***************************************************************************)
(* Whatever replaces tags by tags of the same type keeps the array sorted. *)
(***************************************************************************)
LEMMA SameTypesOK ==
  ASSUME NEW s, StoreOK(s), NEW r, DOMAIN r = DOMAIN s,
         r.size = s.size, r.capacity = s.capacity, r.num = s.num, DOMAIN r.tags = DOMAIN s.tags,
         \A i \in DOMAIN s.tags : IsTag(r.tags[i]) /\ r.tags[i].type = s.tags[i].type
  PROVE  StoreOK(r)
<1>1. \A type \in AllTypes : begin(r, type) = begin(s, type) /\ end(r, type) = end(s, type)
  BY Begins, TypesListed DEF end
<1>2. begin(r, "SLACK") = begin(s, "SLACK")
  BY <1>1 DEF AllTypes
<1>3. Sorted(r)
  <2>1. SUFFICES ASSUME NEW type \in AllTypes, NEW i \in begin(s, type) .. end(s, type) - 1
                 PROVE  r.tags[i].type = type
    BY <1>1 DEF Sorted
  <2>2. s.tags[i].type = type
    BY DEF StoreOK, Sorted
  <2>3. i \in DOMAIN s.tags
    <3>1. /\ begin(s, type) \in Nat /\ end(s, type) \in Nat /\ end(s, type) <= s.size
          /\ s.size \in Nat /\ s.capacity \in Nat /\ s.size <= s.capacity
          /\ DOMAIN s.tags = 0 .. s.capacity - 1
      BY SegmentBounds DEF StoreOK
    <3>. QED
      BY <3>1
  <2>. QED
    BY <2>2, <2>3
<1>. QED
  BY <1>2, <1>3 DEF StoreOK

LEMMA InArray ==
  ASSUME NEW s, StoreOK(s), NEW type \in AllTypes, NEW i \in begin(s, type) .. end(s, type) - 1
  PROVE  i \in DOMAIN s.tags /\ IsTag(s.tags[i]) /\ s.tags[i].type = type
<1>1. /\ begin(s, type) \in Nat /\ end(s, type) \in Nat /\ end(s, type) <= s.size
      /\ s.size \in Nat /\ s.capacity \in Nat /\ s.size <= s.capacity
      /\ DOMAIN s.tags = 0 .. s.capacity - 1
  BY SegmentBounds DEF StoreOK
<1>2. i \in 0 .. s.capacity - 1
  BY <1>1
<1>. QED
  BY <1>1, <1>2 DEF StoreOK, Sorted

LEMMA ReplaceOK ==
  ASSUME NEW s, StoreOK(s), NEW i \in DOMAIN s.tags, NEW tag, IsTag(tag), tag.type = s.tags[i].type
  PROVE  StoreOK([s EXCEPT !.tags[i] = tag])
<1>. DEFINE r == [s EXCEPT !.tags[i] = tag]
<1>1. /\ DOMAIN s = {"size", "capacity", "num", "tags"}
      /\ \A j \in DOMAIN s.tags : IsTag(s.tags[j])
  BY DEF StoreOK
<1>2. /\ DOMAIN r = DOMAIN s /\ r.size = s.size /\ r.capacity = s.capacity /\ r.num = s.num
      /\ r.tags = [s.tags EXCEPT ![i] = tag]
  BY <1>1
<1>. HIDE DEF r
<1>3. /\ DOMAIN r.tags = DOMAIN s.tags
      /\ \A j \in DOMAIN s.tags : r.tags[j] = IF j = i THEN tag ELSE s.tags[j]
  BY <1>2
<1>4. StoreOK(r)
  BY SMTT(30), <1>1, <1>2, <1>3, SameTypesOK
<1>. QED
  BY <1>4 DEF r

LEMMA FoundInSegment ==
  ASSUME NEW s, StoreOK(s), NEW type \in AllTypes, NEW launch, NEW capture,
         find_in_segment(s, type, launch, capture) # end(s, type)
  PROVE  find_in_segment(s, type, launch, capture) \in begin(s, type) .. end(s, type) - 1
<1>. DEFINE hits == {i \in begin(s, type) .. end(s, type) - 1 :
                       Agrees(launch, s.tags[i].launch) /\ Agrees(capture, s.tags[i].capture)}
<1>1. hits \subseteq Nat
  <2>1. begin(s, type) \in Nat /\ end(s, type) \in Nat
    BY SegmentBounds
  <2>. QED
    BY <2>1
<1>2. hits # {} /\ find_in_segment(s, type, launch, capture) = Min(hits)
  BY DEF find_in_segment
<1>3. Min(hits) \in hits
  BY <1>1, <1>2, MinOfNaturals, Zenon
<1>. QED
  BY <1>2, <1>3

(***************************************************************************)
(* Setting, merging and resetting.                                         *)
(***************************************************************************)
Found(s, tag) == find_in_segment(s, tag.type, tag.launch, tag.capture)

LEMMA Retimed ==
  ASSUME NEW tag, IsTag(tag), NEW time, NEW origin
  PROVE  [tag EXCEPT !.time = time, !.origin = origin] =
           TimingTag(time, tag.launch, tag.capture, origin, tag.type)
<1>. DEFINE f == [x \in DOMAIN tag |-> IF x = "time" THEN time
                                      ELSE IF x = "origin" THEN origin ELSE tag[x]]
<1>1. PICK a, b, c, d, e : tag = TimingTag(a, b, c, d, e)
  BY Zenon DEF IsTag
<1>2. [tag EXCEPT !.time = time, !.origin = origin] = f
  OBVIOUS
<1>3. f = TimingTag(time, b, c, origin, e)
  BY <1>1 DEF TimingTag
<1>4. b = tag.launch /\ c = tag.capture /\ e = tag.type
  BY <1>1 DEF TimingTag
<1>. QED
  BY <1>2, <1>3, <1>4

LEMMA TagFields ==
  ASSUME NEW time, NEW launch, NEW capture, NEW origin, NEW type,
         NEW tag, tag = TimingTag(time, launch, capture, origin, type)
  PROVE  /\ tag.time = time /\ tag.launch = launch /\ tag.capture = capture
         /\ tag.origin = origin /\ tag.type = type /\ IsTag(tag)
BY DEF TimingTag, IsTag

LEMMA UpdatedIsTag ==
  ASSUME NEW tag, IsTag(tag), NEW time, NEW origin, NEW base
  PROVE  IsTag(update(tag, time, origin, base)) /\ update(tag, time, origin, base).type = tag.type
<1>1. CASE is_const_gen_tag(tag)
  BY <1>1 DEF IsTag, update, TimingTag
<1>2. CASE ~is_const_gen_tag(tag)
  <2>1. update(tag, time, origin, base) =
          TimingTag(time, tag.launch, tag.capture, origin, tag.type)
    BY <1>2, Retimed DEF update
  <2>. QED
    BY <2>1, TagFields
<1>. QED
  BY <1>1, <1>2

LEMMA SetOK ==
  ASSUME NEW s, StoreOK(s), NEW tag, IsTag(tag), tag.type \in AllTypes,
         Found(s, tag) = end(s, tag.type) => Room(s, tag.type)
  PROVE  StoreOK(store_set_tag(s, tag))
<1>. DEFINE i == Found(s, tag)
<1>1. CASE i = end(s, tag.type)
  BY <1>1, AddTagOK DEF store_set_tag, Found
<1>2. CASE i # end(s, tag.type)
  <2>1. i \in DOMAIN s.tags /\ s.tags[i].type = tag.type
    BY <1>2, FoundInSegment, InArray DEF Found
  <2>2. StoreOK([s EXCEPT !.tags[i] = tag])
    BY <2>1, ReplaceOK
  <2>3. store_set_tag(s, tag) = [s EXCEPT !.tags[i] = tag] \/ store_set_tag(s, tag) = s
    BY <1>2 DEF store_set_tag, Found
  <2>. QED
    BY <2>2, <2>3
<1>. QED
  BY <1>1, <1>2

LEMMA MergeOK ==
  ASSUME NEW s, StoreOK(s), NEW side, NEW tag, IsTag(tag), tag.type \in AllTypes,
         Found(s, tag) = end(s, tag.type) => Room(s, tag.type)
  PROVE  StoreOK(store_merge(s, side, tag))
<1>. DEFINE i      == Found(s, tag)
            merged == update(s.tags[i], tag.time, tag.origin, tag)
<1>1. CASE i = end(s, tag.type)
  BY <1>1, AddTagOK DEF store_merge, Found
<1>2. CASE i # end(s, tag.type)
  <2>1. i \in DOMAIN s.tags /\ IsTag(s.tags[i])
    BY <1>2, FoundInSegment, InArray DEF Found
  <2>2. IsTag(merged) /\ merged.type = s.tags[i].type
    BY <2>1, UpdatedIsTag
  <2>3. StoreOK([s EXCEPT !.tags[i] = merged])
    BY <2>1, <2>2, ReplaceOK
  <2>4. [s EXCEPT !.tags[i] = update(@, tag.time, tag.origin, tag)] = [s EXCEPT !.tags[i] = merged]
    OBVIOUS
  <2>5. \/ store_merge(s, side, tag) = [s EXCEPT !.tags[i] = update(@, tag.time, tag.origin, tag)]
        \/ store_merge(s, side, tag) = s
    BY <1>2 DEF store_merge, Found
  <2>. QED
    BY <2>3, <2>4, <2>5
<1>. QED
  BY <1>1, <1>2

\* A reset writes the time and the origin of tags, never their type.
ResetOf(s, hit, time) ==
  [s EXCEPT !.tags = [i \in DOMAIN @ |->
                        IF i \in hit THEN [@[i] EXCEPT !.time = time, !.origin = NoNode] ELSE @[i]]]

LEMMA ResetOK ==
  ASSUME NEW s, StoreOK(s), NEW hit, NEW time
  PROVE  StoreOK(ResetOf(s, hit, time))
<1>. DEFINE r == ResetOf(s, hit, time)
            changed(i) == [s.tags[i] EXCEPT !.time = time, !.origin = NoNode]
<1>1. /\ DOMAIN s = {"size", "capacity", "num", "tags"}
      /\ \A i \in DOMAIN s.tags : IsTag(s.tags[i])
  BY DEF StoreOK
<1>2. /\ DOMAIN r = DOMAIN s /\ r.size = s.size /\ r.capacity = s.capacity /\ r.num = s.num
      /\ r.tags = [i \in DOMAIN s.tags |-> IF i \in hit THEN changed(i) ELSE s.tags[i]]
  BY <1>1 DEF ResetOf
<1>3. \A i \in DOMAIN s.tags : IsTag(changed(i)) /\ changed(i).type = s.tags[i].type
  <2>. SUFFICES ASSUME NEW i \in DOMAIN s.tags
                PROVE  IsTag(changed(i)) /\ changed(i).type = s.tags[i].type
    OBVIOUS
  <2>1. changed(i) = TimingTag(time, s.tags[i].launch, s.tags[i].capture, NoNode, s.tags[i].type)
    BY <1>1, Retimed
  <2>. QED
    BY <2>1, TagFields
<1>. HIDE DEF changed, r
<1>4. \A i \in DOMAIN s.tags : IsTag(r.tags[i]) /\ r.tags[i].type = s.tags[i].type
  BY <1>1, <1>2, <1>3
<1>5. DOMAIN r.tags = DOMAIN s.tags
  BY <1>2
<1>6. StoreOK(r)
  BY <1>2, <1>4, <1>5, SameTypesOK
<1>. QED
  BY <1>6 DEF r

(***************************************************************************)
(* The guard of a visit is what inserting needs, and every action keeps the*)
(* container well formed.                                                  *)
(***************************************************************************)
LEMMA GuardGivesRoom ==
  ASSUME NEW tag, HasRoom(tag), Found(store, tag) = end(store, tag.type)
  PROVE  Room(store, tag.type)
BY DEF HasRoom, Found, Room

LEMMA DoResetKeeps ==
  ASSUME StoreOK(store), NEW types, NEW time, do_reset(types, time)
  PROVE  StoreOK(store')
<1>1. PICK origins : store' = [store EXCEPT !.tags =
                   [i \in DOMAIN @ |->
                      IF /\ @[i].origin \in origins
                         /\ \E type \in types : i \in begin(store, type) .. end(store, type) - 1
                      THEN [@[i] EXCEPT !.time = time, !.origin = NoNode] ELSE @[i]]]
  BY Zenon DEF do_reset
<1>. DEFINE hit == {i \in DOMAIN store.tags :
                      /\ store.tags[i].origin \in origins
                      /\ \E type \in types : i \in begin(store, type) .. end(store, type) - 1}
<1>2. store' = ResetOf(store, hit, time)
  BY <1>1 DEF ResetOf
<1>. QED
  BY <1>2, ResetOK

LEMMA StepKeepsStore ==
  ASSUME StoreOK(store), [Next]_store_vars
  PROVE  StoreOK(store')
<1>. USE TagsAssumption
<1>1. ASSUME NEW tag \in NodeTags, set_node_tag(tag) PROVE StoreOK(store')
  BY <1>1, GuardGivesRoom, SetOK DEF set_node_tag, AllTypes, TagTypes
<1>2. ASSUME NEW tag \in NodeTags, merge_arr_tags(tag) PROVE StoreOK(store')
  BY <1>2, GuardGivesRoom, MergeOK DEF merge_arr_tags, AllTypes, TagTypes
<1>3. ASSUME NEW tag \in NodeTags, merge_req_tags(tag) PROVE StoreOK(store')
  BY <1>3, GuardGivesRoom, MergeOK DEF merge_req_tags, AllTypes, TagTypes
<1>4. ASSUME NEW tag \in SlackTags, merge_slack_tags(tag) PROVE StoreOK(store')
  BY <1>4, GuardGivesRoom, MergeOK DEF merge_slack_tags, AllTypes
<1>5. CASE do_reset_node_arrival_tags
  BY <1>5, DoResetKeeps DEF do_reset_node_arrival_tags
<1>6. CASE do_reset_node_required_tags
  BY <1>6, DoResetKeeps DEF do_reset_node_required_tags
<1>7. CASE do_reset_node_slack_tags
  BY <1>7, DoResetKeeps DEF do_reset_node_slack_tags
<1>8. CASE reset_node
  BY <1>8, NewStoreOK DEF reset_node, clear, StoreOK
<1>9. CASE mark_sink_required_times
  BY <1>9 DEF mark_sink_required_times
<1>10. CASE MarkNext
  <2>1. PICK time, launch, capture :
          LET tag == TimingTag(time, launch, capture, NoNode, "DATA_REQUIRED")
          IN  HasRoom(tag) /\ store' = store_merge(store, RequiredSide, tag)
    BY <1>10, Zenon DEF MarkNext
  <2>. DEFINE tag == TimingTag(time, launch, capture, NoNode, "DATA_REQUIRED")
  <2>2. IsTag(tag) /\ tag.type = "DATA_REQUIRED"
    BY DEF TimingTag, IsTag
  <2>3. tag.type \in AllTypes
    BY <2>2 DEF AllTypes, TagTypes
  <2>. HIDE DEF tag
  <2>4. HasRoom(tag) /\ store' = store_merge(store, RequiredSide, tag)
    BY <2>1 DEF tag
  <2>. QED
    BY <2>2, <2>3, <2>4, GuardGivesRoom, MergeOK
<1>11. CASE UNCHANGED store_vars
  BY <1>11 DEF store_vars
<1>. QED
  BY <1>1, <1>2, <1>3, <1>4, <1>5, <1>6, <1>7, <1>8, <1>9, <1>10, <1>11 DEF Next

(***************************************************************************)
(* For any tags, limits and reserve: whatever is inserted at the end of its*)
(* segment, moved to a larger array, merged and reset, the array stays     *)
(* sorted by type with its segments where the counters say, as long as the *)
(* counters and the capacity are not asked for more than they can hold.    *)
(***************************************************************************)
THEOREM SegmentsStaySorted == Spec => []SegmentsHoldTypes
<1>1. Init => StoreOK(store)
  BY LimitsAssumption, NewStoreOK DEF Init
<1>2. StoreOK(store) /\ [Next]_store_vars => StoreOK(store')
  BY StepKeepsStore
<1>3. StoreOK(store) => SegmentsHoldTypes
  BY DEF StoreOK, Sorted, SegmentsHoldTypes
<1>. DEFINE Inv == StoreOK(store)
<1>4. Inv /\ [Next]_store_vars => Inv'
  BY <1>2
<1>5. Init => Inv
  BY <1>1
<1>6. Inv => SegmentsHoldTypes
  BY <1>3
<1>. HIDE DEF Inv
<1>. QED
  BY <1>4, <1>5, <1>6, PTL DEF Spec

(***************************************************************************)
(* What the visitors see of the store: the sequence of the tags of a type. *)
(***************************************************************************)
LEMMA TagsOf ==
  ASSUME NEW s, StoreOK(s), NEW type \in AllTypes
  PROVE  LET seq == tags_of(s, type)
             n   == end(s, type) - begin(s, type)
         IN  /\ n \in Nat /\ Len(seq) = n /\ DOMAIN seq = 1 .. n
             /\ seq = [i \in 1 .. n |-> s.tags[begin(s, type) + i - 1]]
             /\ \A i \in 1 .. n : IsTag(seq[i]) /\ seq[i].type = type
<1>. DEFINE b   == begin(s, type)
            n   == end(s, type) - b
            seq == tags_of(s, type)
<1>1. b \in Nat /\ end(s, type) \in Nat /\ n \in Nat
  BY SegmentBounds
<1>2. seq = [i \in 1 .. n |-> s.tags[b + i - 1]]
  BY DEF tags_of
<1>3. \A i \in 1 .. n : b + i - 1 \in b .. end(s, type) - 1
  BY <1>1
<1>4. \A i \in 1 .. n : IsTag(s.tags[b + i - 1]) /\ s.tags[b + i - 1].type = type
  BY <1>3, InArray
<1>. HIDE DEF b, n, seq
<1>5. Len(seq) = n /\ DOMAIN seq = 1 .. n
  BY <1>1, <1>2
<1>. QED
  BY <1>1, <1>2, <1>4, <1>5 DEF b, n, seq

LEMMA AddTagAppends ==
  ASSUME NEW s, StoreOK(s), NEW tag, tag.type \in AllTypes, Room(s, tag.type),
         NEW type \in AllTypes
  PROVE  tags_of(add_tag(s, tag), type) =
           IF type = tag.type THEN Append(tags_of(s, type), tag) ELSE tags_of(s, type)
<1>. DEFINE r == add_tag(s, tag)
            b == begin(s, type)
            e == end(s, type)
            n == e - b
            seq == tags_of(s, type)
<1>1. Moved(s, tag, r)
  BY AddTagMoves
<1>2. /\ b \in Nat /\ e \in Nat /\ n \in Nat /\ e <= s.size /\ b <= e
      /\ s.size \in Nat /\ end(s, tag.type) \in Nat
  BY SegmentBounds DEF StoreOK
<1>3. \A i \in 0 .. s.size : r.tags[i] = IF i < end(s, tag.type) THEN s.tags[i]
                                         ELSE IF i = end(s, tag.type) THEN tag
                                         ELSE s.tags[i - 1]
  BY <1>1 DEF Moved
<1>4. seq = [i \in 1 .. n |-> s.tags[b + i - 1]] /\ Len(seq) = n
  BY TagsOf
<1>5. tags_of(r, type) = [i \in 1 .. end(r, type) - begin(r, type) |-> r.tags[begin(r, type) + i - 1]]
  BY DEF tags_of
<1>6. \/ type = tag.type /\ begin(r, type) = b /\ end(r, type) = e + 1
      \/ /\ type # tag.type /\ e <= end(s, tag.type)
         /\ begin(r, type) = b /\ end(r, type) = e
      \/ /\ type # tag.type /\ b >= end(s, tag.type)
         /\ begin(r, type) = b + 1 /\ end(r, type) = e + 1
  BY <1>1, SegmentsShift DEF Moved
<1>7. Append(seq, tag) = [i \in 1 .. n + 1 |-> IF i <= n THEN s.tags[b + i - 1] ELSE tag]
  BY <1>2, <1>4
<1>. HIDE DEF r, seq, b, e
<1>8. CASE type = tag.type
  <2>1. tags_of(r, type) = [i \in 1 .. n + 1 |-> r.tags[b + i - 1]]
    BY <1>2, <1>5, <1>6, <1>8
  <2>2. \A i \in 1 .. n + 1 : r.tags[b + i - 1] = IF i <= n THEN s.tags[b + i - 1] ELSE tag
    BY <1>2, <1>3, <1>8 DEF e
  <2>. QED
    BY <1>7, <1>8, <2>1, <2>2 DEF r, seq
<1>9. CASE type # tag.type
  <2>1. tags_of(r, type) = [i \in 1 .. n |-> r.tags[begin(r, type) + i - 1]]
    BY <1>2, <1>5, <1>6, <1>9
  <2>2. \A i \in 1 .. n : r.tags[begin(r, type) + i - 1] = s.tags[b + i - 1]
    BY <1>2, <1>3, <1>6, <1>9
  <2>. QED
    BY <1>4, <1>9, <2>1, <2>2 DEF r, seq
<1>. QED
  BY <1>8, <1>9

(***************************************************************************)
(* The search of the segment finds the tag the search of the sequence does.*)
(***************************************************************************)
LEMMA SameMatch ==
  ASSUME NEW s, StoreOK(s), NEW type \in AllTypes, NEW launch, NEW capture
  PROVE  LET i == find_in_segment(s, type, launch, capture)
             k == find_matching_tag(tags_of(s, type), launch, capture)
         IN  /\ k = 0 <=> i = end(s, type)
             /\ k # 0 => /\ i = begin(s, type) + k - 1 /\ i \in DOMAIN s.tags
                         /\ k \in 1 .. end(s, type) - begin(s, type)
                         /\ tags_of(s, type)[k] = s.tags[i]
                         /\ Agrees(launch, s.tags[i].launch) /\ Agrees(capture, s.tags[i].capture)
<1>. DEFINE b   == begin(s, type)
            e   == end(s, type)
            n   == e - b
            seq == tags_of(s, type)
            matches(t) == Agrees(launch, t.launch) /\ Agrees(capture, t.capture)
            hits  == {i \in b .. e - 1 : matches(s.tags[i])}
            found == {k \in 1 .. n : matches(seq[k])}
            i == find_in_segment(s, type, launch, capture)
            k == find_matching_tag(seq, launch, capture)
<1>1. b \in Nat /\ e \in Nat /\ n \in Nat
  BY SegmentBounds
<1>2. Len(seq) = n /\ seq = [j \in 1 .. n |-> s.tags[b + j - 1]]
  BY TagsOf
<1>3. i = IF hits = {} THEN e ELSE Min(hits)
  BY DEF find_in_segment
<1>4. k = IF found # {} THEN Min(found) ELSE 0
  <2>1. k = IF {j \in 1 .. Len(seq) : matches(seq[j])} # {}
            THEN Min({j \in 1 .. Len(seq) : matches(seq[j])}) ELSE 0
    BY Zenon DEF find_matching_tag, SelectInSeq
  <2>. QED
    BY <1>2, <2>1
<1>. HIDE DEF b, e, n, seq, i, k, matches
<1>5. /\ \A j \in hits : j - b + 1 \in found
      /\ \A j \in found : b + j - 1 \in hits
  <2>1. \A j \in 1 .. n : b + j - 1 \in b .. e - 1 /\ seq[j] = s.tags[b + j - 1]
    BY <1>1, <1>2 DEF n
  <2>2. \A j \in b .. e - 1 : j - b + 1 \in 1 .. n /\ seq[j - b + 1] = s.tags[j]
    <3>. SUFFICES ASSUME NEW j \in b .. e - 1
                  PROVE  j - b + 1 \in 1 .. n /\ seq[j - b + 1] = s.tags[j]
      OBVIOUS
    <3>1. j - b + 1 \in 1 .. n /\ b + (j - b + 1) - 1 = j
      BY <1>1 DEF n
    <3>. QED
      BY <2>1, <3>1
  <2>. QED
    BY <2>1, <2>2
<1>6. hits \subseteq Nat /\ found \subseteq Nat
  BY <1>1
<1>7. hits # {} => i \in hits /\ \A j \in hits : i <= j
  BY <1>3, <1>6, MinOfNaturals
<1>8. found # {} => k \in found /\ \A j \in found : k <= j
  BY <1>4, <1>6, MinOfNaturals
<1>9. CASE hits = {}
  <2>1. found = {}
    BY <1>5, <1>9
  <2>. QED
    BY <1>3, <1>4, <1>9, <2>1 DEF i, k, seq, e
<1>10. CASE hits # {}
  <2>1. found # {}
    BY <1>5, <1>10
  <2>2. i = b + k - 1
    <3>1. i - b + 1 \in found /\ b + k - 1 \in hits
      BY <1>5, <1>7, <1>8, <1>10, <2>1
    <3>2. k <= i - b + 1 /\ i <= b + k - 1
      BY <1>7, <1>8, <1>10, <2>1, <3>1
    <3>. QED
      BY <1>1, <1>6, <1>7, <1>8, <1>10, <2>1, <3>2
  <2>3. k \in 1 .. n /\ k # 0 /\ i # e /\ seq[k] = s.tags[i] /\ matches(s.tags[i])
    <3>1. k \in 1 .. n /\ i \in b .. e - 1 /\ matches(s.tags[i])
      BY <1>7, <1>8, <1>10, <2>1
    <3>2. seq[k] = s.tags[b + k - 1]
      BY <1>2, <3>1
    <3>. QED
      BY <1>1, <2>2, <3>1, <3>2
  <2>4. i \in DOMAIN s.tags
    <3>1. i \in b .. e - 1
      BY <1>7, <1>10
    <3>. QED
      BY <3>1, InArray DEF b, e
  <2>. QED
    BY <2>2, <2>3, <2>4 DEF b, e, n, i, k, seq, matches
<1>. QED
  BY <1>9, <1>10

(***************************************************************************)
(* Writing the tag at a place of a segment writes one element of the       *)
(* sequence, and of no other.                                              *)
(***************************************************************************)
LEMMA ReplaceInSeq ==
  ASSUME NEW s, StoreOK(s), NEW own \in AllTypes, NEW k \in 1 .. end(s, own) - begin(s, own),
         NEW i, i = begin(s, own) + k - 1, NEW tag, NEW type \in AllTypes
  PROVE  tags_of([s EXCEPT !.tags[i] = tag], type) =
           IF type = own THEN [tags_of(s, own) EXCEPT ![k] = tag] ELSE tags_of(s, type)
<1>. DEFINE r   == [s EXCEPT !.tags[i] = tag]
            b   == begin(s, type)
            n   == end(s, type) - b
            seq == tags_of(s, type)
<1>1. /\ DOMAIN s = {"size", "capacity", "num", "tags"}
      /\ begin(s, own) \in Nat /\ end(s, own) \in Nat
  BY SegmentBounds DEF StoreOK
<1>2. i \in begin(s, own) .. end(s, own) - 1
  BY <1>1
<1>3. i \in DOMAIN s.tags /\ s.tags[i].type = own
  BY <1>2, InArray
<1>4. r.size = s.size /\ r.num = s.num /\ r.tags = [s.tags EXCEPT ![i] = tag]
  BY <1>1
<1>. HIDE DEF r
<1>5. begin(r, type) = b /\ end(r, type) = end(s, type)
  BY <1>4, Begins, TypesListed DEF end
<1>6. tags_of(r, type) = [j \in 1 .. n |-> r.tags[b + j - 1]]
  BY <1>5 DEF tags_of
<1>7. b \in Nat /\ n \in Nat
  BY SegmentBounds
<1>8. seq = [j \in 1 .. n |-> s.tags[b + j - 1]]
  BY TagsOf
<1>9. \A j \in 1 .. n : b + j - 1 \in DOMAIN s.tags /\ s.tags[b + j - 1].type = type
  <2>. SUFFICES ASSUME NEW j \in 1 .. n
                PROVE  b + j - 1 \in DOMAIN s.tags /\ s.tags[b + j - 1].type = type
    OBVIOUS
  <2>1. b + j - 1 \in begin(s, type) .. end(s, type) - 1
    <3>1. b \in Nat /\ end(s, type) \in Nat
      BY SegmentBounds
    <3>. QED
      BY <3>1
  <2>. QED
    BY <2>1, InArray
<1>. HIDE DEF seq
<1>10. CASE type = own
  <2>. HIDE DEF b, n
  <2>1. [seq EXCEPT ![k] = tag] = [j \in 1 .. n |-> IF j = k THEN tag ELSE s.tags[b + j - 1]]
    BY <1>8
  <2>2. \A j \in 1 .. n : r.tags[b + j - 1] = IF j = k THEN tag ELSE s.tags[b + j - 1]
    BY <1>4, <1>7, <1>9, <1>10 DEF b
  <2>3. tags_of(r, type) = [seq EXCEPT ![k] = tag]
    BY <1>6, <2>1, <2>2
  <2>. QED
    BY <1>10, <2>3 DEF r, seq
<1>11. CASE type # own
  <2>1. \A j \in 1 .. n : r.tags[b + j - 1] = s.tags[b + j - 1]
    BY <1>3, <1>4, <1>9, <1>11
  <2>. QED
    BY <1>6, <1>8, <1>11, <2>1 DEF r, seq
<1>. QED
  BY <1>10, <1>11

(***************************************************************************)
(* Setting and merging a tag, in the store and in the sequence.            *)
(***************************************************************************)
LEMMA SameSet ==
  ASSUME NEW s, StoreOK(s), NEW tag, tag.type \in AllTypes,
         Found(s, tag) = end(s, tag.type) => Room(s, tag.type), NEW type \in AllTypes
  PROVE  tags_of(store_set_tag(s, tag), type) =
           IF type # tag.type THEN tags_of(s, type)
           ELSE LET seq == tags_of(s, type)
                    k   == find_matching_tag(seq, tag.launch, tag.capture)
                IN  IF k = 0 THEN Append(seq, tag)
                    ELSE IF seq[k].time # tag.time \/ seq[k].origin # tag.origin
                         THEN [seq EXCEPT ![k] = tag] ELSE seq
<1>. DEFINE own == tags_of(s, tag.type)
            i   == Found(s, tag)
            k   == find_matching_tag(own, tag.launch, tag.capture)
<1>1. /\ k = 0 <=> i = end(s, tag.type)
      /\ k # 0 => /\ i = begin(s, tag.type) + k - 1
                  /\ k \in 1 .. end(s, tag.type) - begin(s, tag.type)
                  /\ own[k] = s.tags[i]
  BY SameMatch DEF Found
<1>. HIDE DEF i, k, own
<1>2. CASE k = 0
  <2>1. store_set_tag(s, tag) = add_tag(s, tag)
    BY <1>1, <1>2 DEF store_set_tag, Found, i
  <2>. QED
    BY <1>1, <1>2, <2>1, AddTagAppends DEF i, k, own
<1>3. CASE k # 0 /\ (own[k].time # tag.time \/ own[k].origin # tag.origin)
  <2>1. store_set_tag(s, tag) = [s EXCEPT !.tags[i] = tag]
    BY <1>1, <1>3 DEF store_set_tag, Found, i
  <2>2. tags_of([s EXCEPT !.tags[i] = tag], type) =
          IF type = tag.type THEN [own EXCEPT ![k] = tag] ELSE tags_of(s, type)
    BY <1>1, <1>3, ReplaceInSeq DEF own
  <2>. QED
    BY <1>3, <2>1, <2>2 DEF k, own
<1>4. CASE k # 0 /\ ~(own[k].time # tag.time \/ own[k].origin # tag.origin)
  <2>1. store_set_tag(s, tag) = s
    BY <1>1, <1>4 DEF store_set_tag, Found, i
  <2>. QED
    BY <1>4, <2>1 DEF k, own
<1>. QED
  BY <1>2, <1>3, <1>4

LEMMA SameMerge ==
  ASSUME NEW s, StoreOK(s), NEW side, NEW tag, IsTag(tag), tag.type \in AllTypes,
         Found(s, tag) = end(s, tag.type) => Room(s, tag.type), NEW type \in AllTypes
  PROVE  tags_of(store_merge(s, side, tag), type) =
           IF type # tag.type THEN tags_of(s, type)
           ELSE MergeInto(tags_of(s, type), side, tag.time, tag.origin, tag).seq
<1>. DEFINE own == tags_of(s, tag.type)
            i   == Found(s, tag)
            k   == find_matching_tag(own, tag.launch, tag.capture)
            new == update(own[k], tag.time, tag.origin, tag)
            merged == MergeInto(own, side, tag.time, tag.origin, tag).seq
            better == ~IsValid(own[k].time) \/ Improves(side, tag.time, own[k].time)
<1>1. /\ k = 0 <=> i = end(s, tag.type)
      /\ k # 0 => /\ i = begin(s, tag.type) + k - 1
                  /\ k \in 1 .. end(s, tag.type) - begin(s, tag.type)
                  /\ own[k] = s.tags[i]
  BY SameMatch DEF Found
<1>2. [tag EXCEPT !.time = tag.time, !.origin = tag.origin] = tag
  BY Retimed DEF IsTag
<1>3. merged = IF k = 0 THEN Append(own, tag)
               ELSE IF better THEN [own EXCEPT ![k] = new] ELSE own
  <2>1. [own EXCEPT ![k] = update(@, tag.time, tag.origin, tag)] = [own EXCEPT ![k] = new]
    OBVIOUS
  <2>. HIDE DEF own, k, new, better
  <2>. QED
    BY <1>2, <2>1 DEF MergeInto, k, better
<1>. HIDE DEF i, k, own, new, better, merged
<1>4. CASE k = 0
  <2>1. store_merge(s, side, tag) = add_tag(s, tag)
    BY <1>1, <1>4 DEF store_merge, Found, i
  <2>. QED
    BY <1>1, <1>3, <1>4, <2>1, AddTagAppends DEF i, own, merged
<1>5. CASE k # 0 /\ better
  <2>1. store_merge(s, side, tag) = [s EXCEPT !.tags[i] = update(@, tag.time, tag.origin, tag)]
    BY <1>1, <1>5 DEF store_merge, Found, i, better
  <2>2. [s EXCEPT !.tags[i] = update(@, tag.time, tag.origin, tag)] = [s EXCEPT !.tags[i] = new]
    BY <1>1, <1>5 DEF new
  <2>. QED
    BY <1>1, <1>3, <1>5, <2>1, <2>2, ReplaceInSeq DEF own, merged
<1>6. CASE k # 0 /\ ~better
  <2>1. store_merge(s, side, tag) = s
    BY <1>1, <1>6 DEF store_merge, Found, i, better
  <2>. QED
    BY <1>3, <1>6, <2>1 DEF own, merged
<1>. QED
  BY <1>4, <1>5, <1>6

(***************************************************************************)
(* A reset, and a container that is cleared or new.                        *)
(***************************************************************************)
HitsOf(s, types, origins) ==
  {i \in DOMAIN s.tags : /\ s.tags[i].origin \in origins
                         /\ \E type \in types : i \in begin(s, type) .. end(s, type) - 1}

LEMMA SameReset ==
  ASSUME NEW s, StoreOK(s), NEW types \in SUBSET AllTypes, NEW origins, NEW time,
         NEW type \in AllTypes
  PROVE  tags_of(ResetOf(s, HitsOf(s, types, origins), time), type) =
           IF type \in types THEN ResetTags(tags_of(s, type), origins, time) ELSE tags_of(s, type)
<1>. DEFINE r   == ResetOf(s, HitsOf(s, types, origins), time)
            b   == begin(s, type)
            n   == end(s, type) - b
            seq == tags_of(s, type)
            changed(t) == [t EXCEPT !.time = time, !.origin = NoNode]
<1>1. /\ DOMAIN s = {"size", "capacity", "num", "tags"}
      /\ b \in Nat /\ end(s, type) \in Nat /\ n \in Nat
  BY SegmentBounds DEF StoreOK
<1>2. /\ r.size = s.size /\ r.num = s.num
      /\ r.tags = [i \in DOMAIN s.tags |->
                     IF i \in HitsOf(s, types, origins) THEN changed(s.tags[i]) ELSE s.tags[i]]
  BY <1>1 DEF ResetOf
<1>. HIDE DEF r, changed
<1>3. begin(r, type) = b /\ end(r, type) = end(s, type)
  BY <1>2, Begins, TypesListed DEF end
<1>4. tags_of(r, type) = [j \in 1 .. n |-> r.tags[b + j - 1]]
  BY <1>3 DEF tags_of
<1>5. seq = [j \in 1 .. n |-> s.tags[b + j - 1]]
  BY TagsOf
<1>6. \A j \in 1 .. n : b + j - 1 \in b .. end(s, type) - 1
  BY <1>1
<1>7. \A j \in 1 .. n : b + j - 1 \in DOMAIN s.tags /\ s.tags[b + j - 1].type = type
  BY <1>6, InArray
<1>8. \A j \in 1 .. n : b + j - 1 \in HitsOf(s, types, origins)
                          <=> type \in types /\ s.tags[b + j - 1].origin \in origins
  <2>. SUFFICES ASSUME NEW j \in 1 .. n
                PROVE  (\E t \in types : b + j - 1 \in begin(s, t) .. end(s, t) - 1) <=> type \in types
    BY <1>7 DEF HitsOf
  <2>1. ASSUME NEW t \in types, b + j - 1 \in begin(s, t) .. end(s, t) - 1 PROVE t = type
    <3>1. s.tags[b + j - 1].type = t
      BY <2>1, InArray
    <3>. QED
      BY <1>7, <3>1
  <2>. QED
    BY <1>6, <2>1
<1>. HIDE DEF seq, b, n
<1>9. tags_of(r, type) = [j \in 1 .. n |-> IF type \in types /\ s.tags[b + j - 1].origin \in origins
                                           THEN changed(s.tags[b + j - 1]) ELSE s.tags[b + j - 1]]
  BY <1>2, <1>4, <1>7, <1>8
<1>10. ResetTags(seq, origins, time) =
         [j \in 1 .. n |-> IF s.tags[b + j - 1].origin \in origins
                           THEN changed(s.tags[b + j - 1]) ELSE s.tags[b + j - 1]]
  BY <1>5 DEF ResetTags, changed
<1>. QED
  BY <1>5, <1>9, <1>10 DEF r, seq

LEMMA NewIsEmpty ==
  ASSUME NEW capacity, NEW type \in AllTypes
  PROVE  tags_of(NewStore(capacity), type) = <<>>
<1>. DEFINE s == NewStore(capacity)
<1>1. s.size = 0 /\ s.num = [t \in TagTypes |-> 0]
  BY DEF NewStore
<1>2. /\ s.num["CLOCK_LAUNCH"] = 0 /\ s.num["CLOCK_CAPTURE"] = 0
      /\ s.num["DATA_ARRIVAL"] = 0 /\ s.num["DATA_REQUIRED"] = 0
  BY <1>1 DEF TagTypes, ArrivalTypes
<1>. HIDE DEF s
<1>3. begin(s, type) = 0 /\ end(s, type) = 0
  BY <1>1, <1>2, TypesListed, Begins DEF end
<1>4. tags_of(s, type) = <<>>
  BY <1>3 DEF tags_of
<1>. QED
  BY <1>4 DEF s

(***************************************************************************)
(* What merging does to a sequence of tags.                                *)
(***************************************************************************)
LEMMA MatchBounds ==
  ASSUME NEW n \in Nat, NEW seq, Len(seq) = n, NEW launch, NEW capture
  PROVE  LET k == find_matching_tag(seq, launch, capture)
         IN  \/ k = 0
             \/ k \in 1 .. n /\ Agrees(launch, seq[k].launch) /\ Agrees(capture, seq[k].capture)
<1>. DEFINE matches(t) == Agrees(launch, t.launch) /\ Agrees(capture, t.capture)
            found == {k \in 1 .. n : matches(seq[k])}
<1>1. find_matching_tag(seq, launch, capture) = IF found # {} THEN Min(found) ELSE 0
  <2>1. find_matching_tag(seq, launch, capture) =
          IF {j \in 1 .. Len(seq) : matches(seq[j])} # {}
          THEN Min({j \in 1 .. Len(seq) : matches(seq[j])}) ELSE 0
    BY Zenon DEF find_matching_tag, SelectInSeq
  <2>. QED
    BY <2>1
<1>2. found \subseteq Nat
  OBVIOUS
<1>3. found # {} => Min(found) \in found
  BY <1>2, MinOfNaturals, Zenon
<1>. QED
  BY <1>1, <1>3

Merges(seq, tag, merged) ==
  \/ merged = Append(seq, tag)
  \/ \E k \in 1 .. Len(seq) :
       /\ Agrees(tag.launch, seq[k].launch) /\ Agrees(tag.capture, seq[k].capture)
       /\ \/ merged = seq
          \/ merged = [seq EXCEPT ![k] = update(seq[k], tag.time, tag.origin, tag)]

LEMMA MergeCases ==
  ASSUME NEW seq, Len(seq) \in Nat, NEW side, NEW tag, IsTag(tag)
  PROVE  Merges(seq, tag, MergeInto(seq, side, tag.time, tag.origin, tag).seq)
<1>. DEFINE k      == find_matching_tag(seq, tag.launch, tag.capture)
            merged == MergeInto(seq, side, tag.time, tag.origin, tag).seq
<1>1. [tag EXCEPT !.time = tag.time, !.origin = tag.origin] = tag
  BY Retimed DEF IsTag
<1>2. \/ k = 0
      \/ /\ k \in 1 .. Len(seq)
         /\ Agrees(tag.launch, seq[k].launch) /\ Agrees(tag.capture, seq[k].capture)
  BY MatchBounds
<1>3. \/ k = 0 /\ merged = Append(seq, tag)
      \/ k # 0 /\ \/ merged = seq
                  \/ merged = [seq EXCEPT ![k] = update(@, tag.time, tag.origin, tag)]
  <2>. HIDE DEF k
  <2>. QED
    BY <1>1 DEF MergeInto, k
<1>. QED
  BY <1>2, <1>3 DEF Merges

(***************************************************************************)
(* The abstract container's operators are those the store is compared to.  *)
(***************************************************************************)
LEMMA ContainerMatch ==
  ASSUME NEW seq, NEW launch, NEW capture
  PROVE  Container!find_matching_tag(seq, launch, capture) = find_matching_tag(seq, launch, capture)
BY DEF Container!find_matching_tag, find_matching_tag, Container!SelectInSeq, SelectInSeq,
       Container!Agrees, Agrees, Container!NoDomain, NoDomain, Container!Min, Min

LEMMA ContainerMerge ==
  ASSUME NEW seq, NEW side, NEW time, NEW origin, NEW base
  PROVE  Container!MergeInto(seq, side, time, origin, base) = MergeInto(seq, side, time, origin, base)
<1>1. \A a, b : Container!Later(a, b) = Later(a, b)
  BY DEF Container!Later, Later, Container!IsValid, IsValid, Container!NaN, NaN
<1>2. \A a, b : Container!Improves(side, a, b) = Improves(side, a, b)
  BY <1>1 DEF Container!Improves, Improves, Container!Earlier, Earlier
<1>3. \A t : Container!update(t, time, origin, base) = update(t, time, origin, base)
  BY DEF Container!update, update, Container!is_const_gen_tag, is_const_gen_tag, Container!TimingTag,
         TimingTag, Container!NoDomain, NoDomain, Container!IsInf, IsInf, Container!PosInf, PosInf,
         Container!NegInf, NegInf
<1>4. \A t : Container!IsValid(t) = IsValid(t)
  BY DEF Container!IsValid, IsValid, Container!NaN, NaN
<1>. QED
  BY <1>2, <1>3, <1>4, ContainerMatch DEF Container!MergeInto, MergeInto

LEMMA ContainerReset ==
  ASSUME NEW seq, NEW origins, NEW time
  PROVE  Container!ResetTags(seq, origins, time) = ResetTags(seq, origins, time)
BY DEF Container!ResetTags, ResetTags, Container!NoNode, NoNode

LEMMA ContainerTypes ==
  /\ Container!AllTypes = AllTypes /\ Container!ArrivalTypes = ArrivalTypes
  /\ Container!PosInf = PosInf /\ Container!NegInf = NegInf /\ Container!NoNode = NoNode
BY DEF Container!AllTypes, AllTypes, Container!TagTypes, TagTypes, Container!ArrivalTypes,
       ArrivalTypes, Container!PosInf, PosInf, Container!NegInf, NegInf, Container!NoNode, NoNode

(***************************************************************************)
(* The tags of the container, by type.                                     *)
(***************************************************************************)
Seen == [type \in AllTypes |-> tags_of(store, type)]

LEMMA SetImplements ==
  ASSUME StoreOK(store), NEW tag, tag.type \in AllTypes, HasRoom(tag),
         store' = store_set_tag(store, tag)
  PROVE  Container!Set(tag)
<1>. DEFINE own == tags_of(store, tag.type)
            k   == find_matching_tag(own, tag.launch, tag.capture)
            new == IF k = 0 THEN Append(own, tag)
                   ELSE IF own[k].time # tag.time \/ own[k].origin # tag.origin
                        THEN [own EXCEPT ![k] = tag] ELSE own
<1>1. \A type \in AllTypes : tags_of(store', type) =
        IF type = tag.type THEN new ELSE tags_of(store, type)
  BY SameSet, GuardGivesRoom
<1>2. Seen' = [Seen EXCEPT ![tag.type] = new]
  <2>. HIDE DEF new
  <2>. QED
    BY <1>1 DEF Seen
<1>3. Seen[tag.type] = own
  BY DEF Seen
<1>4. Container!set_tag(Seen, tag) = [Seen EXCEPT ![tag.type] = new]
  <2>. HIDE DEF own, Seen
  <2>. QED
    BY <1>3, ContainerMatch DEF Container!set_tag
<1>. QED
  BY <1>2, <1>4 DEF Container!Set, Seen

LEMMA MergeImplements ==
  ASSUME StoreOK(store), NEW side, NEW tag, IsTag(tag), tag.type \in AllTypes, HasRoom(tag),
         store' = store_merge(store, side, tag)
  PROVE  Container!Merge(side, tag)
<1>. DEFINE own == tags_of(store, tag.type)
            new == MergeInto(own, side, tag.time, tag.origin, tag).seq
<1>1. \A type \in AllTypes : tags_of(store', type) =
        IF type = tag.type THEN new ELSE tags_of(store, type)
  BY SameMerge, GuardGivesRoom
<1>2. Seen' = [Seen EXCEPT ![tag.type] = new]
  <2>. HIDE DEF new
  <2>. QED
    BY <1>1 DEF Seen
<1>3. Seen[tag.type] = own
  BY DEF Seen
<1>4. [Seen EXCEPT ![tag.type] = Container!MergeInto(@, side, tag.time, tag.origin, tag).seq]
        = [Seen EXCEPT ![tag.type] = new]
  BY <1>3, ContainerMerge
<1>. QED
  BY <1>2, <1>4 DEF Container!Merge, Seen

LEMMA ResetImplements ==
  ASSUME StoreOK(store), NEW types \in {ArrivalTypes, {"DATA_REQUIRED"}, {"SLACK"}},
         NEW time \in {PosInf, NegInf}, do_reset(types, time)
  PROVE  \E origins \in SUBSET Origins :
           /\ store' = ResetOf(store, HitsOf(store, types, origins), time)
           /\ Container!Reset(types, origins, time)
<1>0. types \in SUBSET AllTypes
  BY DEF AllTypes, TagTypes
<1>1. PICK origins \in {Origins} \cup {{n} : n \in Origins \ {NoNode}} :
        store' = [store EXCEPT !.tags =
                   [i \in DOMAIN @ |->
                      IF /\ @[i].origin \in origins
                         /\ \E type \in types : i \in begin(store, type) .. end(store, type) - 1
                      THEN [@[i] EXCEPT !.time = time, !.origin = NoNode] ELSE @[i]]]
  BY Zenon DEF do_reset
<1>2. origins \in SUBSET Origins
  BY <1>1
<1>3. store' = ResetOf(store, HitsOf(store, types, origins), time)
  BY <1>1 DEF ResetOf, HitsOf
<1>4. \A type \in AllTypes : tags_of(store', type) =
        IF type \in types THEN ResetTags(tags_of(store, type), origins, time) ELSE tags_of(store, type)
  BY <1>0, <1>3, SameReset
<1>5. Seen' = [type \in AllTypes |-> IF type \in types THEN ResetTags(Seen[type], origins, time)
                                     ELSE Seen[type]]
  BY <1>4 DEF Seen
<1>6. Container!Reset(types, origins, time)
  BY <1>5, ContainerReset, ContainerTypes DEF Container!Reset, Seen
<1>. QED
  BY <1>2, <1>3, <1>6

LEMMA ClearImplements ==
  ASSUME NEW capacity, store' = NewStore(capacity)
  PROVE  Container!Clear
<1>1. Seen' = [type \in AllTypes |-> <<>>]
  BY NewIsEmpty DEF Seen
<1>. QED
  BY <1>1, ContainerTypes DEF Container!Clear, Container!Init, Seen

LEMMA NewImplements ==
  ASSUME NEW capacity, store = NewStore(capacity)
  PROVE  Container!Init
<1>1. Seen = [type \in AllTypes |-> <<>>]
  BY NewIsEmpty DEF Seen
<1>. QED
  BY <1>1, ContainerTypes DEF Container!Init, Seen

(***************************************************************************)
(* The domains of the tags kept: an arrival has the launch domain of a tag *)
(* that was put in, a required time both domains.  While the arrivals of a *)
(* SINK are gone through they do not change, and every one that was passed *)
(* has the required times it asks for.                                     *)
(***************************************************************************)
Launches == {t.launch : t \in NodeTags}

ArrivalKnown(t)  == t.launch \in Launches /\ (t.launch # NoDomain \/ is_const_gen_tag(t))
RequiredKnown(t) == t.launch # NoDomain /\ t.capture # NoDomain

ArrivalsOf(s)  == tags_of(s, "DATA_ARRIVAL")
RequiredsOf(s) == tags_of(s, "DATA_REQUIRED")

TagsKnown == /\ \A i \in DOMAIN ArrivalsOf(store) : ArrivalKnown(ArrivalsOf(store)[i])
             /\ \A i \in DOMAIN RequiredsOf(store) : RequiredKnown(RequiredsOf(store)[i])

Asked(s, arrival, c) ==
  \E i \in DOMAIN RequiredsOf(s) :
     <<RequiredsOf(s)[i].launch, RequiredsOf(s)[i].capture>> = RequiredPair(arrival, c)

MarkingOK ==
  LET arrivals == ArrivalsOf(store)
      captures == marking.captures
  IN  /\ marking = [array |-> OwnCopy, arrivals |-> arrivals, next |-> marking.next,
                    captures |-> captures]
      /\ marking.next \in 1 .. Len(arrivals)
      /\ captures \in Seq(ToSet(CaptureDomains)) /\ captures # <<>>
      /\ \A c \in ToSet(CaptureDomains) :
           \/ c \in ToSet(captures)
           \/ \A j \in 1 .. Len(arrivals) : Asked(store, arrivals[j], c)
      /\ \A j \in 1 .. marking.next - 1 : Asked(store, arrivals[j], Head(captures))

StoreInv == /\ StoreOK(store)
            /\ TagsKnown
            /\ marking # NotMarking => MarkingOK

LEMMA MergedArrivals ==
  ASSUME NEW S, NEW seq \in Seq(S), \A i \in 1 .. Len(seq) : IsTag(seq[i]) /\ ArrivalKnown(seq[i]),
         NEW side, NEW tag \in NodeTags, tag.type = "DATA_ARRIVAL",
         NEW merged, merged = MergeInto(seq, side, tag.time, tag.origin, tag).seq
  PROVE  \A i \in DOMAIN merged : ArrivalKnown(merged[i])
<1>. DEFINE n == Len(seq)
<1>1. n \in Nat /\ IsTag(tag) /\ DOMAIN seq = 1 .. n
  BY TagsAssumption
<1>2. ArrivalKnown(tag)
  BY TagsAssumption DEF ArrivalKnown, Launches
<1>3. CASE merged = Append(seq, tag)
  BY <1>1, <1>2, <1>3
<1>4. CASE merged = seq
  BY <1>1, <1>4
<1>5. ASSUME NEW k \in 1 .. n,
             merged = [seq EXCEPT ![k] = update(seq[k], tag.time, tag.origin, tag)]
      PROVE  \A i \in DOMAIN merged : ArrivalKnown(merged[i])
  <2>. DEFINE new == update(seq[k], tag.time, tag.origin, tag)
  <2>1. ASSUME is_const_gen_tag(seq[k]) PROVE ArrivalKnown(new)
    <3>1. new = TimingTag(tag.time, tag.launch, tag.capture, tag.origin, seq[k].type)
      BY <2>1 DEF update
    <3>2. new.time = tag.time /\ new.launch = tag.launch /\ new.capture = tag.capture
      BY <3>1, TagFields
    <3>. QED
      BY <1>2, <3>2 DEF ArrivalKnown, is_const_gen_tag
  <2>2. ASSUME ~is_const_gen_tag(seq[k]) PROVE ArrivalKnown(new)
    <3>1. new = TimingTag(tag.time, seq[k].launch, seq[k].capture, tag.origin, seq[k].type)
      BY <2>2, Retimed DEF update
    <3>2. new.launch = seq[k].launch
      BY <3>1, TagFields
    <3>. QED
      BY <2>2, <3>2 DEF ArrivalKnown
  <2>3. ArrivalKnown(new)
    BY <2>1, <2>2, Zenon
  <2>. HIDE DEF new
  <2>4. DOMAIN merged = 1 .. n /\ \A i \in 1 .. n : merged[i] = IF i = k THEN new ELSE seq[i]
    BY <1>1, <1>5 DEF new
  <2>. QED
    BY <2>3, <2>4
<1>6. \/ merged = Append(seq, tag)
      \/ \E k \in 1 .. n :
           /\ Agrees(tag.launch, seq[k].launch) /\ Agrees(tag.capture, seq[k].capture)
           /\ \/ merged = seq
              \/ merged = [seq EXCEPT ![k] = update(seq[k], tag.time, tag.origin, tag)]
  <2>1. Merges(seq, tag, merged)
    BY <1>1, MergeCases
  <2>. QED
    BY <2>1, Zenon DEF Merges
<1>. QED
  BY <1>3, <1>4, <1>5, <1>6, Zenon

\* Every pair of domains is kept where it was, and that of the tag is there.
RequiredAdded(seq, tag, merged) ==
  /\ \A i \in DOMAIN merged : RequiredKnown(merged[i])
  /\ \A i \in DOMAIN seq : /\ i \in DOMAIN merged
                           /\ merged[i].launch = seq[i].launch
                           /\ merged[i].capture = seq[i].capture
  /\ \E i \in DOMAIN merged : merged[i].launch = tag.launch /\ merged[i].capture = tag.capture

LEMMA MergedRequireds ==
  ASSUME NEW S, NEW seq \in Seq(S), \A i \in 1 .. Len(seq) : IsTag(seq[i]) /\ RequiredKnown(seq[i]),
         NEW side, NEW tag, IsTag(tag), RequiredKnown(tag),
         NEW merged, merged = MergeInto(seq, side, tag.time, tag.origin, tag).seq
  PROVE  RequiredAdded(seq, tag, merged)
<1>. DEFINE n == Len(seq)
<1>1. n \in Nat /\ DOMAIN seq = 1 .. n
  OBVIOUS
<1>2. CASE merged = Append(seq, tag)
  <2>1. DOMAIN merged = 1 .. n + 1 /\ merged[n + 1] = tag /\ \A i \in 1 .. n : merged[i] = seq[i]
    BY <1>1, <1>2
  <2>. QED
    BY <1>1, <2>1 DEF RequiredAdded
<1>3. ASSUME NEW k \in 1 .. n,
             Agrees(tag.launch, seq[k].launch) /\ Agrees(tag.capture, seq[k].capture),
             \/ merged = seq
             \/ merged = [seq EXCEPT ![k] = update(seq[k], tag.time, tag.origin, tag)]
      PROVE  /\ DOMAIN merged = 1 .. n
             /\ \A i \in 1 .. n : merged[i].launch = seq[i].launch /\ merged[i].capture = seq[i].capture
             /\ merged[k].launch = tag.launch /\ merged[k].capture = tag.capture
  <2>. DEFINE new == update(seq[k], tag.time, tag.origin, tag)
  <2>1. seq[k].launch = tag.launch /\ seq[k].capture = tag.capture
    BY <1>3 DEF Agrees, RequiredKnown
  <2>2. ~is_const_gen_tag(seq[k])
    BY <1>3 DEF is_const_gen_tag, RequiredKnown
  <2>3. new = TimingTag(tag.time, seq[k].launch, seq[k].capture, tag.origin, seq[k].type)
    BY <2>2, Retimed DEF update
  <2>4. new.launch = seq[k].launch /\ new.capture = seq[k].capture
    BY <2>3, TagFields
  <2>. HIDE DEF new
  <2>5. merged = seq \/ merged = [seq EXCEPT ![k] = new]
    BY <1>3 DEF new
  <2>. QED
    BY <1>1, <2>1, <2>4, <2>5
<1>4. CASE \E k \in 1 .. n :
             /\ Agrees(tag.launch, seq[k].launch) /\ Agrees(tag.capture, seq[k].capture)
             /\ \/ merged = seq
                \/ merged = [seq EXCEPT ![k] = update(seq[k], tag.time, tag.origin, tag)]
  <2>1. PICK k \in 1 .. n :
             /\ DOMAIN merged = 1 .. n
             /\ \A i \in 1 .. n : merged[i].launch = seq[i].launch /\ merged[i].capture = seq[i].capture
             /\ merged[k].launch = tag.launch /\ merged[k].capture = tag.capture
    BY <1>3, <1>4
  <2>. QED
    BY <1>1, <2>1 DEF RequiredKnown, RequiredAdded
<1>5. \/ merged = Append(seq, tag)
      \/ \E k \in 1 .. n :
           /\ Agrees(tag.launch, seq[k].launch) /\ Agrees(tag.capture, seq[k].capture)
           /\ \/ merged = seq
              \/ merged = [seq EXCEPT ![k] = update(seq[k], tag.time, tag.origin, tag)]
  <2>1. Merges(seq, tag, merged)
    BY <1>1, MergeCases
  <2>. QED
    BY <2>1, Zenon DEF Merges
<1>. QED
  BY <1>2, <1>4, <1>5, Zenon

(***************************************************************************)
(* How the steps change the tags kept.                                     *)
(***************************************************************************)
LEMMA SegmentSeq ==
  ASSUME NEW s, StoreOK(s), NEW type \in AllTypes
  PROVE  LET seq == tags_of(s, type)
         IN  /\ seq \in Seq({seq[i] : i \in DOMAIN seq}) /\ DOMAIN seq = 1 .. Len(seq)
             /\ \A i \in 1 .. Len(seq) : IsTag(seq[i])
<1>. DEFINE seq == tags_of(s, type)
            n   == end(s, type) - begin(s, type)
<1>1. /\ n \in Nat /\ Len(seq) = n /\ DOMAIN seq = 1 .. n
      /\ seq = [i \in 1 .. n |-> s.tags[begin(s, type) + i - 1]]
      /\ \A i \in 1 .. n : IsTag(seq[i])
  BY TagsOf
<1>2. seq \in Seq({seq[i] : i \in DOMAIN seq})
  <2>. DEFINE S == {seq[i] : i \in DOMAIN seq}
  <2>1. seq = [i \in 1 .. n |-> seq[i]]
    BY <1>1
  <2>. HIDE DEF seq, n
  <2>2. \A i \in 1 .. n : seq[i] \in S
    BY <1>1
  <2>. HIDE DEF S
  <2>3. seq \in Seq(S)
    BY <1>1, <2>1, <2>2
  <2>. QED
    BY <2>3 DEF S
<1>. QED
  BY <1>1, <1>2

LEMMA SetKeepsKnown ==
  ASSUME StoreOK(store), TagsKnown, NEW tag \in NodeTags, tag.type \in ArrivalTypes, HasRoom(tag),
         store' = store_set_tag(store, tag)
  PROVE  TagsKnown'
<1>. DEFINE seq == ArrivalsOf(store)
<1>1. tag.type \in AllTypes /\ "DATA_ARRIVAL" \in AllTypes /\ "DATA_REQUIRED" \in AllTypes
      /\ tag.type # "DATA_REQUIRED"
  BY DEF AllTypes, TagTypes, ArrivalTypes
<1>2. RequiredsOf(store') = RequiredsOf(store)
  BY <1>1, SameSet, GuardGivesRoom DEF RequiredsOf
<1>3. \A i \in DOMAIN ArrivalsOf(store') : ArrivalKnown(ArrivalsOf(store')[i])
  <2>1. CASE tag.type # "DATA_ARRIVAL"
    <3>1. ArrivalsOf(store') = ArrivalsOf(store)
      BY <1>1, <2>1, SameSet, GuardGivesRoom DEF ArrivalsOf
    <3>. QED
      BY <3>1 DEF TagsKnown
  <2>2. CASE tag.type = "DATA_ARRIVAL"
    <3>1. seq \in Seq({seq[i] : i \in DOMAIN seq}) /\ DOMAIN seq = 1 .. Len(seq)
      BY <1>1, SegmentSeq DEF ArrivalsOf
    <3>2. ArrivalKnown(tag)
      BY <2>2, TagsAssumption DEF ArrivalKnown, Launches
    <3>3. \A i \in 1 .. Len(seq) : ArrivalKnown(seq[i])
      BY <3>1 DEF TagsKnown
    <3>4. \/ ArrivalsOf(store') = Append(seq, tag)
          \/ \E k : ArrivalsOf(store') = [seq EXCEPT ![k] = tag]
          \/ ArrivalsOf(store') = seq
      BY <1>1, <2>2, SameSet, GuardGivesRoom DEF ArrivalsOf
    <3>. HIDE DEF seq
    <3>5. CASE ArrivalsOf(store') = Append(seq, tag)
      BY <3>1, <3>2, <3>3, <3>5
    <3>6. CASE \E k : ArrivalsOf(store') = [seq EXCEPT ![k] = tag]
      BY <3>1, <3>2, <3>3, <3>6
    <3>7. CASE ArrivalsOf(store') = seq
      BY <3>1, <3>3, <3>7
    <3>. QED
      BY <3>4, <3>5, <3>6, <3>7
  <2>. QED
    BY <2>1, <2>2
<1>. QED
  BY <1>2, <1>3 DEF TagsKnown

LEMMA ArrivalMergeKeepsKnown ==
  ASSUME StoreOK(store), TagsKnown, NEW tag \in NodeTags, tag.type \in ArrivalTypes, HasRoom(tag),
         NEW side, store' = store_merge(store, side, tag)
  PROVE  TagsKnown'
<1>. DEFINE seq == ArrivalsOf(store)
<1>1. /\ tag.type \in AllTypes /\ "DATA_ARRIVAL" \in AllTypes /\ "DATA_REQUIRED" \in AllTypes
      /\ tag.type # "DATA_REQUIRED" /\ IsTag(tag)
  BY TagsAssumption DEF AllTypes, TagTypes, ArrivalTypes
<1>2. RequiredsOf(store') = RequiredsOf(store)
  BY <1>1, SameMerge, GuardGivesRoom DEF RequiredsOf
<1>3. \A i \in DOMAIN ArrivalsOf(store') : ArrivalKnown(ArrivalsOf(store')[i])
  <2>1. CASE tag.type # "DATA_ARRIVAL"
    <3>1. ArrivalsOf(store') = ArrivalsOf(store)
      BY <1>1, <2>1, SameMerge, GuardGivesRoom DEF ArrivalsOf
    <3>. QED
      BY <3>1 DEF TagsKnown
  <2>2. CASE tag.type = "DATA_ARRIVAL"
    <3>1. /\ seq \in Seq({seq[i] : i \in DOMAIN seq}) /\ DOMAIN seq = 1 .. Len(seq)
          /\ \A i \in 1 .. Len(seq) : IsTag(seq[i])
      BY <1>1, SegmentSeq DEF ArrivalsOf
    <3>2. \A i \in 1 .. Len(seq) : IsTag(seq[i]) /\ ArrivalKnown(seq[i])
      BY <3>1 DEF TagsKnown
    <3>3. ArrivalsOf(store') = MergeInto(seq, side, tag.time, tag.origin, tag).seq
      BY <1>1, <2>2, SameMerge, GuardGivesRoom DEF ArrivalsOf
    <3>. HIDE DEF seq
    <3>. QED
      BY <2>2, <3>1, <3>2, <3>3, MergedArrivals
  <2>. QED
    BY <2>1, <2>2
<1>. QED
  BY <1>2, <1>3 DEF TagsKnown

LEMMA RequiredMergeKeepsKnown ==
  ASSUME StoreOK(store), TagsKnown, NEW tag, IsTag(tag), tag.type = "DATA_REQUIRED",
         RequiredKnown(tag), HasRoom(tag), NEW side, store' = store_merge(store, side, tag)
  PROVE  /\ TagsKnown'
         /\ ArrivalsOf(store') = ArrivalsOf(store)
         /\ \A arrival, c : Asked(store, arrival, c) => Asked(store', arrival, c)
         /\ \A arrival, c :
              RequiredPair(arrival, c) = <<tag.launch, tag.capture>> => Asked(store', arrival, c)
<1>. DEFINE seq == RequiredsOf(store)
<1>1. tag.type \in AllTypes /\ "DATA_ARRIVAL" \in AllTypes
  BY DEF AllTypes, TagTypes, ArrivalTypes
<1>2. ArrivalsOf(store') = ArrivalsOf(store)
  BY <1>1, SameMerge, GuardGivesRoom DEF ArrivalsOf
<1>3. /\ seq \in Seq({seq[i] : i \in DOMAIN seq}) /\ DOMAIN seq = 1 .. Len(seq)
      /\ \A i \in 1 .. Len(seq) : IsTag(seq[i])
  BY <1>1, SegmentSeq DEF RequiredsOf
<1>4. \A i \in 1 .. Len(seq) : IsTag(seq[i]) /\ RequiredKnown(seq[i])
  BY <1>3 DEF TagsKnown
<1>5. RequiredsOf(store') = MergeInto(seq, side, tag.time, tag.origin, tag).seq
  BY <1>1, SameMerge, GuardGivesRoom DEF RequiredsOf
<1>. DEFINE merged == RequiredsOf(store')
<1>6. RequiredAdded(seq, tag, merged)
  <2>. HIDE DEF seq, merged
  <2>1. merged = MergeInto(seq, side, tag.time, tag.origin, tag).seq
    BY <1>5 DEF merged
  <2>. QED
    BY <1>3, <1>4, <2>1, MergedRequireds
<1>7. TagsKnown'
  BY <1>2, <1>6 DEF TagsKnown, RequiredAdded
<1>8. ASSUME NEW arrival, NEW c, Asked(store, arrival, c) PROVE Asked(store', arrival, c)
  BY <1>6, <1>8 DEF Asked, RequiredAdded
<1>9. ASSUME NEW arrival, NEW c, RequiredPair(arrival, c) = <<tag.launch, tag.capture>>
      PROVE  Asked(store', arrival, c)
  BY <1>6, <1>9 DEF Asked, RequiredAdded
<1>. QED
  BY <1>2, <1>7, <1>8, <1>9

\* A reset leaves the domains of a tag, and gives it the time it resets to.
ResetLike(seq, new, time) ==
  /\ DOMAIN new = DOMAIN seq
  /\ \A i \in DOMAIN seq : \/ new[i] = seq[i]
                           \/ /\ new[i].launch = seq[i].launch /\ new[i].time = time
                              /\ new[i].capture = seq[i].capture

LEMMA ResetKeepsKnown ==
  ASSUME StoreOK(store), TagsKnown, NEW types \in {ArrivalTypes, {"DATA_REQUIRED"}, {"SLACK"}},
         NEW time \in {PosInf, NegInf}, NEW origins,
         store' = ResetOf(store, HitsOf(store, types, origins), time)
  PROVE  TagsKnown'
<1>1. types \in SUBSET AllTypes /\ "DATA_ARRIVAL" \in AllTypes /\ "DATA_REQUIRED" \in AllTypes
  BY DEF AllTypes, TagTypes, ArrivalTypes
<1>2. IsInf(time)
  BY DEF IsInf
<1>3. ASSUME NEW type \in AllTypes, NEW seq, seq = tags_of(store, type),
             NEW new, new = tags_of(store', type)
      PROVE  ResetLike(seq, new, time)
  <2>1. new = ResetTags(seq, origins, time) \/ new = seq
    BY <1>1, <1>3, SameReset
  <2>2. \A i \in DOMAIN seq : IsTag(seq[i])
    BY <1>3, TagsOf
  <2>3. \A i \in DOMAIN seq :
          [seq[i] EXCEPT !.time = time, !.origin = NoNode] =
            TimingTag(time, seq[i].launch, seq[i].capture, NoNode, seq[i].type)
    BY <2>2, Retimed
  <2>4. \A i \in DOMAIN seq :
          LET t == [seq[i] EXCEPT !.time = time, !.origin = NoNode]
          IN  t.launch = seq[i].launch /\ t.time = time /\ t.capture = seq[i].capture
    <3>. SUFFICES ASSUME NEW i \in DOMAIN seq, NEW t,
                         t = [seq[i] EXCEPT !.time = time, !.origin = NoNode]
                  PROVE  t.launch = seq[i].launch /\ t.time = time /\ t.capture = seq[i].capture
      BY Zenon
    <3>1. t = TimingTag(time, seq[i].launch, seq[i].capture, NoNode, seq[i].type)
      BY <2>3
    <3>. QED
      BY <3>1, TagFields
  <2>. QED
    BY <2>1, <2>4 DEF ResetTags, ResetLike
<1>4. \A i \in DOMAIN ArrivalsOf(store') : ArrivalKnown(ArrivalsOf(store')[i])
  <2>. DEFINE seq == ArrivalsOf(store)
              new == ArrivalsOf(store')
  <2>1. ResetLike(seq, new, time)
    BY <1>1, <1>3 DEF ArrivalsOf
  <2>2. \A i \in DOMAIN seq : ArrivalKnown(seq[i])
    BY DEF TagsKnown
  <2>. HIDE DEF seq, new
  <2>3. \A i \in DOMAIN new : ArrivalKnown(new[i])
    BY <1>2, <2>1, <2>2 DEF ArrivalKnown, is_const_gen_tag, ResetLike
  <2>. QED
    BY <2>3 DEF new
<1>5. \A i \in DOMAIN RequiredsOf(store') : RequiredKnown(RequiredsOf(store')[i])
  <2>. DEFINE seq == RequiredsOf(store)
              new == RequiredsOf(store')
  <2>1. ResetLike(seq, new, time)
    BY <1>1, <1>3 DEF RequiredsOf
  <2>2. \A i \in DOMAIN seq : RequiredKnown(seq[i])
    BY DEF TagsKnown
  <2>. HIDE DEF seq, new
  <2>3. \A i \in DOMAIN new : RequiredKnown(new[i])
    BY <2>1, <2>2 DEF RequiredKnown, ResetLike
  <2>. QED
    BY <2>3 DEF new
<1>. QED
  BY <1>4, <1>5 DEF TagsKnown

LEMMA SlackMergeKeepsKnown ==
  ASSUME StoreOK(store), TagsKnown, NEW tag, IsTag(tag), tag.type = "SLACK", HasRoom(tag),
         NEW side, store' = store_merge(store, side, tag)
  PROVE  TagsKnown'
<1>1. "SLACK" \in AllTypes /\ "DATA_ARRIVAL" \in AllTypes /\ "DATA_REQUIRED" \in AllTypes
  BY DEF AllTypes, TagTypes, ArrivalTypes
<1>2. ArrivalsOf(store') = ArrivalsOf(store) /\ RequiredsOf(store') = RequiredsOf(store)
  BY <1>1, SameMerge, GuardGivesRoom DEF ArrivalsOf, RequiredsOf
<1>. QED
  BY <1>2 DEF TagsKnown

LEMMA NewKnown ==
  ASSUME NEW capacity, store = NewStore(capacity)
  PROVE  TagsKnown
<1>1. ArrivalsOf(store) = <<>> /\ RequiredsOf(store) = <<>>
  BY NewIsEmpty DEF ArrivalsOf, RequiredsOf, AllTypes, TagTypes, ArrivalTypes
<1>. QED
  BY <1>1 DEF TagsKnown

LEMMA ClearedKnown ==
  ASSUME NEW capacity, store' = NewStore(capacity)
  PROVE  TagsKnown'
<1>1. ArrivalsOf(store') = <<>> /\ RequiredsOf(store') = <<>>
  BY NewIsEmpty DEF ArrivalsOf, RequiredsOf, AllTypes, TagTypes, ArrivalTypes
<1>. QED
  BY <1>1 DEF TagsKnown

(***************************************************************************)
(* Marking a SINK.  The arrivals are a copy, so what is read is an arrival *)
(* of the container whether or not the array has been moved since.         *)
(***************************************************************************)
LEMMA MarkingStarts ==
  ASSUME StoreInv, mark_sink_required_times
  PROVE  StoreInv'
<1>1. /\ store' = store /\ store.num["DATA_ARRIVAL"] > 0
      /\ marking' = [array |-> OwnCopy, arrivals |-> ArrivalsOf(store), next |-> 1,
                     captures |-> CaptureDomains]
  BY DEF mark_sink_required_times, node_data_arr_tags, ArrivalsOf
<1>2. Len(ArrivalsOf(store)) \in Nat /\ 1 <= Len(ArrivalsOf(store))
  <2>1. "DATA_ARRIVAL" \in AllTypes
    BY DEF AllTypes, TagTypes, ArrivalTypes
  <2>2. /\ begin(store, "DATA_ARRIVAL") \in Nat
        /\ end(store, "DATA_ARRIVAL") = begin(store, "DATA_ARRIVAL") + store.num["DATA_ARRIVAL"]
        /\ store.num["DATA_ARRIVAL"] \in Nat
    BY <2>1, SegmentBounds, CountersAreNat DEF end, StoreInv, StoreOK
  <2>3. Len(ArrivalsOf(store)) = end(store, "DATA_ARRIVAL") - begin(store, "DATA_ARRIVAL")
    BY <2>1, TagsOf DEF ArrivalsOf, StoreInv
  <2>. QED
    BY <1>1, <2>2, <2>3
<1>3. CaptureDomains \in Seq(ToSet(CaptureDomains)) /\ CaptureDomains # <<>>
  BY TagsAssumption DEF ToSet
<1>4. MarkingOK'
  <2>1. /\ marking'.array = OwnCopy /\ marking'.arrivals = ArrivalsOf(store') /\ marking'.next = 1
        /\ marking'.captures = CaptureDomains
        /\ marking' = [array |-> OwnCopy, arrivals |-> ArrivalsOf(store'), next |-> marking'.next,
                       captures |-> marking'.captures]
    BY <1>1
  <2>. QED
    BY <1>1, <1>2, <1>3, <2>1 DEF MarkingOK
<1>. QED
  BY <1>1, <1>4 DEF StoreInv, TagsKnown

\* What a step of the marking puts in.
MarkTag(arrival, c, time) ==
  TimingTag(time, RequiredPair(arrival, c)[1], RequiredPair(arrival, c)[2], NoNode, "DATA_REQUIRED")

LEMMA MarkTagKnown ==
  ASSUME NEW arrival, ArrivalKnown(arrival), NEW c \in ToSet(CaptureDomains), NEW time,
         NEW tag, tag = MarkTag(arrival, c, time)
  PROVE  /\ IsTag(tag) /\ tag.type = "DATA_REQUIRED" /\ RequiredKnown(tag)
         /\ RequiredPair(arrival, c) = <<tag.launch, tag.capture>>
         /\ tag = TimingTag(time, tag.launch, tag.capture, NoNode, "DATA_REQUIRED")
         /\ tag.launch \in Launches \cup ToSet(CaptureDomains)
         /\ tag.capture \in ToSet(CaptureDomains)
<1>. DEFINE launch == IF is_const_gen_tag(arrival) THEN c ELSE arrival.launch
<1>1. RequiredPair(arrival, c) = <<launch, c>>
  BY DEF RequiredPair
<1>2. tag = TimingTag(time, launch, c, NoNode, "DATA_REQUIRED")
  BY <1>1 DEF MarkTag
<1>3. /\ launch # NoDomain /\ c # NoDomain
      /\ launch \in Launches \cup ToSet(CaptureDomains)
  BY TagsAssumption DEF ArrivalKnown
<1>. HIDE DEF launch
<1>4. tag.launch = launch /\ tag.capture = c /\ tag.type = "DATA_REQUIRED" /\ IsTag(tag)
  BY <1>2, TagFields
<1>. QED
  BY <1>1, <1>2, <1>3, <1>4 DEF RequiredKnown

LEMMA TailShorter ==
  ASSUME NEW S, NEW seq \in Seq(S), Len(seq) > 1
  PROVE  Tail(seq) \in Seq(S) /\ Tail(seq) # <<>>
<1>1. Len(<<>>) = 0
  OBVIOUS
<1>2. seq # <<>> /\ Len(seq) \in Nat
  BY <1>1
<1>3. Tail(seq) \in Seq(S) /\ Len(Tail(seq)) = Len(seq) - 1
  BY <1>2, HeadTailProperties, Zenon
<1>4. Len(Tail(seq)) # 0
  BY <1>2, <1>3
<1>. QED
  BY <1>1, <1>3, <1>4

AllAsked == \A c \in ToSet(CaptureDomains) : \A j \in 1 .. Len(ArrivalsOf(store)) :
              Asked(store', ArrivalsOf(store)[j], c)

LEMMA MarkStep ==
  ASSUME StoreInv, MarkNext
  PROVE  /\ StoreInv'
         /\ marking' = NotMarking => AllAsked
         /\ \E arrival, time : /\ ArrivalKnown(arrival) /\ time \in RequiredTimes
                               /\ \E c \in ToSet(CaptureDomains) :
                                    Container!Merge(RequiredSide, MarkTag(arrival, c, time))
<1>. DEFINE arrivals == ArrivalsOf(store)
            captures == marking.captures
            next     == marking.next
            arrival  == arrivals[next]
            C        == ToSet(CaptureDomains)
<1>1. /\ StoreOK(store) /\ TagsKnown /\ MarkingOK /\ marking # NotMarking
      /\ marking' = Advanced(marking)
  BY DEF StoreInv, MarkNext
<1>2. /\ marking = [array |-> OwnCopy, arrivals |-> arrivals, next |-> next, captures |-> captures]
      /\ next \in 1 .. Len(arrivals)
      /\ captures \in Seq(C) /\ captures # <<>>
      /\ \A c \in C : c \in ToSet(captures) \/ \A j \in 1 .. Len(arrivals) : Asked(store, arrivals[j], c)
      /\ \A j \in 1 .. next - 1 : Asked(store, arrivals[j], Head(captures))
  BY <1>1, Zenon DEF MarkingOK
<1>3. /\ DOMAIN arrivals = 1 .. Len(arrivals) /\ Len(arrivals) \in Nat
  <2>1. "DATA_ARRIVAL" \in AllTypes
    BY DEF AllTypes, TagTypes, ArrivalTypes
  <2>. QED
    BY <1>1, <2>1, TagsOf DEF ArrivalsOf
<1>4. ArrivalKnown(arrival)
  BY <1>1, <1>2, <1>3 DEF TagsKnown
<1>5. Read(marking) = arrival
  <2>1. marking.array = OwnCopy /\ marking.arrivals = arrivals
    BY <1>2
  <2>. QED
    BY <2>1 DEF Read
<1>6. PICK time \in RequiredTimes :
        /\ HasRoom(MarkTag(arrival, Head(captures), time))
        /\ store' = store_merge(store, RequiredSide, MarkTag(arrival, Head(captures), time))
  BY <1>5, Zenon DEF MarkNext, MarkTag
<1>. DEFINE c0  == Head(captures)
            tag == MarkTag(arrival, c0, time)
<1>7. c0 \in C /\ c0 \in ToSet(captures)
  BY <1>2 DEF ToSet
<1>. HIDE DEF tag, c0, arrival, arrivals, captures, next, C
<1>8. /\ IsTag(tag) /\ tag.type = "DATA_REQUIRED" /\ RequiredKnown(tag)
      /\ RequiredPair(arrival, c0) = <<tag.launch, tag.capture>>
  BY <1>4, <1>7, MarkTagKnown DEF tag, C
<1>9. HasRoom(tag) /\ store' = store_merge(store, RequiredSide, tag)
  BY <1>6 DEF tag, c0
<1>10. tag.type \in AllTypes
  BY <1>8 DEF AllTypes, TagTypes
<1>11. StoreOK(store')
  BY <1>1, <1>8, <1>9, <1>10, GuardGivesRoom, MergeOK
<1>12. /\ TagsKnown'
       /\ ArrivalsOf(store') = arrivals
       /\ \A a, c : Asked(store, a, c) => Asked(store', a, c)
       /\ \A a, c : RequiredPair(a, c) = <<tag.launch, tag.capture>> => Asked(store', a, c)
  BY <1>1, <1>8, <1>9, RequiredMergeKeepsKnown DEF arrivals
<1>13. \A j \in 1 .. next : Asked(store', arrivals[j], c0)
  <2>1. Asked(store', arrivals[next], c0)
    BY <1>8, <1>12 DEF arrival
  <2>2. \A j \in 1 .. next - 1 : Asked(store', arrivals[j], c0)
    BY <1>2, <1>12 DEF c0
  <2>. QED
    BY <1>2, <2>1, <2>2
<1>14. \A c \in C : c \in ToSet(captures) \/ \A j \in 1 .. Len(arrivals) : Asked(store', arrivals[j], c)
  BY <1>2, <1>12
<1>15. /\ Len(marking.arrivals) = Len(arrivals) /\ marking.captures = captures /\ marking.next = next
       /\ marking.arrivals = arrivals
  BY <1>2, <1>3
<1>16. Container!Merge(RequiredSide, tag)
  BY <1>1, <1>8, <1>9, <1>10, MergeImplements
<1>17. CASE next < Len(arrivals)
  <2>1. marking' = [array |-> OwnCopy, arrivals |-> arrivals, next |-> next + 1, captures |-> captures]
    BY <1>1, <1>2, <1>15, <1>17 DEF Advanced
  <2>2. marking' # NotMarking /\ marking'.next = next + 1 /\ marking'.captures = captures
    BY <2>1 DEF NotMarking, OwnCopy
  <2>3. MarkingOK'
    <3>1. next + 1 \in 1 .. Len(arrivals) /\ (next + 1) - 1 = next
      BY <1>2, <1>3, <1>17
    <3>. QED
      BY <1>2, <1>12, <1>13, <1>14, <2>1, <2>2, <3>1 DEF MarkingOK, C, c0
  <2>. QED
    BY <1>4, <1>7, <1>11, <1>12, <1>16, <2>2, <2>3 DEF StoreInv, tag, C
<1>18. CASE ~(next < Len(arrivals))
  <2>1. next = Len(arrivals)
    <3>1. next \in 1 .. Len(arrivals) /\ Len(arrivals) \in Nat
      BY <1>2, <1>3
    <3>. QED
      BY <1>18, <3>1
  <2>2. \A j \in 1 .. Len(arrivals) : Asked(store', arrivals[j], c0)
    BY <1>13, <2>1
  <2>3. CASE Len(captures) > 1
    <3>1. marking' = [array |-> OwnCopy, arrivals |-> arrivals, next |-> 1, captures |-> Tail(captures)]
      BY <1>1, <1>2, <1>15, <1>18, <2>3 DEF Advanced
    <3>2. marking' # NotMarking /\ marking'.next = 1 /\ marking'.captures = Tail(captures)
      BY <3>1 DEF NotMarking, OwnCopy
    <3>3. Tail(captures) \in Seq(C) /\ Tail(captures) # <<>>
      <4>1. captures \in Seq(C) /\ captures # <<>>
        BY <1>2
      <4>. QED
        BY <2>3, <4>1, TailShorter
    <3>4. \A c \in ToSet(captures) : c = c0 \/ c \in ToSet(Tail(captures))
      <4>. SUFFICES ASSUME NEW i \in DOMAIN captures
                    PROVE  captures[i] = c0 \/ captures[i] \in ToSet(Tail(captures))
        BY DEF ToSet
      <4>1. CASE i = 1
        BY <1>2, <4>1 DEF c0
      <4>2. CASE i # 1
        <5>1. i - 1 \in DOMAIN Tail(captures) /\ Tail(captures)[i - 1] = captures[i]
          BY <1>2, <4>2
        <5>. QED
          BY <5>1 DEF ToSet
      <4>. QED
        BY <4>1, <4>2
    <3>5. MarkingOK'
      <4>1. 1 \in 1 .. Len(arrivals) /\ 1 .. 1 - 1 = {}
        BY <1>2, <1>3
      <4>2. \A c \in C : \/ c \in ToSet(Tail(captures))
                         \/ \A j \in 1 .. Len(arrivals) : Asked(store', arrivals[j], c)
        BY <1>14, <2>2, <3>4
      <4>. QED
        BY <1>12, <3>1, <3>2, <3>3, <4>1, <4>2 DEF MarkingOK, C
    <3>. QED
      BY <1>4, <1>7, <1>11, <1>12, <1>16, <3>2, <3>5 DEF StoreInv, tag, C
  <2>4. CASE ~(Len(captures) > 1)
    <3>1. marking' = NotMarking
      BY <1>1, <1>15, <1>18, <2>4 DEF Advanced
    <3>2. \A c \in ToSet(captures) : c = c0
      BY <1>2, <2>4 DEF ToSet, c0
    <3>3. AllAsked
      BY <1>14, <2>2, <3>2 DEF AllAsked, C, arrivals
    <3>. QED
      BY <1>4, <1>7, <1>11, <1>12, <1>16, <3>1, <3>3 DEF StoreInv, tag, C
  <2>. QED
    BY <2>3, <2>4
<1>. QED
  BY <1>17, <1>18

(***************************************************************************)
(* Every action is a step of the container, or leaves it alone.            *)
(***************************************************************************)
LEMMA VisitsAreSteps ==
  ASSUME NEW tag \in Puts,
         \/ Container!Set(tag)
         \/ \E side \in {"max", "min"} : Container!Merge(side, tag)
  PROVE  Container!Next
BY DEF Container!Next

LEMMA ResetsAreSteps ==
  ASSUME NEW types \in {ArrivalTypes, {"DATA_REQUIRED"}, {"SLACK"}}, NEW time \in {PosInf, NegInf},
         NEW origins \in SUBSET Origins, Container!Reset(types, origins, time)
  PROVE  Container!Next
<1>1. origins \in SUBSET ({NoNode} \cup {t.origin : t \in Puts})
  BY DEF Origins, Puts
<1>2. types \in {Container!ArrivalTypes, {"DATA_REQUIRED"}, {"SLACK"}}
      /\ time \in {Container!PosInf, Container!NegInf}
      /\ origins \in SUBSET ({Container!NoNode} \cup {t.origin : t \in Puts})
  BY <1>1, ContainerTypes, Zenon
<1>. QED
  BY <1>2, Zenon DEF Container!Next

LEMMA MarkTagPut ==
  ASSUME NEW arrival, ArrivalKnown(arrival), NEW time \in RequiredTimes,
         NEW c \in ToSet(CaptureDomains)
  PROVE  MarkTag(arrival, c, time) \in Puts
<1>. DEFINE tag == MarkTag(arrival, c, time)
<1>1. /\ tag = TimingTag(time, tag.launch, tag.capture, NoNode, "DATA_REQUIRED")
      /\ tag.launch \in Launches \cup ToSet(CaptureDomains)
      /\ tag.capture \in ToSet(CaptureDomains)
  BY MarkTagKnown
<1>. HIDE DEF tag
<1>2. tag \in Puts
  BY <1>1 DEF Puts, MarkedTags, Launches
<1>. QED
  BY <1>2 DEF tag

LEMMA DoResetStep ==
  ASSUME StoreInv, NEW types \in {ArrivalTypes, {"DATA_REQUIRED"}, {"SLACK"}},
         NEW time \in {PosInf, NegInf}, do_reset(types, time)
  PROVE  StoreInv' /\ Container!Next /\ marking = NotMarking
<1>1. marking = NotMarking /\ marking' = marking
  BY DEF do_reset
<1>2. PICK origins \in SUBSET Origins :
        /\ store' = ResetOf(store, HitsOf(store, types, origins), time)
        /\ Container!Reset(types, origins, time)
  BY ResetImplements DEF StoreInv
<1>3. StoreOK(store') /\ TagsKnown'
  BY <1>2, ResetOK, ResetKeepsKnown DEF StoreInv
<1>4. Container!Next
  BY <1>2, ResetsAreSteps
<1>. QED
  BY <1>1, <1>3, <1>4 DEF StoreInv

LEMMA StoreStep ==
  ASSUME StoreInv, [Next]_store_vars
  PROVE  /\ StoreInv'
         /\ Container!Next \/ Seen' = Seen
         /\ marking # NotMarking /\ marking' = NotMarking => AllAsked
<1>. USE LimitsAssumption, TagsAssumption
<1>0. /\ \A tag \in NodeTags : IsTag(tag) /\ tag \in Puts
      /\ \A tag \in SlackTags : IsTag(tag) /\ tag \in Puts /\ tag.type = "SLACK"
      /\ {ArrivalSide, RequiredSide, "min"} \subseteq {"max", "min"}
      /\ "SLACK" \in AllTypes /\ "DATA_REQUIRED" \in AllTypes /\ ArrivalTypes \subseteq AllTypes
  BY DEF Puts, AllTypes, TagTypes
<1>s. StoreOK(store) /\ TagsKnown
  BY DEF StoreInv
<1>k. StoreOK(store')
  BY <1>s, StepKeepsStore
<1>1. ASSUME NEW tag \in NodeTags, set_node_tag(tag)
      PROVE  StoreInv' /\ Container!Next /\ marking = NotMarking
  <2>1. /\ tag.type \in ArrivalTypes /\ HasRoom(tag) /\ store' = store_set_tag(store, tag)
        /\ marking = NotMarking /\ marking' = marking
    BY <1>1 DEF set_node_tag, Visit
  <2>2. TagsKnown' /\ Container!Set(tag)
    BY <1>0, <1>s, <2>1, SetKeepsKnown, SetImplements
  <2>. QED
    BY <1>0, <1>k, <2>1, <2>2, VisitsAreSteps DEF StoreInv
<1>2. ASSUME NEW tag \in NodeTags, merge_arr_tags(tag)
      PROVE  StoreInv' /\ Container!Next /\ marking = NotMarking
  <2>1. /\ tag.type \in ArrivalTypes /\ HasRoom(tag) /\ store' = store_merge(store, ArrivalSide, tag)
        /\ marking = NotMarking /\ marking' = marking
    BY <1>2 DEF merge_arr_tags, Visit
  <2>2. TagsKnown' /\ Container!Merge(ArrivalSide, tag)
    BY <1>0, <1>s, <2>1, ArrivalMergeKeepsKnown, MergeImplements
  <2>. QED
    BY <1>0, <1>k, <2>1, <2>2, VisitsAreSteps DEF StoreInv
<1>3. ASSUME NEW tag \in NodeTags, merge_req_tags(tag)
      PROVE  StoreInv' /\ Container!Next /\ marking = NotMarking
  <2>1. /\ tag.type = "DATA_REQUIRED" /\ HasRoom(tag) /\ store' = store_merge(store, RequiredSide, tag)
        /\ marking = NotMarking /\ marking' = marking
    BY <1>3 DEF merge_req_tags, Visit
  <2>2. RequiredKnown(tag)
    BY <2>1 DEF RequiredKnown
  <2>3. TagsKnown' /\ Container!Merge(RequiredSide, tag)
    BY <1>0, <1>s, <2>1, <2>2, RequiredMergeKeepsKnown, MergeImplements
  <2>. QED
    BY <1>0, <1>k, <2>1, <2>3, VisitsAreSteps DEF StoreInv
<1>4. ASSUME NEW tag \in SlackTags, merge_slack_tags(tag)
      PROVE  StoreInv' /\ Container!Next /\ marking = NotMarking
  <2>1. /\ HasRoom(tag) /\ store' = store_merge(store, "min", tag)
        /\ marking = NotMarking /\ marking' = marking
    BY <1>4 DEF merge_slack_tags, Visit
  <2>2. TagsKnown' /\ Container!Merge("min", tag)
    BY <1>0, <1>s, <2>1, SlackMergeKeepsKnown, MergeImplements
  <2>. QED
    BY <1>0, <1>k, <2>1, <2>2, VisitsAreSteps DEF StoreInv
<1>5. CASE do_reset_node_arrival_tags
  BY <1>5, DoResetStep DEF do_reset_node_arrival_tags
<1>6. CASE do_reset_node_required_tags
  BY <1>6, DoResetStep DEF do_reset_node_required_tags
<1>7. CASE do_reset_node_slack_tags
  BY <1>7, DoResetStep DEF do_reset_node_slack_tags
<1>8. CASE reset_node
  <2>1. store' = NewStore(store.capacity) /\ marking = NotMarking /\ marking' = marking
    BY <1>8 DEF reset_node, clear
  <2>2. TagsKnown' /\ Container!Clear
    BY <2>1, ClearedKnown, ClearImplements
  <2>. QED
    BY <1>k, <2>1, <2>2 DEF StoreInv, Container!Next
<1>9. CASE mark_sink_required_times
  <2>1. marking = NotMarking /\ store' = store
    BY <1>9 DEF mark_sink_required_times
  <2>2. Seen' = Seen
    BY <2>1 DEF Seen
  <2>. QED
    BY <1>9, <2>1, <2>2, MarkingStarts
<1>10. CASE MarkNext
  <2>1. PICK arrival, time :
          /\ ArrivalKnown(arrival) /\ time \in RequiredTimes
          /\ \E c \in ToSet(CaptureDomains) :
               Container!Merge(RequiredSide, MarkTag(arrival, c, time))
    BY <1>10, MarkStep
  <2>2. Container!Next
    BY <1>0, <2>1, MarkTagPut, VisitsAreSteps
  <2>. QED
    BY <1>10, <2>2, MarkStep
<1>11. CASE UNCHANGED store_vars
  BY <1>11 DEF store_vars, StoreInv, StoreOK, TagsKnown, MarkingOK, Seen
<1>. QED
  BY <1>1, <1>2, <1>3, <1>4, <1>5, <1>6, <1>7, <1>8, <1>9, <1>10, <1>11 DEF Next

LEMMA StoreStarts ==
  ASSUME Init
  PROVE  StoreInv /\ Container!Init
<1>1. store = NewStore(DEFAULT_TAGS_TO_RESERVE) /\ marking = NotMarking
  BY DEF Init
<1>2. StoreOK(store)
  BY <1>1, LimitsAssumption, NewStoreOK
<1>. QED
  BY <1>1, <1>2, NewKnown, NewImplements DEF StoreInv

(***************************************************************************)
(* The refinement, for any tags, limits and clocks: what the visitors of a *)
(* node see of the array, its counters and its moves to larger memory is   *)
(* a container that keeps the tags of every type in the order they were    *)
(* added; every insertion, merge, reset and step of a marking is one of its*)
(* steps.                                                                  *)
(***************************************************************************)
THEOREM StoreImplementsContainer == Spec => VisitorSeesContainer
<1>1. Init => StoreInv /\ Container!Init
  BY StoreStarts
<1>2. StoreInv /\ [Next]_store_vars => StoreInv'
  BY StoreStep
<1>3. StoreInv /\ [Next]_store_vars =>
        [Container!Next]_([type \in AllTypes |-> tags_of(store, type)])
  BY StoreStep DEF Seen
<1>. QED
  BY <1>1, <1>2, <1>3, PTL DEF Spec, VisitorSeesContainer, Container!Spec

(***************************************************************************)
(* The marking of a SINK: when it ends, every arrival has a required time  *)
(* for every capture clock, whatever the insertions of the marking itself  *)
(* moved.                                                                  *)
(***************************************************************************)
THEOREM MarkingRequiresEveryArrival == Spec => EveryArrivalRequired
<1>. DEFINE Marked == marking # NotMarking /\ marking' = NotMarking =>
              \A arrival \in ToSet(tags_of(store, "DATA_ARRIVAL")), c \in ToSet(CaptureDomains) :
                \E r \in ToSet(tags_of(store', "DATA_REQUIRED")) :
                   <<r.launch, r.capture>> = RequiredPair(arrival, c)
<1>1. Init => StoreInv
  BY StoreStarts
<1>2. StoreInv /\ [Next]_store_vars => StoreInv'
  BY StoreStep
<1>3. StoreInv /\ [Next]_store_vars => Marked
  <2>. SUFFICES ASSUME StoreInv, [Next]_store_vars, marking # NotMarking, marking' = NotMarking,
                       NEW arrival \in ToSet(ArrivalsOf(store)), NEW c \in ToSet(CaptureDomains)
                PROVE  \E r \in ToSet(RequiredsOf(store')) :
                         <<r.launch, r.capture>> = RequiredPair(arrival, c)
    BY DEF ArrivalsOf, RequiredsOf
  <2>1. AllAsked
    BY StoreStep
  <2>2. DOMAIN ArrivalsOf(store) = 1 .. Len(ArrivalsOf(store))
    BY SegmentSeq DEF ArrivalsOf, StoreInv, AllTypes, TagTypes, ArrivalTypes
  <2>3. PICK j \in 1 .. Len(ArrivalsOf(store)) : arrival = ArrivalsOf(store)[j]
    BY <2>2 DEF ToSet
  <2>4. Asked(store', arrival, c)
    BY <2>1, <2>3 DEF AllAsked
  <2>. QED
    BY <2>4 DEF Asked, ToSet
<1>. QED
  BY <1>1, <1>2, <1>3, PTL DEF Spec, EveryArrivalRequired
================================================================================
