---------------------------- MODULE TagContainer ----------------------------
(***************************************************************************)
(* What the tag container of a node promises its visitor: the tags of each *)
(* type in the order they were added, one per pair of clock domains, and   *)
(* nothing of the storage behind them.                                     *)
(***************************************************************************)
EXTENDS TimingTags

CONSTANT Arguments   \* the tags a visitor sets or merges

VARIABLE tags

AllTypes == TagTypes \cup {"SLACK"}

Init == tags = [type \in AllTypes |-> <<>>]

Set(tag) == tags' = set_tag(tags, tag)

Merge(side, tag) ==
  tags' = [tags EXCEPT ![tag.type] = MergeInto(@, side, tag.time, tag.origin, tag).seq]

Reset(types, origins, time) ==
  tags' = [type \in AllTypes |-> IF type \in types THEN ResetTags(tags[type], origins, time)
                                 ELSE tags[type]]

Clear == Init'

Next == \/ \E tag \in Arguments : Set(tag) \/ Merge("max", tag) \/ Merge("min", tag)
        \/ \E types \in {ArrivalTypes, {"DATA_REQUIRED"}, {"SLACK"}}, time \in {PosInf, NegInf},
              origins \in SUBSET ({NoNode} \cup {t.origin : t \in Arguments}) :
             Reset(types, origins, time)
        \/ Clear

Spec == Init /\ [][Next]_tags
==============================================================================
