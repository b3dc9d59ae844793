------------------------------- MODULE Circuit --------------------------------
(***************************************************************************)
(* What a timing graph promises to the client that builds it: a circuit of *)
(* named parts and wires, each part with its wires in the order they were  *)
(* added.  The client never sees ids here, so nothing that renumbers them  *)
(* may show.                                                               *)
(***************************************************************************)
EXTENDS Lists

CONSTANTS PartNames, WireNames,
          PartType,   \* the type of each part
          Wire        \* the type, source and sink of each wire

VARIABLES parts,      \* present parts, with their types
          wires,      \* present wires, with their ends and whether disabled
          fanin, fanout

circuit == <<parts, wires, fanin, fanout>>

With(f, key, x) == [k \in DOMAIN f \cup {key} |-> IF k = key THEN x ELSE f[k]]
Without(f, keys) == [k \in DOMAIN f \ keys |-> f[k]]

Init ==
  /\ parts = << >>
  /\ wires = << >>
  /\ fanin  = [p \in PartNames |-> <<>>]
  /\ fanout = [p \in PartNames |-> <<>>]

AddPart(p) ==
  /\ p \notin DOMAIN parts
  /\ parts' = With(parts, p, PartType[p])
  /\ UNCHANGED <<wires, fanin, fanout>>

AddWire(w) ==
  /\ w \notin DOMAIN wires
  /\ {Wire[w].src, Wire[w].sink} \subseteq DOMAIN parts
  /\ wires'  = With(wires, w, [end |-> Wire[w], disabled |-> FALSE])
  /\ fanout' = [fanout EXCEPT ![Wire[w].src]  = Append(@, w)]
  /\ fanin'  = [fanin  EXCEPT ![Wire[w].sink] = Append(@, w)]
  /\ UNCHANGED parts

DropWires(dropped) ==
  /\ wires'  = Without(wires, dropped)
  /\ fanin'  = [p \in PartNames |-> Kept(fanin[p],  WireNames \ dropped)]
  /\ fanout' = [p \in PartNames |-> Kept(fanout[p], WireNames \ dropped)]

RemoveWire(w) ==
  /\ w \in DOMAIN wires
  /\ DropWires({w})
  /\ UNCHANGED parts

RemovePart(p) ==
  /\ p \in DOMAIN parts
  /\ parts' = Without(parts, {p})
  /\ DropWires(ToSet(fanin[p]) \cup ToSet(fanout[p]))

DisableWire(w, disable) ==
  /\ w \in DOMAIN wires
  /\ wires' = [wires EXCEPT ![w].disabled = disable]
  /\ UNCHANGED <<parts, fanin, fanout>>

(***************************************************************************)
(* The client starts over.                                                 *)
(***************************************************************************)
Discard ==
  /\ parts' = << >> /\ wires' = << >>
  /\ fanin'  = [p \in PartNames |-> <<>>]
  /\ fanout' = [p \in PartNames |-> <<>>]

Next == \/ \E p \in PartNames : AddPart(p) \/ RemovePart(p)
        \/ \E w \in WireNames : \/ AddWire(w) \/ RemoveWire(w)
                                \/ \E disable \in BOOLEAN : DisableWire(w, disable)
        \/ Discard

Spec == Init /\ [][Next]_circuit
==============================================================================
