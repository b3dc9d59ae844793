---------------------------- MODULE TimingAnalyzer ----------------------------
(***************************************************************************)
(* What a timing analyzer promises its client, whatever walker is behind   *)
(* it: once an update of some analysis modes returns, the result of those  *)
(* modes is the analysis of the current delays; nothing else touches a     *)
(* result.  A result is Unknown before the first update and during one.    *)
(***************************************************************************)
CONSTANTS Modes,            \* the analyses kept: setup, hold or both
          Delays,           \* the delay functions the client may set
          Analysis(_, _),   \* the result of a mode under a delay function
          Unknown           \* no promise

VARIABLES delay, result, updating

vars == <<delay, result, updating>>

Init == /\ delay \in Delays
        /\ result = [m \in Modes |-> Unknown]
        /\ updating = {}

ChangeDelay == /\ updating = {}
               /\ delay' \in Delays
               /\ UNCHANGED <<result, updating>>

(***************************************************************************)
(* The first update must be of all modes.                                  *)
(***************************************************************************)
StartUpdate == /\ updating = {}
               /\ updating' \in (SUBSET Modes) \ {{}}
               /\ updating' = Modes \/ \A m \in Modes : result[m] # Unknown
               /\ result' = [m \in Modes |-> IF m \in updating' THEN Unknown ELSE result[m]]
               /\ UNCHANGED delay

FinishUpdate == /\ updating # {}
                /\ updating' = {}
                /\ result' = [m \in Modes |-> IF m \in updating THEN Analysis(m, delay)
                                                                ELSE result[m]]
                /\ UNCHANGED delay

Next == ChangeDelay \/ StartUpdate \/ FinishUpdate

Spec == Init /\ [][Next]_vars
==============================================================================
