-------------------------------- MODULE Lists ---------------------------------
(***************************************************************************)
(* Lists the code builds by going through another one and pushing back     *)
(* what it keeps.                                                          *)
(***************************************************************************)
EXTENDS Sequences, SequencesExt

(***************************************************************************)
(* The values of f along seq; an element f is not defined for is left out. *)
(***************************************************************************)
Mapped(seq, f) ==
  FoldLeft(LAMBDA kept, x : IF x \in DOMAIN f THEN Append(kept, f[x]) ELSE kept, <<>>, seq)

Kept(seq, S) == Mapped(seq, [x \in S |-> x])

Concatenated(seqs) == FoldLeft(LAMBDA all, seq : all \o seq, <<>>, seqs)
==============================================================================
