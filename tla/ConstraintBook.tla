---------------------------- MODULE ConstraintBook ----------------------------
(***************************************************************************)
(* What the timing constraints promise the client that sets them: a book   *)
(* with one value per subject, the last one set.  A subject is a kind of   *)
(* constraint with the parts and clock domains it is about, all by name;   *)
(* ids do not show.                                                        *)
(***************************************************************************)
CONSTANTS Entries,   \* the <<subject, value>> pairs a client may set
          Marks,     \* those it may take back
          Initial,   \* the pairs it starts from
          Parts,
          Transcribed(_)   \* what is left of a pair in a copy of the book

VARIABLE book        \* the pairs that are set

SubjectOf(entry) == entry[1]

Init == book = Initial

Enter(entry)  == book' = {e \in book : SubjectOf(e) # SubjectOf(entry)} \cup {entry}
Strike(entry) == book' = {e \in book : SubjectOf(e) # SubjectOf(entry)}

(***************************************************************************)
(* A part is removed: a clock that has it as its source becomes a virtual  *)
(* clock.                                                                  *)
(***************************************************************************)
SourcedAt(entry, part) == SubjectOf(entry)[1] = "CLOCK_SOURCE" /\ entry[2] = part

LosePart(part) == book' = {e \in book : ~SourcedAt(e, part)}

StartOver == book' = Initial

Amend == \/ \E e \in Entries : Enter(e)
         \/ \E e \in Marks : Strike(e)
         \/ \E p \in Parts : LosePart(p)
         \/ StartOver

(***************************************************************************)
(* The book is written to a file and read from there.                      *)
(***************************************************************************)
Transcribe == book' = {Transcribed(e) : e \in book}

Next == Amend \/ Transcribe

Spec == Init /\ [][Next]_book
==============================================================================
