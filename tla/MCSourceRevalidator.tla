------------------------ MODULE MCSourceRevalidator ------------------------
\* Small instances of SourceRevalidator for TLC.  A tick is a second.
EXTENDS SourceRevalidator, TLC

EqualLengths == [c \in Content |-> 1]

Interchangeable == Permutations(Readers) \cup Permutations(Content) \cup Permutations(Files)
=============================================================================
