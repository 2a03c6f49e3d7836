--------------------------- MODULE MCSharedStore ---------------------------
\* Small instances of SharedStore for TLC.
EXTENDS SharedStore

CONSTANTS p1, p2, p3

\* Bindings that lock alike: Rust with Python; Julia, next to an offline reader.
Flocks   == [lang |-> [p \in Procs |-> IF p = p1 THEN "python" ELSE "rust"], offline |-> {},
             versions |-> 3, fetches |-> 3]
Pidfiles == [lang |-> [p \in Procs |-> IF p = p3 THEN "rust" ELSE "julia"], offline |-> {p3},
             versions |-> 2, fetches |-> 4]
Alike    == {Flocks, Pidfiles}

\* Julia next to Python.
Unlike   == {[lang |-> [p \in Procs |-> IF p = p1 THEN "julia" ELSE "python"], offline |-> {}, versions |-> 1,
               fetches |-> 2]}
=============================================================================
