------------------------- MODULE CommittedRecords -------------------------
(* What a reader of a streamed store may count on: an item (a record or a  *)
(* static) is absent or has one content, that of every writer's region; it *)
(* appears whole, and as long as it is there its content does not change.  *)
CONSTANTS
    Item,       \* records and statics
    Content,    \* what a whole item may hold
    Absent      \* an item no reader gets

VARIABLE visible    \* visible[x]: the content of x, or Absent

Init == visible = [x \in Item |-> Absent]

Seen == {x \in Item : visible[x] # Absent}

\* The owner commits the items X, every region of each at once.
Publish(X) ==
    /\ X # {} /\ X \cap Seen = {}
    /\ visible' \in [Item -> Content \cup {Absent}]
    /\ \A x \in Item : IF x \in X THEN visible'[x] # Absent ELSE visible'[x] = visible[x]

\* The owner invalidates them, or a resume truncates them away.
Withdraw(X) ==
    /\ X # {} /\ X \subseteq Seen
    /\ visible' = [x \in Item |-> IF x \in X THEN Absent ELSE visible[x]]

Next == \E X \in SUBSET Item : Publish(X) \/ Withdraw(X)

Spec == Init /\ [][Next]_visible
=============================================================================
