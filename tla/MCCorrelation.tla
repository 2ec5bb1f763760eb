--------------------------- MODULE MCCorrelation ---------------------------
EXTENDS Correlation, TLC
CONSTANTS q1, v1, e1, e2, message

TypeTable  == [e \in Events |-> message]
\* where there is an ask, the events are answers to its message
CauseTable == [e \in Events |-> IF q1 \in Asks THEN q1 ELSE NoHandle]
Echoes     == [a \in Asks |-> NoEvent]

\* next to an ask that takes any event, the receive takes only the first
Filters == (Asks \X Events) \cup (Receives \X (IF q1 \in Asks THEN {e1} ELSE Events))
Bounded == [v \in Receives |-> 2]
Single  == [v \in Receives |-> 1]
=============================================================================
