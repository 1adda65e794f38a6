--------------------------- MODULE MCContactPlan ---------------------------
\* Two contacts of n1 that overlap, and one of n2 that overlaps with both.
EXTENDS ContactPlan

CONSTANTS c1, c2, c3, n1, n2

MCNodeOf == [c \in Contact |-> IF c = c3 THEN n2 ELSE n1]
MCFrom == [c \in Contact |-> IF c = c1 THEN 0 ELSE 1]
MCTo == [c \in Contact |-> IF c = c1 THEN 2 ELSE 3]

ASSUME OverlapsFitCounter == FewContacts

Cmd(t, n, C) == [type |-> t, node |-> n, contacts |-> C]

\* Additions, replacements and deletions of each kind; {c1, c2} is refused.
MCCommands == {Cmd("add", n1, {c1}), Cmd("add", n1, {c2}), Cmd("add", n1, {c1, c2}),
               Cmd("add", n2, {c3}),
               Cmd("update", n1, {c2}), Cmd("delete", n1, {c1}),
               Cmd("delete", n1, {}),
               Cmd("delete_endpoints", n1, {c1})}

LiveCommands == {Cmd("add", n1, {c1}), Cmd("update", n1, {c2}),
                 Cmd("delete", n1, {c1}), Cmd("delete", n1, {})}
=============================================================================
