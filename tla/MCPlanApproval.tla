---------------------------- MODULE MCPlanApproval ----------------------------
(***************************************************************************)
(* Three core lines and two swing lines.  The first line holds up to two      *)
(* positions, the second one of either side or one of each, the first swing line  *)
(* one; an entry of the second swing line is the one a cap can refuse.       *)
(***************************************************************************)
EXTENDS PlanApproval

P(id, l, w) == [id |-> id, line |-> l, w |-> w]
SomeBooks ==
    {a \cup b \cup s :
       a \in {{}, {P(1, 1, 1), P(2, 1, 2)}},
       b \in {{}, {P(3, 2, 2)}, {P(3, 2, -2)}, {P(3, 2, 1), P(5, 2, -2)}},
       s \in {{}, {P(4, 4, 1)}}}

Rule(least, partial, opens) == [min |-> least, floor |-> 1, partial |-> partial, opens |-> opens]
Order(do, patch) == [do |-> do, w |-> 1, patch |-> patch]
Want(kind, t1, t2, r, o, other) ==
    [kind |-> kind, ref |-> {1},
     target |-> [l \in 1..3 |-> CASE l = 1 -> t1 [] l = 2 -> t2 [] OTHER -> 1],
     rule |-> [l \in 1..5 |-> IF l = 1 THEN r ELSE Rule(1, "yes", "yes")],
     order |-> [l \in {4, 5} |-> IF l = 4 THEN o ELSE other]]
SomeWants ==
    {Want("flatten", 0, 0, Rule(1, "yes", "yes"), Order("none", FALSE), Order("none", FALSE))}
    \cup {Want("rebalance", t1, t2, r, o, Order("none", FALSE)) :
            t1 \in {-1, 0, 2, 4}, t2 \in {-2, 0, 1, 2},
            r \in {Rule(1, "yes", "yes"), Rule(2, "yes", "yes"), Rule(1, "no", "yes"),
                   Rule(1, "no", "unproven"), Rule(1, "no", "refused")},
            o \in {Order("none", FALSE), Order("enter", TRUE), Order("exit", FALSE)}}
    \cup {Want("rebalance", 2, t2, Rule(1, "no", "yes"), Order("enter", TRUE), Order("enter", TRUE)) :
            t2 \in {1, 2}}
=============================================================================
