------------------------------ MODULE MCRiskEngine ------------------------------
(***************************************************************************)
(* Three managed lines (the second may be levered, the third is a stock), an  *)
(* unmapped one, and two swing lines: a position and an entry.               *)
(***************************************************************************)
EXTENDS RiskEngine

Line(now, ref, raw, lo, hi, is) == [now |-> now, ref |-> ref, raw |-> raw, lo |-> lo, hi |-> hi, is |-> is]
Order(now, pin, enters) == [now |-> now, pin |-> pin, enters |-> enters, blocked |-> FALSE]

All == {"pending", "material"}
First == { Line(0, 4, 6, 0, 6, All), Line(6, 3, 0, 0, 4, All), Line(-3, 1, 4, -4, 4, All \cup {"dear"}),
           Line(8, 2, 2, 2, 2, {"pending"}), Line(4, 4, -4, -4, 4, {"material", "young"}),
           Line(0, 4, 4, 4, 4, All \cup {"build"}), Line(6, 4, 4, 4, 4, All \cup {"hold"}),
           Line(0, 0, -4, -4, 0, All \cup {"chase_long"}) }
Second == { Line(0, 4, 8, 0, 8, All), Line(4, 0, 0, 0, 4, {"material"}), Line(-4, 2, 4, -4, 4, All),
            Line(2, 4, 5, 4, 6, All \cup {"no_add"}), Line(6, 3, 0, -2, 4, All \cup {"young"}),
            Line(8, 0, -3, -4, 0, All), Line(4, 6, 6, 6, 6, All) }
Third == { Line(0, 2, 4, 0, 4, All), Line(3, 2, 0, 0, 2, All), Line(-4, 0, 0, 0, 0, All),
           Line(2, 2, -2, -4, 2, All), Line(6, 4, 0, 0, 6, {"no_quote"} \cup All),
           Line(-1, 2, 2, 0, 2, {"no_band"} \cup All) }

Inputs(As, Bs, Cs, ks, ss, es, kills, cov) ==
    {[covariance |-> cov, line |-> <<a, b, c>>, locked |-> k, swing |-> [l \in {5, 6} |-> IF l = 5 THEN s ELSE e], kill |-> kill] :
       a \in As, b \in Bs, c \in Cs, k \in ks, s \in ss, e \in es, kill \in kills}

(* Every line goes to its reference: only the limits are in the way.            *)
To(is, now, t) == Line(now, t, t, t, t, All \cup is)
Follow ==
    Inputs({To({}, 0, 6), To({}, 0, 8), To({}, 0, -5), To({"hold"}, 6, 4), To({"hold"}, -3, 4)},
           {To({}, 0, t) : t \in {2, 5, 8, -3, -5}}, {To({}, 0, t) : t \in {1, 3, -1, -3}}, {0, 3},
           {Order(0, 0, FALSE)}, {Order(0, 2, TRUE)}, {"NORMAL"}, FALSE)

(* The unmapped lines alone are over the hard limit, the entry fits the rest.   *)
Heavy == Inputs(First, {To({}, 0, 2)}, {To({}, 0, 1)}, {17}, {Order(0, 0, FALSE)}, {Order(0, 1, TRUE)}, {"NORMAL"}, FALSE)

SomeCases ==
    Follow \cup Heavy \cup
    Inputs(First, Second, Third, {0, 3}, {Order(0, 0, FALSE), Order(-2, -2, FALSE)}, {Order(0, 2, TRUE)}, {"NORMAL"}, FALSE)
    \cup Inputs(First, Second, Third, {0}, {Order(2, 0, FALSE)}, {Order(0, -1, TRUE)}, {"NORMAL", "WARN"}, TRUE)
    \cup Inputs({To({}, 0, 4), To({}, 4, 2)}, Second, Third, {0}, {Order(0, 2, TRUE)},
                {Order(0, 2, TRUE), [Order(0, -1, TRUE) EXCEPT !.blocked = TRUE]}, {"NORMAL"}, TRUE)
    \cup Inputs({Line(6, 4, 0, 0, 4, All)}, Second, Third, {3}, {Order(2, 0, FALSE)}, {Order(0, 2, TRUE)}, {"HALTED"}, TRUE)

ThreeUnits == <<4, 4, 2>>
TwoGroups == <<[of |-> {1, 2}, cap |-> 10], [of |-> {2, 3}, cap |-> 8]>>
Caps == <<6, 8, 4, 9, 9, 9>>
Sigmas == <<1, 2, 1, 1, 1, 1>>
Sides == <<0, 1, 1, 0, 0, 0>>
Fees == <<0, 0, 1, 0, 0, 0>>
Carries == <<1, 0, 1, 0, 0, 0>>
Steps == <<2, 2, 1>>
FloorOfNet == -4
=============================================================================
