-------------------------------- MODULE Parts --------------------------------
(***************************************************************************)
(* What every axis of the score is made of: the result of one item (Part   *)
(* of scoring/models.py) and the steps of points a rules file gives        *)
(* (tier_points of scoring/domain/tiers.py).  Points are whole numbers; a  *)
(* rules file with halves is scaled by whoever gives the constants.        *)
(***************************************************************************)
EXTENDS Integers, Sequences, FiniteSets, FiniteSetsExt

MissingReasons ==
    {"not_queried", "insufficient_history", "source_error", "stale", "invalid_value", "unavailable"}

\* A missing item has no points; the code keeps None, and counts it as 0.
Observed(points) == [state |-> "observed", points |-> points, reason |-> "none"]
NoEvent(points) == [state |-> "no_event", points |-> points, reason |-> "none"]
Adverse(points) == [state |-> "adverse_defined", points |-> points, reason |-> "none"]
Missing(why) == [state |-> "missing", points |-> 0, reason |-> why]
NotApplicable == [state |-> "not_applicable", points |-> 0, reason |-> "none"]

\* The states that count as an observation.
AVAILABLE == {"observed", "no_event", "adverse_defined"}

PartType ==
    [state : AVAILABLE \cup {"missing", "not_applicable"}, points : Int,
     reason : MissingReasons \cup {"none"}]

\* One step: a bound, how a value is compared with it, and the points.
Tiers == Seq([bound : Int, cmp : {"ge", "le", "lt", "gt"}, points : Int])

Meets(value, tier) ==
    \/ tier.cmp = "ge" /\ value >= tier.bound
    \/ tier.cmp = "le" /\ value <= tier.bound
    \/ tier.cmp = "lt" /\ value < tier.bound
    \/ tier.cmp = "gt" /\ value > tier.bound

\* The first step a value meets gives the points; none gives nothing.
TierPoints(value, tiers) ==
    LET met == {i \in DOMAIN tiers : Meets(value, tiers[i])}
    IN  IF met = {} THEN 0
        ELSE tiers[Min(met)].points

\* The value is n/m: the same steps for n, so that nothing is divided.
Times(tiers, m) == [i \in DOMAIN tiers |-> [tiers[i] EXCEPT !.bound = @ * m]]

\* The n greatest of a set of numbers.
NewestOf(S, n) == {a \in S : Cardinality({b \in S : b > a}) < n}

\* A set of numbers in order.
Ascending(S) ==
    [i \in 1..Cardinality(S) |-> CHOOSE a \in S : Cardinality({b \in S : b < a}) = i - 1]

==============================================================================
