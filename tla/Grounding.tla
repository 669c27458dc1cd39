----------------------------- MODULE Grounding -----------------------------
(***************************************************************************)
(* Research grounding of one role: what ground_role makes of the answers   *)
(* of the two sources and of the role's cached row (the anchor), and when  *)
(* the change from one row to the next is a significant event.             *)
(*                                                                         *)
(* A row of roles_cache is a function from skills to levels: the rank of   *)
(* the skill's confidence tier, 0 for a skill the row does not list.  The  *)
(* refresh never writes an emerging skill, so a listed skill is a core one *)
(* and is_significant_event's two rankings are one.                        *)
(***************************************************************************)
EXTENDS Integers, FiniteSets

CONSTANTS
    Skills,             \* skill names, case folded
    TrustThreshold      \* TAVILY_DISTINCT_SKILLS_TRUST_THRESHOLD

ASSUME GroundingAssumption ==
    /\ IsFiniteSet(Skills)
    /\ TrustThreshold \in Nat \ {0}

\* _CONFIDENCE_RANK
Absent == 0
CachedLow == 1
Low == 2
Medium == 3
High == 4
Levels == Absent..High
LiveTiers == {Low, Medium, High}

NoRow == [s \in {} |-> Absent]      \* get_role found nothing
Listed(row) == {s \in DOMAIN row : row[s] # Absent}

-----------------------------------------------------------------------------
(* The sources                                                             *)

\* has_usable_himalayas_signal: at least 60% of up to 5 listings must be on
\* topic, 20% of 25 and more, and in between on a straight line.
RequiredPercent(count) ==
    IF count <= 5 THEN 60
    ELSE IF count >= 25 THEN 20
    ELSE 70 - 2 * count

UsableSignal(relevant, count) ==
    count > 0 /\ 100 * relevant >= RequiredPercent(count) * count

\* _select_tavily_citation: skills of several results count together.
Cited(tavily) == Cardinality(tavily) >= TrustThreshold

-----------------------------------------------------------------------------
(* decide_confidence_tier and ground_role                                  *)

Anchor(row) == Listed(row)

\* Mutated form of Tier: two sources are enough for a high tier.
TierUnanchored(signal, himalayas, tavily, row) ==
    IF ~signal THEN Medium
    ELSE IF Cited(tavily) THEN High
    ELSE IF Anchor(row) = {} THEN Low
    ELSE Medium

\* The tier of a live result.
Tier(signal, himalayas, tavily, row) ==
    IF ~signal THEN Medium
    ELSE IF Anchor(row) = {} THEN Low
    ELSE IF Cited(tavily) /\ Anchor(row) \cap himalayas # {} THEN High
    ELSE Medium

\* REJECT is what neither source can lift: the cached row or the floor is
\* shown then.
Rejected(signal, tavily) == ~signal /\ ~Cited(tavily)

\* Only the decision without Himalayas carries a citation, so every other one
\* is made of Himalayas's skills, even where both sources agree.
LiveSkills(signal, himalayas, tavily) == IF signal THEN himalayas ELSE tavily

\* The row a live result becomes: all its skills carry the one tier.
LiveRow(signal, himalayas, tavily, row) ==
    [s \in Skills |->
        IF s \in LiveSkills(signal, himalayas, tavily)
        THEN Tier(signal, himalayas, tavily, row)
        ELSE Absent]

\* get_cached_fallback: any row at all is shown again, at the lowest tier.
Fallback(row) ==
    [s \in DOMAIN row |-> IF row[s] # Absent THEN CachedLow ELSE Absent]

-----------------------------------------------------------------------------
(* is_significant_event                                                    *)

\* Mutated form of Significant: a skill listed again at its tier is an event.
SignificantAgain(old, new) == new # Absent /\ new >= old

\* A crossing upward, of the bucket or of the tier.
Significant(old, new) == new > old
=============================================================================
