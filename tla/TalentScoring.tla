---------------------------- MODULE TalentScoring ----------------------------
(***************************************************************************)
(* The scores of talent/scoring.rs.  A component score is a number of      *)
(* parts, of which Parts make 1; every fraction that occurs divides Parts, *)
(* so that the floating-point numbers of the code are exact here.          *)
(***************************************************************************)
EXTENDS Integers, Sequences, FiniteSets, SequencesExt

Parts == 900
ColdStartThreshold == 10
DefaultWeights == [skills |-> 40, experience |-> 30, recency |-> 15,
                   completeness |-> 15]

Least(a, b) == IF a < b THEN a ELSE b
Most(a, b) == IF a > b THEN a ELSE b

\* skills is a list, as stored: a skill that is there twice is counted twice.
Matched(skills, required) ==
    Cardinality({i \in DOMAIN skills : skills[i] \in ToSet(required)})

\* Slip: every skill counts, wanted or not.
SkillMatchList(skills, required) ==
    IF required = <<>> THEN Parts
    ELSE (Parts * Len(skills)) \div Cardinality(ToSet(required))

SkillMatch(skills, required) ==
    IF required = <<>> THEN Parts
    ELSE (Parts * Matched(skills, required)) \div Cardinality(ToSet(required))

ExperienceMatch(years, minYears) ==
    Most(0, Least(Parts, (Parts * years) \div Most(1, minYears)))

\* Days are not negative: a date in the future counts as now.
RecencyScore(days) == Most(0, Parts - 5 * days)

CompletenessScore(raw) == Most(0, Least(Parts, 9 * raw))

\* education_rank: 0 for an unknown level.
EducationRank ==
    [none |-> 0, highschool |-> 1, associate |-> 2, bachelor |-> 3,
     master |-> 4, phd |-> 5, unknown |-> 0]

\* Rows of candidates and open roles as far as scores look at them, and weights
\* that upsert accepts.
Profile == [skills : Seq(STRING), years : Int, days : Nat, complete : 0..100,
            major : STRING, education : DOMAIN EducationRank,
            availability : STRING]
OpenRole == [skills : Seq(STRING), minYears : Int, major : STRING,
             education : DOMAIN EducationRank, availability : STRING]
Weighting ==
    {w \in [skills : Nat, experience : Nat, recency : Nat, completeness : Nat] :
        w.skills + w.experience + w.recency + w.completeness = 100}

\* A text contains the required one, or nothing is required.
TextMatch(has, required) ==
    IF required = "" \/ has = required THEN Parts ELSE 0

\* Slip: credit for the level itself only, as for the major.
EducationExact(has, required) ==
    LET need == EducationRank[required]
    IN  IF need = 0 \/ EducationRank[has] = need THEN Parts ELSE 0

EducationMatch(has, required) ==
    LET need == EducationRank[required]
    IN  IF need = 0 \/ EducationRank[has] >= need THEN Parts
        ELSE (Parts * EducationRank[has]) \div need

\* extended_match_multiplier, in parts of 3 * Parts.  A level that is required
\* but not known counts as a constraint that everyone meets.
Multiplier(c, r) ==
    IF r.major = "" /\ r.education = "none" /\ r.availability = ""
    THEN 3 * Parts
    ELSE TextMatch(c.major, r.major)
         + EducationMatch(c.education, r.education)
         + TextMatch(c.availability, r.availability)

ScoreCold(c) ==
    [score |-> 50 * RecencyScore(c.days) + 50 * CompletenessScore(c.complete),
     of |-> 100 * Parts]

\* The score, as a number of parts of "of".
ScoreBlended(c, r, w) ==
    [score |-> Multiplier(c, r) *
               (w.skills * SkillMatch(c.skills, r.skills)
                + w.experience * ExperienceMatch(c.years, r.minYears)
                + w.recency * RecencyScore(c.days)
                + w.completeness * CompletenessScore(c.complete)),
     of |-> 3 * Parts * 100 * Parts]
=============================================================================
