----------------------------- MODULE QuestPlanner -----------------------------
(***************************************************************************)
(* Which field advances the active quests (core/src/quests.rs): objective  *)
(* lines are parsed by a small grammar, and QuestPlanner::plan scores the  *)
(* fields.  A pure function of its input, with a step that computes it.    *)
(* Confidences are in percent; amounts and rates are such that the scores  *)
(* are whole numbers of 1/Unit, so that they compare exactly.              *)
(***************************************************************************)
EXTENDS Integers, Sequences, FiniteSets, SequencesExt

CONSTANTS
  Lines,        (* objective lines, as sequences of words                   *)
  Quests,       (* what may be active: quests with their progress           *)
  Places,       (* FieldOpportunity: what may be calibrated                 *)
  FieldOrder,   (* the order of FieldId                                     *)
  Colors, Mobs, (* parse_color; parse_mob_name, by its plural               *)
  Budgets,      (* item_budgets: the items that may still be used           *)
  Dwells,       (* current_field_dwell_seconds                              *)
  Unit,         (* a multiple of every remaining amount                     *)
  Anywhere, Nothing

FieldIds == Range(FieldOrder)

ASSUME PlannerAssumption ==
  /\ Unit \in Nat \ {0} /\ Dwells \subseteq Nat
  /\ Nothing \notin FieldIds /\ Anywhere \notin FieldIds \cup Colors
  /\ IsInjective(FieldOrder) /\ FieldOrder \in Seq(FieldIds)
  /\ IsFiniteSet(Places)
  /\ \A place \in Places :
       /\ place.field \in FieldIds /\ place.confidence \in Nat /\ place.travel \in Nat
       /\ {"pollen", "goo"} \subseteq DOMAIN place.rates
       /\ \A what \in DOMAIN place.rates : place.rates[what] \in Nat
  /\ \A line \in Lines : Len(line) \in 3..12 => line[2] \in 0..Unit

VARIABLES
  wanted,      (* the active quests                                         *)
  places,      (* the fields                                                *)
  here, dwell, (* the current field and the time spent in it                *)
  budget,
  plan         (* the QuestPlan, or Nothing before it is computed           *)

plannerVars == <<wanted, places, here, dwell, budget, plan>>

-----------------------------------------------------------------------------
(* parse_dynamic_objective, of a line that is already split into words: a  *)
(* verb, an amount (0 when it is not a number within the bounds), a rest.  *)

Objective(kind, amount, field, colour, label) ==
  [kind |-> kind, amount |-> amount, field |-> field, colour |-> colour, label |-> label]

ParseCollect(amount, rest) ==
  CASE rest \in {<<"pollen">>, <<"goo">>} ->
         {Objective(rest[1], amount, Anywhere, Anywhere, Nothing)}
    [] /\ Len(rest) > 3 /\ rest[1] \in {"pollen", "goo"}
       /\ rest[2] = "from" /\ rest[3] = "the" ->
         {Objective(rest[1], amount, field, Anywhere, Nothing) :
            field \in {f \in FieldIds : SelectSeq(SubSeq(rest, 4, Len(rest)),
                          LAMBDA w : w \notin {"field", "patch", "forest"}) = <<f>>}}
    [] Len(rest) = 2 /\ rest[2] = "pollen" ->
         {Objective("pollen", amount, Anywhere, colour, Nothing) : colour \in {rest[1]} \cap Colors}
    [] OTHER -> {}

(* A mob is named in the plural; one that only ends in s loses it as well. *)
ParseDefeat(amount, rest) ==
  {Objective("defeat", amount, Anywhere, Anywhere, Mobs[rest]) : seen \in {rest} \cap DOMAIN Mobs}

ParseObjective(line) ==
  IF Len(line) \notin 3..12 \/ line[2] = 0 THEN {}
  ELSE CASE line[1] = "collect" -> ParseCollect(line[2], SubSeq(line, 3, Len(line)))
         [] line[1] = "defeat"  -> ParseDefeat(line[2], SubSeq(line, 3, Len(line)))
         [] OTHER               -> {}

(* QuestObjective::validate: what a catalog may contain.                   *)
ValidObjective(objective) ==
  /\ objective.amount > 0
  /\ objective.kind \in {"token", "defeat", "item"} => objective.label # Nothing

ASSUME CatalogAssumption ==
  \A quest \in Quests :
    /\ quest.objectives \in Seq(Range(quest.objectives)) /\ quest.confidence \in Nat
    /\ quest.giver = "science" => quest.translator \in BOOLEAN
    /\ \A k \in DOMAIN quest.objectives :
         /\ ValidObjective(quest.objectives[k])
         /\ quest.objectives[k].amount \in 1..Unit /\ quest.progress[k] \in Nat

-----------------------------------------------------------------------------
(* objective_rate and score_field.                                         *)

MinimumActionConfidence == 75
Confident(thing) == thing.confidence >= MinimumActionConfidence

FieldKinds == {"pollen", "goo"}
ObjectiveRate(place, o) ==
  IF o.kind \in FieldKinds
    THEN IF (o.field # Anywhere /\ o.field # place.field)
            \/ (o.colour # Anywhere /\ o.colour \notin place.colors)
         THEN 0 ELSE place.rates[o.kind]
  ELSE IF o.kind \in {"token", "defeat"} /\ o.label \in DOMAIN place.rates
    THEN place.rates[o.label]
  ELSE 0

(* Progress that was read beyond the target leaves nothing.                *)
Remaining(quest, k) == LET left == quest.objectives[k].amount - quest.progress[k]
                       IN IF left < 0 THEN 0 ELSE left
Unfinished(quest) == {k \in DOMAIN quest.objectives : Remaining(quest, k) > 0}

(* In hundredths of a quest.                                               *)
ProgressionWeight(quest) ==
  CASE quest.giver = "science" /\ quest.translator  -> 240
    [] quest.giver = "science" /\ ~quest.translator -> 155
    [] OTHER                                        -> 100

(* A fraction of at most one, in parts of Unit.                            *)
Fraction(place, quest, k) ==
  LET rate == ObjectiveRate(place, quest.objectives[k]) IN
  IF rate >= Remaining(quest, k) THEN Unit ELSE (rate * Unit) \div Remaining(quest, k)

Advances(place, quest) ==
  {k \in Unfinished(quest) : ObjectiveRate(place, quest.objectives[k]) > 0}

Total(terms) ==
  LET sum[n \in 0..Len(terms)] == IF n = 0 THEN 0 ELSE sum[n - 1] + terms[n]
  IN sum[Len(terms)]
Fractions(place, quest) ==
  [k \in DOMAIN quest.objectives |-> IF k \in Advances(place, quest) THEN Fraction(place, quest, k) ELSE 0]
Share(place, quest) ==
  IF Confident(quest) THEN ProgressionWeight(quest) * Total(Fractions(place, quest)) ELSE 0
Raw(place) == Total([j \in DOMAIN wanted |-> Share(place, wanted[j])])

(* A candidate's score is raw * 300 / (300 + travel).                      *)
Candidate(place) ==
  \E j \in DOMAIN wanted : Confident(wanted[j]) /\ Advances(place, wanted[j]) # {}

Far(place) == 300 + place.travel
AtLeast(a, b, percent) == 100 * (Raw(a) * Far(b)) >= percent * (Raw(b) * Far(a))
Rank(field) == CHOOSE k \in DOMAIN FieldOrder : FieldOrder[k] = field
Precedes(a, b) ==
  ~AtLeast(b, a, 100) \/ (AtLeast(a, b, 100) /\ Rank(a.field) < Rank(b.field))

-----------------------------------------------------------------------------
(* QuestPlanner::plan.                                                     *)

Dedicated == {"task"}
Held(quest) ==
  {k \in Unfinished(quest) :
     LET o == quest.objectives[k] IN
     o.kind \in Dedicated \/ (o.kind = "item" /\ o.label \notin budget)}

AlwaysStays == TRUE
StaysAWhile == dwell < 180

(* The first of the candidates in their order.                             *)
Best(candidates) == CHOOSE c \in candidates : \A d \in candidates \ {c} : Precedes(c, d)

Recommended(candidates) ==
  IF candidates = {} THEN Nothing
  ELSE LET best == Best(candidates) IN
       IF StaysAWhile /\ \E c \in candidates : c.field = here /\ AtLeast(c, best, 88)
         THEN here ELSE best.field

Plan ==
  LET candidates == {place \in places : Confident(place) /\ Candidate(place)}
  IN [recommended |-> Recommended(candidates),
      candidates |-> {place.field : place \in candidates},
      held |-> [j \in {j \in DOMAIN wanted : Confident(wanted[j])} |-> Held(wanted[j])]]

(* The quests that are active, and what was parsed of a line of a giver    *)
(* that has no catalog.                                                    *)
Dynamic(line) ==
  [giver |-> "brown", translator |-> FALSE, confidence |-> 75,
   objectives |-> [k \in 1..Cardinality(ParseObjective(line)) |-> CHOOSE o \in ParseObjective(line) : TRUE],
   progress |-> [k \in 1..Cardinality(ParseObjective(line)) |-> 0]]

PlannerInit ==
  /\ \E quest \in Quests, line \in Lines : wanted \in {<<quest>>, <<quest, Dynamic(line)>>}
  /\ places \in {ps \in SUBSET Places : Cardinality(ps) <= 2
                                         /\ \A p, q \in ps : p.field = q.field => p = q}
  /\ here \in FieldIds \cup {Nothing} /\ dwell \in Dwells /\ budget \in SUBSET Budgets
  /\ plan = Nothing

MakePlan ==
  /\ plan = Nothing /\ plan' = Plan
  /\ UNCHANGED <<wanted, places, here, dwell, budget>>

PlannerNext == MakePlan
PlannerSpec == PlannerInit /\ [][PlannerNext]_plannerVars

-----------------------------------------------------------------------------
(* What the module documentation promises: "A planner only consumes        *)
(* objectives from a confident quest detection and only emits a field when *)
(* the field opportunity is also confidently calibrated".  Said without    *)
(* the planner's scores and sorting: a reason to be in a field is an       *)
(* unfinished objective, of a quest that was seen for certain, that the    *)
(* field advances.                                                         *)
Reasons(place) ==
  UNION {{<<j, k>> : k \in {k \in DOMAIN wanted[j].objectives :
                              /\ wanted[j].objectives[k].amount > wanted[j].progress[k]
                              /\ ObjectiveRate(place, wanted[j].objectives[k]) > 0}} :
           j \in {j \in DOMAIN wanted : Confident(place) /\ Confident(wanted[j])}}

(* The nearer of two fields, and at least as good for every reason.        *)
Dominates(a, b) ==
  /\ a.travel < b.travel /\ Reasons(b) \subseteq Reasons(a)
  /\ \A jk \in Reasons(b) : ObjectiveRate(a, wanted[jk[1]].objectives[jk[2]])
                              >= ObjectiveRate(b, wanted[jk[1]].objectives[jk[2]])

(* A field is recommended if and only if there is a reason to be in one,   *)
(* and then one with a reason; but never one when another dominates it,    *)
(* unless it is the current one and was entered within three minutes.      *)
PlanIsWarranted ==
  plan # Nothing =>
    /\ (plan.recommended = Nothing) <=> (\A p \in places : Reasons(p) = {})
    /\ plan.recommended # Nothing =>
         \E p \in places :
           /\ p.field = plan.recommended /\ Reasons(p) # {}
           /\ (here # p.field \/ dwell >= 180) => \A q \in places : ~Dominates(q, p)
=============================================================================
