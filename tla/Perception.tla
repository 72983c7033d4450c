----------------------------- MODULE Perception -----------------------------
(***************************************************************************)
(* How pixels become values that the program may act on                    *)
(* (platform/src/perception.rs, core/src/quests.rs, contracts/src/         *)
(* detection.rs): template scores, recognised text and rows of colour are  *)
(* what a frame contains; everything the code decides from them is here.   *)
(* Scores and confidences are in percent.  A detection is a value, or      *)
(* Other, which stands for NotFound, Uncertain and Error alike: none of    *)
(* them is ever actionable.                                                *)
(***************************************************************************)
EXTENDS Integers, Sequences, FiniteSets, SequencesExt

CONSTANTS
  Bindings,     (* the templates: the value each of them may emit           *)
  MatchMinimum, (* minimum_confidence of the matcher                        *)
  Margin,       (* ambiguity_margin                                         *)
  Frames,       (* window_frames of the temporal consensus                  *)
  Agreements,   (* required_agreements                                      *)
  Other

ASSUME PerceptionAssumption ==
  /\ Bindings \in Seq(Range(Bindings)) /\ Bindings # <<>> /\ Other \notin Range(Bindings)
  /\ MatchMinimum \in 0..100 /\ Margin \in 0..100
  /\ Frames \in 2..8 /\ Agreements \in 2..Frames

-----------------------------------------------------------------------------
(* TemplateDetector::detect.  Every template is scored on its own, several *)
(* templates may emit one value, and the sort is stable.                   *)

Ranked(scores) ==
  SetToSortSeq(DOMAIN scores,
               LAMBDA b, c : scores[b] > scores[c] \/ (scores[b] = scores[c] /\ b < c))

RunnerUp(scores, best) ==
  LET ranked == Ranked(scores) IN
  /\ Len(ranked) > 1
  /\ Bindings[ranked[2]] # Bindings[best]
  /\ scores[best] - scores[ranked[2]] < Margin

DetectTemplate(scores) ==
  LET best == Ranked(scores)[1] IN
  IF scores[best] < MatchMinimum \/ RunnerUp(scores, best) THEN Other ELSE Bindings[best]

(* What the documentation calls ambiguous: another value within the margin.*)
Ambiguous(scores) ==
  \E b, c \in DOMAIN scores :
    /\ Bindings[b] # Bindings[c] /\ scores[b] >= MatchMinimum
    /\ \A d \in DOMAIN scores : scores[d] <= scores[b]
    /\ scores[b] - scores[c] < Margin

(* TemporalConsensus: every frame takes a slot, a miss as well.            *)
TakesSlot(frames, seen) == TRUE

Slide(frames, seen) ==
  LET all == IF TakesSlot(frames, seen) THEN Append(frames, seen) ELSE frames IN
  IF Len(all) > Frames THEN Tail(all) ELSE all

Agreed(frames, seen) ==
  IF seen # Other /\ Cardinality({k \in DOMAIN frames : frames[k] = seen}) >= Agreements
    THEN seen ELSE Other

-----------------------------------------------------------------------------
(* Titles.  A reading of the title region is described by how it relates   *)
(* to the titles of one giver's catalog: those it equals, those whose      *)
(* words it contains, and how similar it is to each.                       *)

BestTwo(similar) ==
  FoldLeft(LAMBDA two, s : IF s > two[1] THEN <<s, two[1]>>
                           ELSE <<two[1], IF s > two[2] THEN s ELSE two[2]>>,
           <<0, 0>>, similar)
UniqueMatch(similar) == LET two == BestTwo(similar) IN two[1] >= 82 /\ two[1] - two[2] >= 8

(* vocabulary_confidence, for text the recogniser gave no confidence for.  *)
VocabularyConfidence(reading) ==
  IF reading.equal # {} THEN IF Cardinality(reading.equal) = 1 THEN 92 ELSE 50
  ELSE IF Cardinality(reading.within) = 1 THEN 88
  ELSE IF UniqueMatch(reading.similar)
    THEN 78 + ((BestTwo(reading.similar)[1] - 82) * 12) \div 18
  ELSE 50

(* detect_quest_title, and the consensus' own minimum on its confidence.   *)
TitleMinimum == 75
DetectTitle(reading) ==
  LET ocr == VocabularyConfidence(reading)
      best == BestTwo(reading.similar)[1]
  IN IF ocr >= TitleMinimum /\ UniqueMatch(reading.similar) /\ ocr * best >= TitleMinimum * 100
       THEN CHOOSE q \in DOMAIN reading.similar : reading.similar[q] = best
       ELSE Other

-----------------------------------------------------------------------------
(* Objective bars: rows of a crop are "complete", "incomplete" or "none",  *)
(* and a bar is a run of at least MinimumRows rows of one colour.          *)

MinimumRows == 3

Finished(bars, row, rows) ==
  IF row # "none" /\ rows >= MinimumRows THEN Append(bars, row) ELSE bars

Flushed(scan) == Finished(scan.bars, scan.row, scan.rows)

RowRead(scan, row) ==
  IF row = scan.row THEN [scan EXCEPT !.rows = @ + 1]
  ELSE [bars |-> Finished(scan.bars, scan.row, scan.rows), row |-> row, rows |-> 1]
NoRowRead == [bars |-> <<>>, row |-> "none", rows |-> 0]

(* The loop over the rows: what it knows once n of them are read.          *)
RowsRead(rows) ==
  LET scanned[n \in 0..Len(rows)] ==
        IF n = 0 THEN NoRowRead ELSE RowRead(scanned[n - 1], rows[n])
  IN scanned

ReadBars(rows) == Flushed(RowsRead(rows)[Len(rows)])

(* The reference: the maximal runs that are long enough, from the top.     *)
BarStarts(rows) ==
  {y \in DOMAIN rows :
     /\ rows[y] # "none" /\ (y = 1 \/ rows[y - 1] # rows[y])
     /\ y + MinimumRows - 1 <= Len(rows)
     /\ \A z \in y..(y + MinimumRows - 1) : rows[z] = rows[y]}
StartsUpTo(rows, y) == Cardinality({z \in BarStarts(rows) : z <= y})
BarsOf(rows) ==
  [k \in 1..Cardinality(BarStarts(rows)) |->
     rows[CHOOSE y \in BarStarts(rows) : StartsUpTo(rows, y) = k]]

-----------------------------------------------------------------------------
(* recommend_fields: the objectives of the matched quest, each of them a   *)
(* field or Other, against the bars that were read for them.               *)

EnoughBars(bars, objectives) == Len(bars) >= Len(objectives)
BarsFit(bars, objectives) == Len(bars) = Len(objectives)

RecommendFields(bars, objectives) ==
  IF BarsFit(bars, objectives)
    THEN {objectives[k] : k \in {j \in DOMAIN objectives :
                                   /\ bars[j] # "complete" /\ objectives[j] # Other}}
    ELSE {}

=============================================================================
