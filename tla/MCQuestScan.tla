----------------------------- MODULE MCQuestScan -----------------------------
(* Values for QuestScan: two givers with two icons each and one with a  *)
(* single icon; one of them has a catalog of two quests.                   *)
EXTENDS QuestScan
CONSTANTS Bear, Bucko, Riley, Clover, Rose

MCBindings == <<Bear, Bear, Bucko, Riley>>
MCScores == {<<20, 20, 89, 20>>, <<95, 93, 20, 20>>, <<95, 20, 93, 20>>, <<95, 94, 93, 20>>,
             <<20, 20, 88, 92>>}
MCRows == {<<"complete", "complete", "none">>,
           <<"incomplete", "incomplete", "incomplete", "complete", "complete", "complete">>,
           <<"none", "complete", "complete", "incomplete", "incomplete", "incomplete", "none">>}
MCReadings == {[equal |-> {1}, within |-> {1}, similar |-> <<100, 30>>],
               [equal |-> {}, within |-> {1, 2}, similar |-> <<84, 84>>],
               [equal |-> {}, within |-> {}, similar |-> <<40, 96>>]}

(* Every crop of at most seven rows is read as its maximal runs.           *)
ASSUME MCBarsAreRead ==
  \A n \in 0..7 : \A crop \in [1..n -> {"none", "complete", "incomplete"}] :
    ReadBars(crop) = BarsOf(crop)

MCCatalog == [g \in {Bear} |-> <<<<Clover, Rose>>, <<Rose>>>>]
=============================================================================
