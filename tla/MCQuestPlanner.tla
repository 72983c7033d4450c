---------------------------- MODULE MCQuestPlanner ----------------------------
(* Quests with a field objective, a colour and a token, one of them not      *)
(* certain and one read beyond its target; three fields, one not calibrated. *)
EXTENDS QuestPlanner

MCFieldOrder == <<"clover", "rose", "pine">>

MCLines ==
  {<<"collect", 12, "pollen", "from", "the", "rose", "field">>,
   <<"collect", 6, "red", "pollen">>, <<"collect", 4, "goo">>, <<"collect", 4, "green", "pollen">>,
   <<"defeat", 2, "mantises">>, <<"defeat", 0, "ladybugs">>}
MCMobs == [words \in {<<"mantises">>, <<"ladybugs">>} |->
             IF words = <<"ladybugs">> THEN "ladybug" ELSE "mantise"]

Goal(kind, amount, field, colour, label) == Objective(kind, amount, field, colour, label)
Active(giver, translator, confidence, objectives, progress) ==
  [giver |-> giver, translator |-> translator, confidence |-> confidence,
   objectives |-> objectives, progress |-> progress]
MCQuests ==
  {Active("science", TRUE, 80,
          <<Goal("pollen", 12, "rose", Anywhere, Nothing), Goal("token", 4, Anywhere, Anywhere, "berry")>>,
          <<6, 5>>),
   Active("science", FALSE, 90,
          <<Goal("pollen", 6, Anywhere, "red", Nothing), Goal("item", 1, Anywhere, Anywhere, "dice")>>,
          <<0, 0>>),
   Active("polar", FALSE, 74, <<Goal("goo", 4, "clover", Anywhere, Nothing)>>, <<0>>),
   Active("polar", FALSE, 75, <<Goal("token", 3, Anywhere, Anywhere, "berry"),
                                Goal("task", 1, Anywhere, Anywhere, "craft")>>, <<0, 0>>)}

Place(field, colors, confidence, travel, pollen, goo, berry) ==
  [field |-> field, colors |-> colors, confidence |-> confidence, travel |-> travel,
   rates |-> [pollen |-> pollen, goo |-> goo, berry |-> berry, ladybug |-> 1]]
MCPlaces ==
  {Place("rose", {"red"}, 90, 0, 3, 1, 0), Place("rose", {"red"}, 74, 0, 6, 1, 1),
   Place("clover", {"red", "white"}, 75, 30, 3, 2, 1), Place("clover", {"white"}, 80, 60, 4, 0, 1),
   Place("pine", {"blue"}, 90, 20, 3, 1, 1), Place("pine", {"red", "blue"}, 90, 40, 2, 1, 0)}
=============================================================================
