------------------------------ MODULE MCSettings ------------------------------
(* Values for the settings: two movement values with the range 1..3, two    *)
(* bundled routes, and files whose slots differ, repeat or name nothing.    *)
EXTENDS Settings

MCLowest == [speed |-> 1, bees |-> 0]
MCHighest == [speed |-> 3, bees |-> 3]
MCStock == [speed |-> 2, bees |-> 0]

Slot(field, pattern, minutes, repetitions) ==
  [field |-> field, pattern |-> pattern, minutes |-> minutes, repetitions |-> repetitions]
MCSlots ==
  {<<Slot("none", Absent, 2, 1)>>,
   <<Slot("clover", "snake", 2, 3), Slot("none", "snake", 2, 1), Slot("rose", "e_lol", 1, 0)>>,
   <<Slot("clover", Absent, 1, 1)>>, <<Slot("rose", "e_lol", 0, 2)>>,
   <<Slot("pine", "e_lol", Invalid, 1), Slot("rose", "snake", 1, Invalid)>>}
Values(speed, bees) == [speed |-> speed, bees |-> bees]
Unset == Values(Absent, Absent)
Read(movement, exact) == [movement |-> movement, exact |-> exact]

(* The two readings agree, or the section has another spelling, or another *)
(* file says something else.                                               *)
MCReadings ==
  {Read(m, m) : m \in {Unset, Values(3, Absent), Values(2, 0), Values(9, 1), Values(Invalid, 2)}}
  \cup {Read(Values(9, 1), Unset), Read(Values(3, Invalid), Values(3, Absent)),
        Read(Unset, Values(1, Absent)), Read(Values(3, 1), Values(Invalid, 1))}
Ini(reading, slots, quests, collections, dice) ==
  [movement |-> reading.movement, exact |-> reading.exact, slots |-> slots, quests |-> quests,
   collections |-> collections, dice |-> dice, diceEnabled |-> TRUE, hotkey |-> "F5"]
MCInis ==
  {Ini(reading, <<Slot("clover", Absent, 1, 1)>>, FALSE, FALSE, 1) : reading \in MCReadings}
  \cup {Ini(Read(Values(9, 1), Values(9, 1)), slots, quests, collections, dice) :
          slots \in MCSlots, quests \in BOOLEAN, collections \in BOOLEAN, dice \in {1, Invalid}}

Edit(page, item, value) == [page |-> page, item |-> item, value |-> value]
MCEdits ==
  {Edit("features", f, on) : f \in {"quests", "collect"}, on \in BOOLEAN}
  \cup {Edit("gathering", "enabled", TRUE), Edit("gathering", "fields", <<>>),
        Edit("gathering", "fields", <<"rose">>), Edit("gathering", "pattern", "snake"),
        Edit("gathering", "minutes", 2), Edit("gathering", "minutes", 5),
        Edit("movement", "speed", 1), Edit("movement", "speed", 7),
        Edit("safety", "all", 2), Edit("hotkeys", "all", "F6")}
=============================================================================
