------------------------------- MODULE MCMemory --------------------------------
(*****************************************************************************)
(* A person who lives somewhere, says so in other words, and moves.          *)
(*****************************************************************************)
EXTENDS Memory

MCFamily == [lives_in |-> "lives_in", location |-> "lives_in", follow_up |-> "follow_up"]
MCPlain == [Halifax |-> "halifax", Toronto |-> "toronto"]

MCFact(id, predicate, object) ==
  [id |-> id, predicate |-> predicate, object |-> object, conf |-> 1, from |-> 1, to |-> None,
   recorded |-> 1]

MCTables ==
  {{}, {MCFact(1, "lives_in", "Toronto"), MCFact(2, "location", "Toronto")}}

MCSay(predicate, object, from) ==
  [predicate |-> predicate, object |-> object, conf |-> 1, from |-> from]

MCSayings ==
  {<<>>,
   <<MCSay("lives_in", "Halifax", 0)>>,
   <<MCSay("location", "Toronto", 1)>>,
   <<MCSay("lives_in", "Halifax", 2), MCSay("lives_in", "Toronto", 0)>>}
===============================================================================
