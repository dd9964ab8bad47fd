---------------------------- MODULE MCInputPath ----------------------------
(***************************************************************************)
(* A keyboard with two shortcuts, one part of the other, and a mouse, each *)
(* in the surroundings that matter for it.                                 *)
(***************************************************************************)
EXTENDS InputPath

CONSTANTS A, P

MCKey == {A, P}
MCChord == {[keys |-> {A, P}, action |-> "switch"], [keys |-> {P}, action |-> "pause"]}

MCScenario == {
    [class |-> "keyboard", repeats |-> TRUE,
     plugs |-> 0, commands |-> 1, peers |-> 1, thieves |-> 0],
    [class |-> "keyboard", repeats |-> FALSE,
     plugs |-> 0, commands |-> 1, peers |-> 0, thieves |-> 1],
    [class |-> "keyboard", repeats |-> FALSE,
     plugs |-> 1, commands |-> 0, peers |-> 0, thieves |-> 0],
    [class |-> "toggled", repeats |-> FALSE,
     plugs |-> 0, commands |-> 2, peers |-> 2, thieves |-> 0],
    [class |-> "toggled", repeats |-> FALSE,
     plugs |-> 0, commands |-> 1, peers |-> 2, thieves |-> 1],
    [class |-> "toggled", repeats |-> FALSE,
     plugs |-> 2, commands |-> 0, peers |-> 0, thieves |-> 0],
    [class |-> "toggled", repeats |-> FALSE,
     plugs |-> 1, commands |-> 1, peers |-> 1, thieves |-> 0]}

=============================================================================
