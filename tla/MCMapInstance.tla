---------------------------- MODULE MCMapInstance ----------------------------
\* Small instances of MapInstance for TLC.
EXTENDS MapInstance

CONSTANTS s1, s2, c1

\* One player fights and casts at the other, and does what is no move.
SkirmishCommands ==
  {[kind |-> "enter", session |-> s1, character |-> NoCharacter],
   [kind |-> "enter", session |-> s2, character |-> c1],
   [kind |-> "attack", session |-> s1, target |-> s2],
   [kind |-> "cast", session |-> s1, target |-> s2, damage |-> 8],
   [kind |-> "cast", session |-> s1, target |-> NoTarget, damage |-> 10],
   [kind |-> "item", session |-> s1],
   [kind |-> "say", session |-> s2]}
    \cup [kind : {"logout"}, session : {s1, s2}]

\* Two players under one character: both move, the first also under none, the
\* second also leaves.
MarchCommands ==
  {[kind |-> "enter", session |-> s1, character |-> NoCharacter],
   [kind |-> "move", session |-> s1, pos |-> 1],
   [kind |-> "move", session |-> s2, pos |-> 0],
   [kind |-> "npc", session |-> s1],
   [kind |-> "logout", session |-> s2]}
    \cup [kind : {"enter"}, session : {s1, s2}, character : {c1}]

=============================================================================
