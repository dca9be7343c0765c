-------------------------- MODULE MCSessionMemory --------------------------
(* Model-checking instances of SessionMemory.  The sizes 20 / 12 / 4 / 80  *)
(* of the code are scaled to 6 / 4 / 2 / 2: a compaction starts at the     *)
(* user message of the third turn, one more turn trims the history while   *)
(* it runs, and the pair list is full after two answers.                   *)
EXTENDS SessionMemory
=============================================================================
