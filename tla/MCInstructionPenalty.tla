------------------------ MODULE MCInstructionPenalty ------------------------
(* Two processes, one or two penalties of one author.                         *)
EXTENDS InstructionPenalty, TLC

CONSTANTS w1, w2, p1, p2
=============================================================================
