---------------------------- MODULE MCEvaluation ----------------------------
(* Evaluation for TLC: one submission, two slots, the job options of the    *)
(* code (three attempts) and BullMQ's default of one forgiven stall.        *)
EXTENDS Evaluation

CONSTANTS answer, s1, s2
=============================================================================
