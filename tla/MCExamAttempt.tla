--------------------------- MODULE MCExamAttempt ---------------------------
(* Small instances of the Exam Attempt for TLC. *)
EXTENDS ExamAttempt, TLC

Symmetry == Permutations(Sessions)
=============================================================================
