--------------------------- MODULE MCExamSitting ---------------------------
(***************************************************************************)
(* One Sitting that may be moved from one window to the other; the Jobs    *)
(* that close it and the recovery pass have two attempts, the others one.  *)
(***************************************************************************)
EXTENDS ExamSitting

MCWindows == {<<1, 2>>, <<2, 3>>}

MCAttempts == [phase \in {"open", "deadline", "finalize", "recovery"} |->
                 IF phase \in {"deadline", "recovery"} THEN 2 ELSE 1]

=============================================================================
