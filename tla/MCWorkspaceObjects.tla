------------------------- MODULE MCWorkspaceObjects -------------------------
(***************************************************************************)
(* Small instances of WorkspaceObjects.                                    *)
(***************************************************************************)
EXTENDS WorkspaceObjects, TLC

ObjectSymmetry == Permutations(Objects) \cup Permutations(Keys) \cup Permutations(Tokens)
=============================================================================
