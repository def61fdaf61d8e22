------------------------- MODULE MCAttemptWorkspace -------------------------
(***************************************************************************)
(* Small instances of AttemptWorkspace: two directories at the root and a  *)
(* name inside each; the Starter brings the first directory and its file.  *)
(***************************************************************************)
EXTENDS AttemptWorkspace, TLC

MCPaths == << <<1>>, <<1, 3>>, <<2>>, <<2, 3>> >>
MCStarter == <<[path |-> <<1>>, kind |-> "directory"], [path |-> <<1, 3>>, kind |-> "file"]>>

=============================================================================
