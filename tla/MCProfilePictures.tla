------------------------- MODULE MCProfilePictures -------------------------
(* Instances of ProfilePictures for TLC *)
EXTENDS ProfilePictures

MCUploads2 == 1..2
=============================================================================
