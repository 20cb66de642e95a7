------------------------- MODULE MCConnectionProfile -------------------------
(* Instance of ConnectionProfile for TLC: the constants are in the .cfg files. *)
EXTENDS ConnectionProfile
=============================================================================
