------------------------------- MODULE MCStartup -------------------------------
(* Instance of Startup for TLC: an old and two new processes, a file that  *)
(* creates objects and one that changes data. *)
EXTENDS Startup, TLC

CONSTANTS old, new1, new2

MCBuild == (old :> 1 @@ new1 :> 2 @@ new2 :> 2)
===============================================================================
