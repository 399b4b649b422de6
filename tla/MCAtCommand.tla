---------------------------- MODULE MCAtCommand ----------------------------
(* Instance for TLC: two requests, and a query of three commands of which   *)
(* the last two are refreshed.                                              *)
EXTENDS AtCommand

MCList == <<"AI", "NP", "MY">>
=============================================================================
