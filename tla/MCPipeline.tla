----------------------------- MODULE MCPipeline -----------------------------
(* Instance for TLC: delays short enough to enumerate, in the proportion     *)
(* TimingAssumption asks for, and a limit that lets three updates through.   *)
EXTENDS Pipeline
=============================================================================
