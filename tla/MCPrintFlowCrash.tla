------------------------- MODULE MCPrintFlowCrash -------------------------
(* A file of five lines for TLC.                                          *)
EXTENDS PrintFlowCrash

FileEnds  == 1 .. 5
None      == {}
PauseOnly == {"pause"}
=============================================================================
