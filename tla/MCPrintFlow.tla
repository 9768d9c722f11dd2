---------------------------- MODULE MCPrintFlow ----------------------------
(* A small file for TLC: four lines, the second one a comment.             *)
EXTENDS PrintFlowRefinement

FileEnds  == {2, 3, 5, 6}
FileBlank == {2}
FileHash  == {3}
None      == {}
AllEvents == {"pause", "m601", "runout", "cancel", "ui", "repeat", "power"}
PowerOnly == {"power"}
PauseOnly == {"pause"}
UserOnly  == {"pause", "m601", "runout"}
=============================================================================
