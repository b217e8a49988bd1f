------------------------------- MODULE MCPull -------------------------------
(* Small instances of Pull for TLC.                                         *)
EXTENDS Pull, TLC

=============================================================================
