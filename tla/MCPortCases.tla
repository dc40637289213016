----------------------------- MODULE MCPortCases -----------------------------
(* Small instances of PortCases.                                            *)
EXTENDS PortCases
CONSTANTS ip1, ip2, w1
=============================================================================
