--------------------------- MODULE MCBridgeNetwork ---------------------------
(* Small instances of BridgeNetwork, with the link names of Identifiers.     *)
EXTENDS BridgeNetwork, Identifiers, TLC

CONSTANTS r1, r2, r3

\* The name of the link of a container whose run starts at a time of which the
\* eighth digit, worth 4.3 seconds, and the last but two vary.
VethAt(seconds, nanos) ==
  hostVethName(generateID(<<1, 8, 4, 9, 2, 10, 7, seconds, 0, 15, 0, 3, 5, nanos, 5, 5>>))

SharedName == r1 :> VethAt(1, 0) @@ r2 :> VethAt(1, 9) @@ r3 :> VethAt(3, 0)

=============================================================================
