-------------------------- MODULE MCPortPublishing --------------------------
(* Small instances of PortPublishing, with the addresses of Identifiers.     *)
EXTENDS PortPublishing, Identifiers, TLC

CONSTANTS r1, r2, r3, k1, k2, ip1

To(ip, port, container) ==
  [HostIP |-> ip, HostPort |-> port, ContainerPort |-> container, Protocol |-> "tcp"]

Symmetry == Permutations(Clients)

\* Two runs that conflict. The first may be for the host's network, where it is not
\* checked, and otherwise has its list installed in part, as iptables refuses a mapping
\* with an address; the other one has two ports to the same container port, which makes two
\* equal FORWARD rules.
PublishAll == r1 :> <<To(AnyIP, 1, 1), To(ip1, 2, 1)>> @@ r2 :> <<To(AnyIP, 1, 1), To(AnyIP, 2, 1)>>
                @@ r3 :> <<To(AnyIP, 1, 1)>>

\* The addresses of IDs that differ in their last digits, of which two have the same
\* digits in another order.
SharedIP == r1 :> 203 @@ r2 :> 203 @@ r3 :> 204

AddressOf(a, b) == allocateIP(<<1, 8, 4, 9, 2, 10, 7, 0, 0, 15, a, b>>)

ASSUME AddressAssumption ==
  SharedIP = r1 :> AddressOf(2, 1) @@ r2 :> AddressOf(1, 2) @@ r3 :> AddressOf(0, 4)
=============================================================================
