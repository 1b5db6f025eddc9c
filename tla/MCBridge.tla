------------------------------ MODULE MCBridge ------------------------------
(***************************************************************************)
(* The single tunnel without a VLAN, and two tunnels with a VLAN each, to  *)
(* two remotes or to one and the same.                                     *)
(***************************************************************************)
EXTENDS Bridge, TLC

CONSTANTS m1, group, peer1, peer2, w1, w2

\* The workers may be exchanged.
WorkerSymmetry == Permutations(Worker)

Single == <<[vlan |-> None, remote |-> peer1]>>
TwoRemotes == <<[vlan |-> 100, remote |-> peer1], [vlan |-> 200, remote |-> peer2]>>
OneRemote == <<[vlan |-> 100, remote |-> peer1], [vlan |-> 200, remote |-> peer1]>>
\* build_tunnels rejects this one.
OneVlan == <<[vlan |-> 100, remote |-> peer1], [vlan |-> 100, remote |-> peer2]>>
Usual == {Single, TwoRemotes, OneRemote, OneVlan}
Shared == {OneRemote}
\* Untagged, and tagged for the second tunnel and again inside.
TagStacks == {<<>>, <<200, 100>>}

=============================================================================
