------------------------------- MODULE Bridge -------------------------------
(***************************************************************************)
(* An endpoint between its LAN and the remotes of its tunnels: the choice  *)
(* of a tunnel by VLAN or by outer source, the tags taken off and put      *)
(* back, and the MAC tables that keep a frame from going back where it     *)
(* came from (etherip/src/main.rs:184-299, etherip.rs:15-68,               *)
(* mac_table.rs).  A frame is abstracted to its source MAC and its stack   *)
(* of 802.1Q tags; whole or in fragments, it crosses a tunnel as one.      *)
(*                                                                         *)
(* What a worker does with one packet touches a table once, under its      *)
(* RwLock, and is one step; bursts of any size make every order of these   *)
(* steps possible.  The LAN may bring back any frame put on it, whenever.  *)
(***************************************************************************)
EXTENDS Integers, Sequences, FiniteSets

CONSTANTS
  Worker,
  Config,      \* the tunnels an operator may ask for, in the order given
  VlanId,      \* VLAN IDs
  Mac, Group,  \* MAC addresses, and those of groups among them
  Stacks,      \* the stacks of tags a frame can carry where it is sent
  Age,         \* MAC_AGE, in ticks
  Late,        \* the longest from next_expiry to the call of expire after it:
               \* 5 s and a round of the loop
  MaxFrames,   \* bound: frames of the remotes around at once
  None

\* Without --tunnel the one tunnel has no VLAN.
ASSUME BridgeAssumption ==
  /\ \A given \in Config :
       /\ given # <<>> /\ DOMAIN given = 1 .. Len(given) /\ Len(given) \in Nat
       /\ \A t \in DOMAIN given :
            \/ given[t].vlan \in VlanId
            \/ given[t].vlan = None /\ Len(given) = 1
  /\ Stacks \subseteq Seq(VlanId)
  /\ Group \subseteq Mac
  /\ Age \in Nat \ {0}
  /\ Late \in Nat
  /\ None \notin Nat /\ None \notin VlanId

\* Mutation: VLANs given twice are not found.
AcceptedDuplicates(given) == TRUE

\* build_tunnels: no VLAN twice.  Nothing is asked of the remotes.
Accepted(given) ==
  \A t, u \in DOMAIN given : given[t].vlan = given[u].vlan => t = u

VARIABLES
  tunnels,     \* the tunnels build_tunnels made, each with vlan and remote
  table,       \* per tunnel, the time since each source was learned, or None
  sinceSweep,  \* per tunnel, the time since next_expiry was last set
  lanPackets,  \* per worker, the frames it is to transmit on the LAN
  lan,         \* the remotes' frames the LAN may bring back
  lastSent     \* the frame the step sent into a tunnel, or None

vars == <<tunnels, table, sinceSweep, lanPackets, lan, lastSent>>

Tunnel == DOMAIN tunnels

\* Besides mac and tags, the tunnel of whose remote a frame is (0 for the LAN's
\* own) and the time since it arrived, both unknown to the program.
Frames == [mac : Mac, tags : Seq(VlanId), from : Tunnel \cup {0}, age : 0 .. Age]

-----------------------------------------------------------------------------
(* Tunnels and tags.                                                       *)

\* tunnel_for_lan_frame, where t is the tunnel it finds.
ForLan(f, t) ==
  \/ Len(tunnels) = 1 /\ tunnels[t].vlan = None
  \/ f.tags # <<>> /\ f.tags[1] = tunnels[t].vlan

\* tunnel_index_for_wan: the first tunnel to the packet's source.
ForWan(remote, t) == tunnels[t].remote = remote /\ \A u \in 1 .. t - 1 : tunnels[u].remote # remote

Stripped(f, t) == IF tunnels[t].vlan = None THEN f.tags ELSE Tail(f.tags)

\* Mutation: add_vlan_tag is called in both modes.
TaggedAlways(tags, t) == <<tunnels[t].vlan>> \o tags
Tagged(tags, t) == IF tunnels[t].vlan = None THEN tags ELSE <<tunnels[t].vlan>> \o tags

-----------------------------------------------------------------------------
(* The MAC tables.                                                         *)

\* Mutation: entry().or_insert() keeps the first time.
LearnOnce(t, m) ==
  table' = [table EXCEPT ![t][m] = IF m \in Group THEN @ ELSE IF @ = None THEN 0 ELSE @]

LearnSource(t, m) ==
  table' = [table EXCEPT ![t][m] = IF m \in Group THEN @ ELSE 0]

ContainsSource(t, m) == table[t][m] # None /\ table[t][m] < Age

\* Mutation: an entry exactly MAC_AGE old is kept.
KeepsInclusive(a) == a # None /\ a <= Age

Keeps(a) == a # None /\ a < Age

-----------------------------------------------------------------------------
(* Steps.                                                                  *)

Around == Cardinality(lan) + Cardinality(UNION {lanPackets[w] : w \in Worker})

\* A frame of tunnel via's remote arrives: its source is learned before the
\* frame is in the list to transmit.
ReceiveWan(w, via, m, tags) ==
  /\ Around < MaxFrames
  /\ \E t \in Tunnel :
       /\ ForWan(tunnels[via].remote, t)
       /\ LearnSource(t, m)
       /\ lanPackets' = [lanPackets EXCEPT ![w] = @ \cup
            {[mac |-> m, tags |-> Tagged(tags, t), from |-> via, age |-> 0]}]
  /\ lastSent' = None
  /\ UNCHANGED <<tunnels, sinceSweep, lan>>

\* transmit sends what the port accepts; the rest waits for another loop.
TransmitLan(w, f) ==
  /\ lanPackets' = [lanPackets EXCEPT ![w] = @ \ {f}]
  /\ lan' = lan \cup {f}
  /\ lastSent' = None
  /\ UNCHANGED <<tunnels, table, sinceSweep>>

\* The LAN brings a frame: its own, or one of a remote that it reflects.
ForwardLan(f) ==
  \E t \in Tunnel :
    /\ ForLan(f, t) /\ ~ContainsSource(t, f.mac)
    /\ lastSent' = [tunnel |-> t, frame |-> [f EXCEPT !.tags = Stripped(f, t)]]
    /\ UNCHANGED <<tunnels, table, sinceSweep, lanPackets, lan>>

DropLan(f) ==
  /\ \A t \in Tunnel : ForLan(f, t) => ContainsSource(t, f.mac)
  /\ lastSent' = None
  /\ UNCHANGED <<tunnels, table, sinceSweep, lanPackets, lan>>

LanOwn == [mac : Mac, tags : Stacks, from : {0}, age : {Age}]

ReceiveLan(f) == f \in lan \cup LanOwn /\ (ForwardLan(f) \/ DropLan(f))

\* A reflected frame leaves the LAN at last.
Leave(f) ==
  /\ lan' = lan \ {f}
  /\ lastSent' = None
  /\ UNCHANGED <<tunnels, table, sinceSweep, lanPackets>>

\* expire does nothing before next_expiry, and counts the next MAC_AGE from the
\* time it is called.
Sweep(t) ==
  /\ sinceSweep[t] >= Age
  /\ sinceSweep' = [sinceSweep EXCEPT ![t] = 0]
  /\ table' = [table EXCEPT ![t] =
       [m \in Mac |-> IF Keeps(table[t][m]) THEN table[t][m] ELSE None]]
  /\ lastSent' = None
  /\ UNCHANGED <<tunnels, lanPackets, lan>>

Older(S) == {[f EXCEPT !.age = IF @ = Age THEN Age ELSE @ + 1] : f \in S}

\* A worker calls expire of every table at most Late after its next_expiry.
Tick ==
  /\ \A t \in Tunnel : sinceSweep[t] < Age + Late
  /\ sinceSweep' = [t \in Tunnel |-> sinceSweep[t] + 1]
  /\ table' = [t \in Tunnel |-> [m \in Mac |->
       IF table[t][m] = None THEN None ELSE table[t][m] + 1]]
  /\ lanPackets' = [w \in Worker |-> Older(lanPackets[w])]
  /\ lan' = Older(lan)
  /\ lastSent' = None
  /\ UNCHANGED tunnels

Init ==
  /\ tunnels \in {given \in Config : Accepted(given)}
  /\ table = [t \in Tunnel |-> [m \in Mac |-> None]]
  /\ sinceSweep = [t \in Tunnel |-> 0]
  /\ lanPackets = [w \in Worker |-> {}]
  /\ lan = {}
  /\ lastSent = None

Next ==
  \/ \E w \in Worker, via \in Tunnel, m \in Mac, tags \in Stacks :
       ReceiveWan(w, via, m, tags)
  \/ \E w \in Worker : \E f \in lanPackets[w] : TransmitLan(w, f)
  \/ \E f \in lan \cup LanOwn : ReceiveLan(f)
  \/ \E f \in lan : Leave(f)
  \/ \E t \in Tunnel : Sweep(t)
  \/ Tick

Spec == Init /\ [][Next]_vars

-----------------------------------------------------------------------------
(* Properties.                                                             *)

\* The types of the state: tags on the LAN are VLANs, in either mode.
TypeOK ==
  /\ tunnels \in Config
  /\ table \in [Tunnel -> [Mac -> Nat \cup {None}]]
  /\ sinceSweep \in [Tunnel -> 0 .. Age + Late]
  /\ lanPackets \in [Worker -> SUBSET Frames]
  /\ lan \subseteq Frames
  /\ lastSent \in [tunnel : Tunnel, frame : Frames] \cup {None}

\* README.md:275-276: a frame of a remote that comes back from the LAN within
\* MAC_AGE of its arrival is not sent into a tunnel again, whichever worker
\* received it, whichever gets it back, and whatever other frames and expiries
\* come between.  Only a frame with a group as its source is.
NoReflection ==
  (lastSent # None /\ lastSent.frame.from # 0 /\ lastSent.frame.mac \notin Group)
    => lastSent.frame.age >= Age

\* The frames of tunnel t's remote are on the LAN with t's tag, and what was
\* just sent of them into a tunnel was sent into t, where it came from.
InVlanOf(t) ==
  /\ \A f \in lan : (f.from = t /\ tunnels[t].vlan # None) =>
       f.tags # <<>> /\ f.tags[1] = tunnels[t].vlan
  /\ (lastSent # None /\ lastSent.frame.from = t) => lastSent.tunnel = t

\* README.md:161-162: a frame of a remote leaves on the LAN with the tag of the
\* tunnel it came through, and reflected it enters no other tunnel.
StaysInVlan == \A t \in Tunnel : InVlanOf(t)

\* What is true of it (etherip.rs:15-68): so it is for every tunnel no other
\* tunnel shares its remote with, in either mode, even if the frame carries
\* the tag of another tunnel inside.
SoleRemote(t) == \A u \in Tunnel : tunnels[u].remote = tunnels[t].remote => u = t
SoleStaysInVlan == \A t \in Tunnel : SoleRemote(t) => InVlanOf(t)

\* README.md:275: sources are kept for five minutes.  They stop suppressing
\* then, but the table holds one until it is swept: for MAC_AGE, for the MAC_AGE
\* to the next sweep if it was just younger at one, and for as long as that sweep
\* is late.  The late sweeps do not add up (mac_table.rs:43-48).
Forgotten ==
  \A t \in Tunnel, m \in Mac : table[t][m] # None => table[t][m] < 2 * Age + Late

=============================================================================
