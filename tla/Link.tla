-------------------------------- MODULE Link --------------------------------
(***************************************************************************)
(* One direction of a tunnel: the workers of one endpoint encapsulate LAN  *)
(* frames, the network loses, repeats, delays and reorders the packets,    *)
(* and the workers of the other endpoint reassemble them.  Either endpoint *)
(* may restart, which forgets all it had in memory.                        *)
(*                                                                         *)
(* Source and destination are the same for every packet of a direction, so *)
(* a fragment's key is its identification alone.  The contents of a        *)
(* fragment are the frame it was cut from and where.                       *)
(***************************************************************************)
EXTENDS Fragmentation, FiniteSets

CONSTANTS
  Frame,         \* the frames the near LAN sends, each once
  FrameLength,   \* their lengths
  Mtu,           \* the values the path MTU takes
  IdSpace,       \* identifications there are: 2^32 in the code
  MaxPackets, MaxFragments, Timeout,     \* the limits of Reassembly
  MaxCopies,     \* bound: packets of a frame the network repeats
  MaxLost,       \* bound: frames of which the network loses packets
  MaxNear,       \* bound: restarts of the near endpoint
  FarRestarts,   \* whether the far endpoint may restart, at any time
  Prompt,        \* no packet is in flight for as long as a tick
  Mangled,       \* a frame on the far LAN that no one sent
  None

ASSUME LinkAssumption ==
  /\ FrameLength \in [Frame -> Nat]
  /\ \A f \in Frame : ~Oversize(FrameLength[f])
  /\ Mtu \subseteq MinMtu .. MaxMtu
  /\ IdSpace \in Nat \ {0}
  /\ MaxPackets \in Nat \ {0} /\ MaxFragments \in Nat \ {0}
  /\ Timeout \in Nat \ {0}
  /\ MaxCopies \in Nat /\ MaxLost \in Nat
  /\ MaxNear \in Nat
  /\ FarRestarts \in BOOLEAN /\ Prompt \in BOOLEAN
  /\ Mangled \notin Frame
  /\ None \notin Nat \cup [epoch : Nat, id : Nat \cup {None}]

VARIABLES
  fragId,        \* frag_id of the near endpoint
  epoch,         \* how often its identifications have begun again at 0
  log,           \* the epoch and identification each frame was sent with
  net,           \* the packets in flight
  copies,        \* how many packets of each frame the network repeated
  lost,          \* the frames of which it lost a packet
  restarts,      \* how often the near endpoint has restarted
  packets,       \* the far endpoint's reassembly table
  lastInsert,
  received       \* how often each frame was put on the far LAN

near == <<fragId, epoch, log>>
far == <<packets, lastInsert, received>>
network == <<net, copies, lost>>
vars == <<near, network, restarts, far>>

Id == 0 .. IdSpace - 1

R == INSTANCE Reassembly WITH
       Key <- Id, Data <- Frame, Offset <- Nat, Length <- Nat

\* As Reassembly asks of what it is instantiated with.
ASSUME NoneAssumption ==
  None \notin R!Partial \cup R!Call \cup Seq(R!Fragment)

Sent == {f \in Frame : log[f] # None}

-----------------------------------------------------------------------------
(* The near endpoint.                                                      *)

Launch(f, mtu, id) ==
  LET ps == Packets(FrameLength[f], mtu)
  IN  {[packet |-> ps[i], id |-> id, data |-> f, copy |-> 0] :
         i \in DOMAIN ps}

SendWhole(f, mtu) ==
  /\ f \notin Sent /\ FitsWhole(FrameLength[f], mtu)
  /\ net' = net \cup Launch(f, mtu, None)
  /\ log' = [log EXCEPT ![f] = [epoch |-> epoch, id |-> None]]
  /\ UNCHANGED <<fragId, epoch, copies, lost, restarts, far>>

\* Mutation: two workers load the same identification before either adds one.
NextIdShared == UNCHANGED <<fragId, epoch>>

\* fetch_add wraps around; the epoch remembers that it did.
NextId ==
  /\ fragId' = (fragId + 1) % IdSpace
  /\ epoch' = IF fragId' = 0 THEN epoch + 1 ELSE epoch

SendFragments(f, mtu) ==
  /\ f \notin Sent /\ ~FitsWhole(FrameLength[f], mtu)
  /\ net' = net \cup Launch(f, mtu, fragId)
  /\ log' = [log EXCEPT ![f] = [epoch |-> epoch, id |-> fragId]]
  /\ NextId
  /\ UNCHANGED <<copies, lost, restarts, far>>

RestartNear ==
  /\ restarts < MaxNear
  /\ restarts' = restarts + 1
  /\ fragId' = 0 /\ epoch' = epoch + 1
  /\ UNCHANGED <<log, network, far>>

-----------------------------------------------------------------------------
(* The network.                                                            *)

Repeat(p) ==
  /\ p \in net /\ copies[p.data] < MaxCopies
  /\ copies' = [copies EXCEPT ![p.data] = @ + 1]
  /\ net' = net \cup {[p EXCEPT !.copy = copies'[p.data]]}
  /\ UNCHANGED <<near, lost, restarts, far>>

Lose(p) ==
  /\ p \in net /\ Cardinality(lost \cup {p.data}) <= MaxLost
  /\ net' = net \ {p}
  /\ lost' = lost \cup {p.data}
  /\ UNCHANGED <<near, copies, restarts, far>>

-----------------------------------------------------------------------------
(* The far endpoint.                                                       *)

\* All of one frame, from its first byte to its last.
Original(out) ==
  LET f == out[1].data IN
    /\ R!Contiguous(out)
    /\ \A i \in DOMAIN out : out[i].data = f
    /\ R!End(out[Len(out)]) = Payload(FrameLength[f])

Forward(f) == received' = [received EXCEPT ![f] = @ + 1]

DeliverWhole(p) ==
  /\ p.packet.next = "etherip"
  /\ Forward(p.data)
  /\ lastInsert' = None
  /\ UNCHANGED packets

\* What decapsulate_packet hands to insert.
Cut(p) == [off |-> ReadOffset(p.packet), len |-> ReadLength(p.packet),
           data |-> p.data]

DeliverFragment(p) ==
  /\ Accepted(p.packet)
  /\ R!Insert(p.id, Cut(p), ReadMore(p.packet))
  /\ LET out == lastInsert'.out IN
       IF out = None THEN UNCHANGED received
       ELSE Forward(IF Original(out) THEN out[1].data ELSE Mangled)

Deliver(p) ==
  /\ p \in net
  /\ net' = net \ {p}
  /\ DeliverWhole(p) \/ DeliverFragment(p)
  /\ UNCHANGED <<near, copies, lost, restarts>>

Tick ==
  /\ Prompt => net = {}
  /\ R!Tick
  /\ UNCHANGED <<near, network, restarts, received>>

Expire ==
  /\ R!Expire
  /\ UNCHANGED <<near, network, restarts, received>>

RestartFar ==
  /\ FarRestarts
  /\ packets' = [k \in Id |-> None] /\ lastInsert' = None
  /\ UNCHANGED <<near, network, restarts, received>>

-----------------------------------------------------------------------------
Init ==
  /\ fragId = 0 /\ epoch = 0
  /\ log = [f \in Frame |-> None]
  /\ net = {}
  /\ copies = [f \in Frame |-> 0]
  /\ lost = {}
  /\ restarts = 0
  /\ R!Init
  /\ received = [f \in Frame \cup {Mangled} |-> 0]

Next ==
  \/ \E f \in Frame, mtu \in Mtu : SendWhole(f, mtu) \/ SendFragments(f, mtu)
  \/ RestartNear
  \/ \E p \in net : Repeat(p) \/ Lose(p) \/ Deliver(p)
  \/ Tick \/ Expire
  \/ RestartFar

Spec == Init /\ [][Next]_vars

\* The network hands over what it does not lose, and the far worker polls its
\* queue for ever.
FairSpec == Spec /\ WF_vars(\E p \in net : Deliver(p))

-----------------------------------------------------------------------------
(* Properties.                                                             *)

\* The types of the state.
TypeOK ==
  /\ fragId \in Id /\ epoch \in Nat
  /\ log \in [Frame -> [epoch : Nat, id : Id \cup {None}] \cup {None}]
  /\ \A p \in net : p.data \in Frame /\ p.id \in Id \cup {None}
  /\ copies \in [Frame -> 0 .. MaxCopies]
  /\ lost \subseteq Frame
  /\ received \in [Frame \cup {Mangled} -> Nat]
  /\ R!TypeOK

\* The frame put on the far LAN is the original one: as long as the near
\* endpoint's identifications have not begun again, fragments of two frames
\* are never merged, however the network and the far endpoint behave.
OriginalWithinEpoch == epoch = 0 => received[Mangled] = 0

\* Even after a restart, two frames of one run of the near endpoint never
\* meet in the far endpoint's table.
NeverMixedWithinEpoch ==
  \A k \in Id : packets[k] # None =>
    LET s == packets[k].fragments IN
      \A i, j \in DOMAIN s :
        log[s[i].data].epoch = log[s[j].data].epoch => s[i].data = s[j].data

\* README, the path from WAN to LAN: the original frame is sent to the LAN.
OriginalFrames == received[Mangled] = 0

Stored(k) == R!Range(R!Entry(k).fragments)

\* f is cut in no more fragments than the peer keeps of a packet, at any MTU.
\* The code keeps 128, and cuts frames of up to 1522 bytes in 96 at most
\* (PeerHolds of Encapsulation), but one of 2048 bytes in 129 at the least MTU.
Roomy(f) == \A mtu \in Mtu : Count(FrameLength[f], mtu) <= MaxFragments

\* What may cost a fragment its place in the table: its frame needs more
\* fragments than are kept of one packet, the network repeated a packet of it,
\* the table is full, or the sender has begun its identifications again and
\* fragments from before lie under this one.
Hindered(p) ==
  \/ ~Roomy(p.data)
  \/ copies[p.data] > 0
  \/ R!Full(p.id)
  \/ \E g \in Stored(p.id) : log[g.data].epoch # log[p.data].epoch

\* A fragment that arrives joins those stored of its frame, or completes the
\* frame: unhindered, insert takes no fragment of a sent frame for malformed,
\* overlapping or one too many, in whatever order and with whatever others
\* it arrives.
FragmentsKept ==
  [][\A p \in net \ net' : DeliverFragment(p) =>
       \/ received'[p.data] = received[p.data] + 1
       \/ Stored(p.id)' = Stored(p.id) \cup {Cut(p)}
       \/ Hindered(p)]_vars

\* Fragments of one frame that hold all its bytes never wait in the table,
\* whatever was lost, repeated, expired or forgotten before they were there.
NoneHeldWhole ==
  \A k \in Id : \A f \in Frame :
    (\A g \in Stored(k) : g.data = f)
      => UNION {R!Bytes(g) : g \in Stored(k)} # 0 .. Payload(FrameLength[f]) - 1

\* The frames that may be cut.
Long == {f \in Frame : \E mtu \in Mtu : ~FitsWhole(FrameLength[f], mtu)}

\* A network that repeats nothing and is prompt, a far endpoint that runs on,
\* and a slot of its table for every frame.
Calm ==
  /\ MaxCopies = 0 /\ Prompt /\ ~FarRestarts
  /\ IsFiniteSet(Long) /\ Cardinality(Long) <= MaxPackets

\* In calm, a frame the peer has room for, of which nothing was lost and nothing
\* is in flight any more, was put on the far LAN: what EveryFrameArrives needs
\* besides fairness, while the identifications have not begun again.
NoneMissing ==
  (Calm /\ epoch = 0) => \A f \in Sent :
    (Roomy(f) /\ f \notin lost /\ \A p \in net : p.data # f) => received[f] > 0

\* Every frame the peer has room for and of which the network loses nothing
\* reaches the far LAN, when it repeats nothing and is prompt: neither the order
\* its packets arrive in, nor another frame's lost fragments, nor one with more
\* fragments than are kept hold it up.
EveryFrameArrives ==
  \A f \in Frame : Roomy(f) => (f \in Sent ~> (received[f] > 0 \/ f \in lost))

\* A direction of a tunnel is the channel promised, through repetition, loss
\* and reordering, races with expire, and restarts of either endpoint.
Channel == INSTANCE FrameChannel WITH sent <- Sent, renewed <- epoch > 0

ImplementsChannel == Channel!Spec

=============================================================================
