----------------------------- MODULE Forwarding -----------------------------
(***************************************************************************)
(* The loop of the workers (etherip/src/main.rs:167-309) and the mbufs it  *)
(* moves: from an RX queue to the packets received, to the list of a port, *)
(* to a TX ring, or back to the pool they are all from.  What a worker     *)
(* finds in a packet is chosen when it handles the packet; what becomes of *)
(* the tables is in the modules of the tables.  Startup composes these     *)
(* actions with the main thread.                                           *)
(***************************************************************************)
EXTENDS PacketRoom, NeighbourDiscovery, Fragmentation, FiniteSets

CONSTANTS
  Worker,         \* worker_id: 0, 1, ...
  Mbuf,           \* mbufs of the pool
  Pool,           \* those that do not lie idle in the RX descriptors of the
                  \* queues each command line sets up
  FirstFree,      \* the mbuf the pool hands out, by what is free
  Config,         \* command lines, those Accepts refuses included
  LanFrame,       \* frames from the LAN: length, tag to strip, path MTU
  WanFrame,       \* frames inside packets from the WAN: length, tag to add
  Solicited,      \* ICMPv6 messages from addresses of no remote
  Descriptors,    \* packets an RX queue holds: rx_descriptors
  BurstStep,      \* 8
  MaxArrivals     \* bound: packets arriving under each command line

Port == {"lan", "wan"}

ASSUME ForwardingAssumption ==
  /\ Worker \subseteq Nat /\ IsFiniteSet(Mbuf) /\ Cardinality(Mbuf) < U16
  /\ \A S \in (SUBSET Mbuf) \ {{}} : FirstFree[S] \in S
  /\ Config \subseteq [workers : 0 .. U16 - 1, lcores : SUBSET Nat,
                       mainLcore : Nat, rxQueue : 0 .. U16 - 1,
                       txQueue : 0 .. U16 - 1, burst : 0 .. U16 - 1]
  /\ \A c \in Config : IsFiniteSet(c.lcores) /\ c.mainLcore \in c.lcores
  /\ Pool \in [Config -> SUBSET Mbuf]
  /\ LanFrame \subseteq [length : Nat, tagged : BOOLEAN,
                         mtu : MinMtu .. MaxMtu]
  /\ WanFrame \subseteq [length : Nat, tagged : BOOLEAN]
  /\ \A f \in LanFrame : f.tagged => f.length >= 16
  /\ Solicited \subseteq Message
  /\ None \notin Message
             \cup [frame : Nat, mtu : MinMtu .. MaxMtu, next : Nat]
  /\ BurstStep \in Nat \ {0} /\ MaxArrivals \in [Config -> Nat]

VARIABLES
  config,    \* the command line
  pc,        \* where each worker is in forward
  list,      \* the packets in each place, oldest first
  cut,       \* the frame whose fragments a worker is pushing, and the next one
  free,      \* the mbufs in the pool
  arrivals,  \* packets that came to any RX queue
  cause      \* why a worker stopped

vars == <<config, pc, list, cut, free, arrivals, cause>>

Place == Worker \X {"queue", "received", "out", "ring"} \X Port

Alive(w) == pc[w] \notin {"absent", "failed", "stopped"}

ReceiveAt == [lan |-> "lanReceive", wan |-> "wanReceive"]
LoopAt == [lan |-> "lanLoop", wan |-> "wanLoop"]

-----------------------------------------------------------------------------
(* Packets and lists.  A packet is its mbuf, the port and the number of    *)
(* its arrival or of that of the packet it was made from, which of its     *)
(* fragments it is, and the solicitation and the reply, if it is one.      *)

Mbufs(s) == {s[i].mbuf : i \in DOMAIN s}
First(s, n) == SubSeq(s, 1, n)

Without(l, a, n) == [l EXCEPT ![a] = SubSeq(@, n + 1, Len(@))]
With(l, a, s) == [l EXCEPT ![a] = @ \o s]
Passed(l, a, b, n) == With(Without(l, a, n), b, First(l[a], n))
Emptied(l, places) == [a \in Place |-> IF a \in places THEN <<>> ELSE l[a]]
MbufsAt(l, places) == UNION {Mbufs(l[a]) : a \in places}

Hand(w, p) == Head(list[<<w, "received", p>>])
InHand(w, p) ==
  pc[w] = LoopAt[p] /\ list[<<w, "received", p>>] # <<>> /\ cut[w] = None

Made(w, p, mbuf, part) == [Hand(w, p) EXCEPT !.mbuf = mbuf, !.part = part]

-----------------------------------------------------------------------------
(* The packet in hand.                                                     *)

ValidBurst(count) == count # 0 /\ count % BurstStep = 0
ValidQueue(queue, count) == queue < count

\* main gives each worker its queue, and each port so many of them.
SaturatingNext(n) == IF n = U16 - 1 THEN n ELSE n + 1
Several == config.workers > 1

\* Mutation: the worker of several polls the queue of the option.
RxQueueOption(w) == config.rxQueue

RxQueue(w) == IF Several THEN w ELSE config.rxQueue
TxQueue(w) == IF Several THEN w ELSE config.txQueue
RxQueues == IF Several THEN config.workers ELSE SaturatingNext(config.rxQueue)
TxQueues == IF Several THEN config.workers ELSE SaturatingNext(config.txQueue)

\* strip_vlan_tag, when the tunnel has a VLAN.
Inner(f) == IF f.tagged THEN Trimmed(Received(f.length), 4)
            ELSE Received(f.length)

\* Packet::from_bytes on the mbuf allocated for it.
FromBytes(n) == CanAppend(Fresh, n)

Outer == 56    \* Ethernet, IPv6 and EtherIP headers

FragmentBytes(c) == 54 + FragmentPacket(c.frame, c.mtu, c.next).bytes
NextFragment(c) == [c EXCEPT !.next = @ + 1]
FragmentsLeft(c) == c.next <= Count(c.frame, c.mtu)

TagOffset == 12    \* the two MAC addresses a tag comes after

\* add_vlan_tag, when the tunnel has a VLAN: append returns an error without
\* room, and copy_within panics for a frame shorter than its MAC addresses.
NoRoomForTag(room, f) == f.tagged /\ ~CanAppend(room, 4)
TooShortForTag(room, f) ==
  f.tagged /\ CanAppend(room, 4) /\ room.length < TagOffset
CanTag(room, f) == ~NoRoomForTag(room, f) /\ ~TooShortForTag(room, f)

Decapsulated(f) == Adjusted(Received(f.length + Outer), Outer)

-----------------------------------------------------------------------------
(* A worker's steps.                                                       *)

\* rx_burst hands over up to `count' of the packets queued.
ReceiveBurst(w, p, n) ==
  /\ pc[w] = ReceiveAt[p]
  /\ ValidBurst(config.burst) /\ ValidQueue(RxQueue(w), RxQueues)
  /\ n <= config.burst /\ n <= Len(list[<<w, "queue", p>>])
  /\ list' = Passed(list, <<w, "queue", p>>, <<w, "received", p>>, n)
  /\ pc' = [pc EXCEPT ![w] = LoopAt[p]]
  /\ UNCHANGED <<config, cut, free, arrivals, cause>>

\* `continue', or decapsulate_packet returns None: of several segments, of no
\* tunnel, reflected, malformed, a report, a fragment of an unfinished packet.
Discard(w, p) ==
  /\ InHand(w, p)
  /\ list' = Without(list, <<w, "received", p>>, 1)
  /\ free' = free \cup {Hand(w, p).mbuf}
  /\ UNCHANGED <<config, pc, cut, arrivals, cause>>

SendWhole(w, f) ==
  /\ InHand(w, "lan") /\ OneSegment(f.length)
  /\ FitsWhole(Inner(f).length, f.mtu) /\ CanPrepend(Inner(f), Outer)
  /\ list' = Passed(list, <<w, "received", "lan">>, <<w, "out", "wan">>, 1)
  /\ UNCHANGED <<config, pc, cut, free, arrivals, cause>>

StartFragments(w, f) ==
  /\ InHand(w, "lan") /\ OneSegment(f.length)
  /\ ~FitsWhole(Inner(f).length, f.mtu) /\ ~Oversize(Inner(f).length)
  /\ cut' = [cut EXCEPT ![w] =
               [frame |-> Inner(f).length, mtu |-> f.mtu, next |-> 1]]
  /\ UNCHANGED <<config, pc, list, free, arrivals, cause>>

PushFragment(w) ==
  /\ cut[w] # None /\ FragmentsLeft(cut[w])
  /\ free # {} /\ FromBytes(FragmentBytes(cut[w]))
  /\ LET mbuf == FirstFree[free] IN
       /\ list' = With(list, <<w, "out", "wan">>,
                       <<Made(w, "lan", mbuf, cut[w].next)>>)
       /\ free' = free \ {mbuf}
  /\ cut' = [cut EXCEPT ![w] = NextFragment(@)]
  /\ UNCHANGED <<config, pc, arrivals, cause>>

\* encapsulate_packet returns, and drops the frame it was given.
EndFragments(w) ==
  /\ cut[w] # None /\ ~FragmentsLeft(cut[w])
  /\ cut' = [cut EXCEPT ![w] = None]
  /\ list' = Without(list, <<w, "received", "lan">>, 1)
  /\ free' = free \cup {Hand(w, "lan").mbuf}
  /\ UNCHANGED <<config, pc, arrivals, cause>>

ForwardWhole(w, f) ==
  /\ InHand(w, "wan") /\ OneSegment(f.length + Outer)
  /\ CanAdjust(Received(f.length + Outer), Outer) /\ CanTag(Decapsulated(f), f)
  /\ list' = Passed(list, <<w, "received", "wan">>, <<w, "out", "lan">>, 1)
  /\ UNCHANGED <<config, pc, cut, free, arrivals, cause>>

\* A packet made while another is in hand, which it replaces.
Replaces(w, made, to) ==
  /\ list' = With(Without(list, <<w, "received", "wan">>, 1),
                  <<w, "out", to>>, <<made>>)
  /\ free' = (free \ {made.mbuf}) \cup {Hand(w, "wan").mbuf}
  /\ UNCHANGED <<config, pc, cut, arrivals, cause>>

ForwardReassembled(w, f) ==
  /\ InHand(w, "wan") /\ free # {}
  /\ FromBytes(f.length) /\ CanTag(Received(f.length), f)
  /\ Replaces(w, Made(w, "wan", FirstFree[free], 0), "lan")

Answer(w, m) ==
  /\ InHand(w, "wan") /\ free # {}
  /\ NdpAdvertisement(m) # None /\ FromBytes(54 + AdvertisementLength)
  /\ Replaces(w, [Made(w, "wan", FirstFree[free], 0) EXCEPT
                    !.answer = [to |-> m, reply |-> NdpAdvertisement(m)]],
              "wan")

\* Mutation: packets wait in the list until there is a burst of them.
OfferedFull(s) == IF Len(s) < config.burst THEN 0 ELSE Len(s)

\* send_burst offers the whole list.
Offered(s) == Len(s)

\* At each of the calls of transmit, the packets received have been handled.
Transmits(w, p) ==
  \/ /\ p = "wan" /\ pc[w] \in {"lanLoop", "wanLoop"}
     /\ \A q \in Port : list[<<w, "received", q>>] = <<>>
  \/ p = "lan" /\ pc[w] = "lanSend"

\* Mutation: the packets DPDK has taken stay in the list.
UnsentAll(s, n) == s

\* Mutation: what is left is put in the place of what was taken (swap_remove).
UnsentSwapped(s, n) ==
  [i \in 1 .. Len(s) - n |-> s[Len(s) + 1 - i]]

\* What drain(..n) leaves.
Unsent(s, n) == SubSeq(s, n + 1, Len(s))

\* transmit: n is what DPDK takes of the packets offered.
Transmit(w, p, n) ==
  /\ Transmits(w, p)
  /\ ValidQueue(TxQueue(w), TxQueues) /\ Len(list[<<w, "out", p>>]) < U16
  /\ n <= Offered(list[<<w, "out", p>>])
  /\ LET out == list[<<w, "out", p>>] IN
       list' = With([list EXCEPT ![<<w, "out", p>>] = Unsent(out, n)],
                    <<w, "ring", p>>, First(out, n))
  /\ pc' = [pc EXCEPT ![w] = CASE @ = "lanLoop" -> "wanReceive"
                               [] @ = "wanLoop" -> "lanSend"
                               [] @ = "lanSend" -> "lanReceive"]
  /\ UNCHANGED <<config, cut, free, arrivals, cause>>

-----------------------------------------------------------------------------
(* Errors: each `?' of forward and its panic, with the frame in hand.      *)

Because(why, lengths) == {[why |-> why, bytes |-> n] : n \in lengths}
When(condition, errors) == IF condition THEN errors ELSE {}
Lengths(frames) == {f.length : f \in frames}

CallErrors(w) ==
  When(pc[w] \in {"lanReceive", "wanReceive"},
       When(~ValidBurst(config.burst), Because("burst", {0}))
       \cup When(~ValidQueue(RxQueue(w), RxQueues), Because("queue", {0})))
  \cup
  When(\E p \in Port : Transmits(w, p) /\ ~ValidQueue(TxQueue(w), TxQueues),
       Because("queue", {0}))
  \cup
  When(\E p \in Port : Transmits(w, p) /\ Len(list[<<w, "out", p>>]) >= U16,
       Because("backlog", {0}))

LanErrors(w) ==
  When(InHand(w, "lan"),
       LET frames == {f \in LanFrame : OneSegment(f.length)} IN
       Because("trim", Lengths({f \in frames :
                 f.tagged /\ ~CanTrim(Received(f.length), 4)}))
       \cup Because("headroom", Lengths({f \in frames :
                 /\ FitsWhole(Inner(f).length, f.mtu)
                 /\ ~CanPrepend(Inner(f), Outer)}))
       \cup Because("oversize", Lengths({f \in frames :
                 /\ ~FitsWhole(Inner(f).length, f.mtu)
                 /\ Oversize(Inner(f).length)})))
  \cup
  When(cut[w] # None /\ FragmentsLeft(cut[w]),
       When(free = {}, Because("mbufs", {0}))
       \cup When(~FromBytes(FragmentBytes(cut[w])),
                 Because("tailroom", {cut[w].frame})))

WanErrors(w) ==
  When(InHand(w, "wan"),
       LET whole == {f \in WanFrame : OneSegment(f.length + Outer)} IN
       Because("adjust", Lengths({f \in whole :
                 ~CanAdjust(Received(f.length + Outer), Outer)}))
       \cup Because("tailroom", Lengths({f \in whole :
                 NoRoomForTag(Decapsulated(f), f)}))
       \cup IF free = {} THEN Because("mbufs", {0})
            ELSE Because("tailroom", Lengths({f \in WanFrame :
                   \/ ~FromBytes(f.length)
                   \/ NoRoomForTag(Received(f.length), f)})))

\* Where forward panics, whole and reassembled.
Panics(w) ==
  When(InHand(w, "wan"), Because("short", Lengths(
         {f \in WanFrame : OneSegment(f.length + Outer)
                            /\ TooShortForTag(Decapsulated(f), f)}
         \cup {f \in WanFrame : free # {} /\ FromBytes(f.length)
                               /\ TooShortForTag(Received(f.length), f)})))

\* A panic unwinds the stack of the only worker, which runs on the main thread;
\* Startup has what it does on another.
Unwinds(w) == IF Several THEN {} ELSE Panics(w)

Owned(w) == {w} \X {"received", "out"} \X Port

\* forward returns the error and run returns -1, or both are unwound: the
\* packets the worker holds are freed, those of its queues and rings stay with
\* the ports.
Fail(w) ==
  /\ \E c \in CallErrors(w) \cup LanErrors(w) \cup WanErrors(w) \cup Unwinds(w) :
       cause' = [cause EXCEPT ![w] = c]
  /\ pc' = [pc EXCEPT ![w] = "failed"]
  /\ cut' = [cut EXCEPT ![w] = None]
  /\ list' = Emptied(list, Owned(w))
  /\ free' = free \cup MbufsAt(list, Owned(w))
  /\ UNCHANGED <<config, arrivals>>

Work(w) ==
  \/ \E p \in Port :
       \/ \E n \in 0 .. Len(list[<<w, "queue", p>>]) : ReceiveBurst(w, p, n)
       \/ Discard(w, p)
       \/ \E n \in 0 .. Len(list[<<w, "out", p>>]) : Transmit(w, p, n)
  \/ \E f \in LanFrame : SendWhole(w, f) \/ StartFragments(w, f)
  \/ PushFragment(w)
  \/ EndFragments(w)
  \/ \E f \in WanFrame : ForwardWhole(w, f) \/ ForwardReassembled(w, f)
  \/ \E m \in Solicited : Answer(w, m)
  \/ Fail(w)

-----------------------------------------------------------------------------
(* The ports.                                                              *)

\* A packet comes to a worker's RX queue, of which RSS decides.
Arrive(w, p) ==
  /\ arrivals < MaxArrivals[config] /\ free # {}
  /\ w < config.workers /\ Len(list[<<w, "queue", p>>]) < Descriptors
  /\ LET mbuf == FirstFree[free] IN
       /\ list' = With(list, <<w, "queue", p>>,
                       <<[mbuf |-> mbuf, from |-> p, nr |-> arrivals + 1,
                          part |-> 0, answer |-> None]>>)
       /\ free' = free \ {mbuf}
  /\ arrivals' = arrivals + 1
  /\ UNCHANGED <<config, pc, cut, cause>>

\* A packet of a TX ring is on the wire, and DPDK frees its mbuf.
TxDone(w, p) ==
  /\ list[<<w, "ring", p>>] # <<>>
  /\ list' = Without(list, <<w, "ring", p>>, 1)
  /\ free' = free \cup {Head(list[<<w, "ring", p>>]).mbuf}
  /\ UNCHANGED <<config, pc, cut, arrivals, cause>>

-----------------------------------------------------------------------------
(* Properties.                                                             *)

Answered == {m \in Solicited : NdpAdvertisement(m) # None}
Answers == {[to |-> m, reply |-> NdpAdvertisement(m)] : m \in Answered}
           \cup {None}

Packet == [mbuf : Mbuf, from : Port, nr : Nat, part : Nat, answer : Answers]

Cut == [frame : Nat, mtu : MinMtu .. MaxMtu, next : Nat]

ErrorOf == [why : {"burst", "queue", "backlog", "trim", "headroom", "oversize",
                   "mbufs", "tailroom", "adjust", "short"}, bytes : Nat]

PcValues == {"absent", "lanReceive", "lanLoop", "wanReceive", "wanLoop",
             "lanSend", "failed", "stopped"}

PacketsTypeOK ==
  /\ config \in Config
  /\ pc \in [Worker -> PcValues]
  /\ list \in [Place -> Seq(Packet)]
  /\ cut \in [Worker -> Cut \cup {None}]
  /\ free \subseteq Mbuf
  /\ arrivals \in Nat
  /\ cause \in [Worker -> ErrorOf \cup {None}]

Apart(l) ==
  \A a, b \in Place : \A i \in DOMAIN l[a], j \in DOMAIN l[b] :
    l[a][i].mbuf = l[b][j].mbuf => a = b /\ i = j

Partitions(l, F, M) ==
  /\ Apart(l)
  /\ F \cap MbufsAt(l, Place) = {} /\ F \cup MbufsAt(l, Place) = M

\* Every mbuf is in one place, once: in the pool, with a port or with one
\* worker.  Whatever part of a burst DPDK takes and whichever step fails, no
\* packet leaks, is freed twice, or is freed or changed once handed over.
OneOwner == Partitions(list, free, Pool[config])

Before(x, y) == x.nr < y.nr \/ (x.nr = y.nr /\ x.part < y.part)

\* What a worker has handed to a port, and then what it still holds for it,
\* are in the order of arrival, fragments in the order of their offsets: the
\* packets DPDK did not take are offered again, before any later one, and
\* none twice.
InOrder ==
  \A w \in Worker, p \in Port :
    LET s == list[<<w, "ring", p>>] \o list[<<w, "out", p>>] IN
    \A i, j \in DOMAIN s : i < j /\ s[i].from = s[j].from => Before(s[i], s[j])

LongestFrame == 1988   \* DataRoom - Headroom - Outer - 4

\* A worker stops only when the pool is empty, for a frame too long for the
\* headers and the tag in one mbuf, for one too short to take a tag, or when the
\* queue is one the count of queues cannot exceed: no other call of the loop
\* fails or panics, whatever the command line admits.
OnlyForCause ==
  \A w \in Worker : cause[w] # None =>
    \/ cause[w].why = "mbufs"
    \/ cause[w].why = "tailroom" /\ cause[w].bytes > LongestFrame
    \/ cause[w].why = "short" /\ cause[w].bytes < TagOffset
    \/ /\ cause[w].why = "queue" /\ ~Several
       /\ U16 - 1 \in {config.rxQueue, config.txQueue}

\* Every advertisement on its way answers a solicitation for this very node,
\* and is one the node that asked accepts.
AnswersConvince ==
  \A a \in Place : \A i \in DOMAIN list[a] :
    LET answer == list[a][i].answer IN
    answer # None => /\ answer.to.target = Local
                     /\ Convinces(answer.to, answer.reply)

=============================================================================
